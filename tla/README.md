# SkyHelp, specified

SkyHelp is a NestJS service that takes airline compensation claims through a
workflow of forms, documents, letters and payments. This directory holds TLA+
modules that model its stateful core, TLC configurations that check them on
small instances, and TLAPS proofs of the results that do not depend on the
size of the instance. Paths below are relative to `src/src/modules/` unless
they start with `src/`.

## 1. The system

One API process (NestJS) serves HTTP requests, runs the BullMQ workers of all
queues (one job at a time per worker, the default concurrency) and listens to
Google Pub/Sub. Its state is in PostgreSQL (through Prisma), in Redis (the
queues and keys with an expiry) and, for files, in S3. There is no lock on a
claim: a handler is a sequence of awaited database calls, and anything may
happen between two of them.

### Components

| component | state | operations | talks to |
|---|---|---|---|
| Document collection (`claim/document`, `claim/claim.service.ts`, `claim/customer`, `claim/other-passenger`) | `Document` rows, `isSigned` flags | uploads by the customer, by links to passengers, by the intake form, by staff; signatures; edits and removals | queue `generateAssignment`; document requests; progress; recent updates; discrepancy hub |
| Document requests (`claim/document-request`) | `DocumentRequest` rows, a redis lock per claim | create, close, delete; `ensureDocumentRequests`; schedule of reminder letters | queue `send-new-document-requests`, uploads, `handleAllDocumentsUploaded` |
| Progress (`claim/progress`, `claim/state`) | `Progress` rows, `ClaimState.status` | create, edit, delete within a minute; status edits | queue `send-new-progress-email`; the automatic advance; referrals |
| Referral programme (`referral`) | `ReferralTransaction`, `ReferralPayout`, `Partner.balance`, `Partner.totalEarnings` | credit of a commission, payout, partner pages | the worker of `send-new-progress-email`; claim deletion |
| Payment details (`claim/payment`) | `ClaimPayment`, `isPaymentRequested`, a redis block | request with three letters, answer of the customer, staff edits | queue `request-payment-details`, tokens, recent updates |
| Claim intake (`claim/claim.controller.ts`, `claim.service.ts`, `claim/duplicate`) | `Claim` and its children, `step`, numeric id, links between duplicates | create, form steps, duplicates, flight status jobs | most queues |
| Follow-ups and reminders (`claim/processors`) | jobs only | letters of an unfinished form, a self-scheduling reminder | notifications, resume clicks |
| Recent updates (`claim/recent-updates`) | `ClaimRecentUpdates` rows, `hasRecentUpdate` flag | save, mark as viewed | uploads, payment details, mails |
| Accounts (`auth`, `user`) | codes in redis, `User` and `OauthAccount` rows | register, verify, resend, forgot, reset, Google sign-in, accounts made with a claim | notifications |
| Flight statuses (`claim/flight-status`, `claim/meteo-status`, `flight`) | `ClaimFlightStatus` and `MeteoStatus` rows, the date of the claim | the job that asks five sources, refresh, creation by staff | flight and weather services, intake |
| Links of passengers (`generate-links`, `claim/other-passenger`) | copied links, short links in redis, revoked tokens | make, shorten, open, sign, upload | tokens, documents, document requests |
| Partners (`referral/partner`, `referral/referral-links`) | `Partner`, `ReferralLink`, clicks per day, `Claim.referredById` | create, link, visit, credit a claim, statistics | intake, accounts |
| Letters of the office (`letter`, `email`, `email-attachment`) | `Email` rows, attachments, their claims | send, receive, file under a claim, delete with it | Gmail, office mailbox, S3 |
| Tokens (`token`) | revoked ids in redis | sign, verify, revoke | all links in letters |
| Office mailbox (`gmail`, `email`) | `startHistoryId` in memory, `Email` rows | watch, pull, handle a message | Pub/Sub, claims, recent updates |
| Discrepancy hub (`claim/discrepancy-hub`) | `Discrepancy` rows | compare recognised data with the claim | recognition service |
| Claim persistence, search, statistics (`claim-persistence`) | all claim tables | queries, `cascadeDelete` | everything |
| Airports (`airport`, `elastic-search`, `cache`) | table, index, answers in redis | fill the index, search | intake form |
| Payments of passengers (`claim/customer`, `claim/other-passenger`) | payment and status of each passenger | set a payment or a status | letters, claim persistence |
| Lookups (`airline`, `flight`, `boarding-pass`, compensation) | static tables | searches, `calculateCompensation`, parsing | intake |

### What is hard here

* Every decision is a check followed by an act with awaits in between: the
  automatic advance, the payout, the deletion of a step, the lock of the
  reminder letters, the codes of a registration, the token of a link.
* Jobs are tried again (`attempts`), handed out again after a restart, or
  thrown away because their processor swallows errors; each job must be safe
  to run twice or safe to lose.
* Related facts live in two places that are written one after the other: a
  status and its progress row, a row and the job that announces it, a
  signature and the job that renders it, a flag and the rows it summarises.
* The back office edits the same rows while handlers are running.

The list of hazards in `PROJECT.json` gives the line of each one and the
properties that cover it.

### What makes each component correct

* Document collection: the claim advances only when every passenger has every
  group of documents and no request is open; it advances when the last of them
  arrives; a signature is never without its assignment for no recorded reason.
* Referral programme: one commission per claim, the counters agree with the
  rows, nothing is paid out that was not earned, a PAID step earns.
* Document requests: one series of reminder letters per claim; a request for
  each passenger whose document is missing.
* Payment details: an answer ends the letters until staff ask again, a request
  reaches the customer, the mark of the claim and the block do not contradict
  each other, a link is spent once.
* Recent updates: a claim with news nobody has viewed carries the flag.
* Accounts: one user per mailbox, the code in the customer's hands is the one
  that is kept, a reset code changes a password once.
* Office mailbox: each mail of the box is stored exactly once.
* Intake: an id is given to one claim, duplicates know each other, a claim
  that waits has its reminder, no letter goes out twice or unwanted.
* Flight statuses: one row per source, what a source said is not lost, and what
  is stored is what happened to the customer's flight.
* Discrepancies: rows are about documents that are there and about one
  passenger.
* Signed assignments: an assignment says what the claim says, a signature is on
  one of them and never lost.
* Links of passengers: a link is used once and not spent for nothing.
* Letters of the office: a letter has its row and file, an answer is filed with
  its thread.
* Partners: visits and claims are credited to the partner whose link they used.
* Views: paging misses nothing, the numbers of the statistics agree, a claim
  with news is shown.
* Compensation: no answer in the passenger's favour lowers the amount.
* Payments of passengers: payment and status say what staff asked for last, and
  a failed payment was written about.
* Airports: the index is whole or empty, and what is kept of a search is what a
  whole index answers.

## 2. Modules

### `ClaimDocuments`

One claim. A document is its *slot* (passenger, group of
`requiredDocumentGroups`); `docs` counts the rows of a slot with
`deletedAt = null`. Handlers are processes with a step (`pc`) and local
variables (`ctx`); each awaited database call is a step.

| model | code |
|---|---|
| `BeginUpload`, `BeginPassengerUpload`, `FormUpload` | the upload endpoints up to `saveDocuments`; the first may name a document request, the last runs no check |
| `BeginCustomerSign`, `BeginPassengerSign`, `BeginFormSign` | the signature endpoints; the customer's adds the job first and closes the request afterwards, the passenger's closes first |
| `SaveDocument` | one `document.create` of `DocumentDbService.saveMany`, in any order |
| `ReadClaim`, `ReadRequests`, `Advance` | `ClaimService.handleAllDocumentsUploaded`: the read of the claim with its early returns, the read of the requests, the transaction; the order of the new row comes from the first read |
| `CloseRequest`, `Enqueue`, `Sign` | `updateStatus(INACTIVE)`, `generateAssignmentQueue.add`, `setIsSigned…` |
| `TakeJob`, `JobThrows` | the worker; its `try/catch` completes a job that threw, so it is not tried again |
| `HandlerThrows` | a rejected await ends a request; what was done stays |
| `Crash` | the process restarts; BullMQ returns a stalled job to the queue once (`maxStalledCount = 1`) and may give it up the second time |
| `StaffUpload`, `RemoveDocument`, `PatchDocument`, `CreateRequest`, `DeleteRequest`, `StaffProgress`/`StaffProgressRow`, `DeleteProgress`, `UpdateState` | the back office; `StaffProgress` writes the status of the passengers it names and a later step adds the row |

Two history variables record what the rows alone no longer show: `ever`
(slots that were filled at some time) and `lost` (assignments whose job threw
or was given up).

Left out: the letters, tokens, recent updates and discrepancies of an upload,
the minute in which a progress row may be deleted (so a row may be deleted at
any time, which is more than the code allows), the compression and naming of
files. `SENT_TO_AIRLINE` stands for every status from which the documents do
not bring the claim back.

### `ReferralCommission` and `CommissionLedger`

`CommissionLedger` is the promise: one commission per claim, added to the
balance and to the lifetime earnings at once; payouts take from the balance.
`ReferralCommission` is the code: `createProgress` writes the row (`SaveStep`)
and later adds a job delayed by a minute (`EnqueueJob`); the worker reads the
step, the latest order, the claim, the transaction of the claim, and then
credits (`ReadProgress` … `MakeTransaction`), each read an await of its own; a
job that throws is tried `Attempts` times from the start (`Retry`). Staff may
delete a step within its minute (`BeginDelete` checks, `DeleteStep` acts),
edit the claim's amount (`EditClaim`) or delete the claim (`DeleteClaim`, which
the foreign key of a transaction refuses). A payout is a check
(`BeginPayout`) and a transaction (`MakePayout`) that may roll back
(`PayoutRollsBack`). The commission is one number, `worth[c]`, standing for
`(1 + passengers) * amount * REFERRAL_RATE`; what a partner was credited is the
sum over its rows (`CreditedTo`). The `LedgerRefined` property
instantiates the ledger with `rewarded <- Rewarded, earned <- totalEarnings`.

`BeginPayout` also has a ghost field `seen`, the number of payouts the partner
had when the balance was read. `outranked`, `failed` and `orphaned` are history
variables that say why a PAID step may stay without its commission.

### `OfficeMailbox`

The path of a mail from Gmail to the back office. `box` is the mailbox in the
order of its history, so a history id is an index (one mail per record);
`start` is `startHistoryId`, which lives in the memory of the process;
`notices` counts the notifications Pub/Sub has still to deliver. A listener
has two threads: `pull` is where its `getNewMessages` is, `hand` and `step`
what its `handleMessage` is doing, and both go on together because the promise
resolves before the loop over the list has ended.

| model | code |
|---|---|
| `Deliver`, `List`, `ListFails` | `subscription.on('message')` up to `history.list`, which is sent with the `startHistoryId` of that moment; an empty or failing answer is acknowledged for good |
| `Fetch`, `FetchFails`, `Passed` | one turn of the loop: `messages.get`, then `startHistoryId = record.id`, then `resolve`, of which only the first counts |
| `Unsettled` | a list in which every get failed: the promise never settles, so the notification is not acknowledged and comes again |
| `Create`, `Announce` | `saveEmail`: the `Email` row with the Gmail id as its key, then `saveRecentUpdate` (one step here) when a claim was found |
| `HandleThrows` | the `catch` of the listener; its `nack` is void because the notification was acknowledged before |
| `RefreshWatch`, `MailboxCrash` | `watchMailbox` by the interval of six hours, and by `onModuleInit`: `startHistoryId` becomes the history id of the present |
| `Arrive`, `ArriveOther`, `Duplicate` | Gmail and Pub/Sub, from how the code uses them |

The history variable `dropped` records the mails somebody let go of. The code
has five ways: the mail came second in a list, its get threw, its handler
threw, the watch was renewed ahead of it, the process restarted. No document,
comment or test of the repository promises more, so these losses are part of
the statement of `MailAccounted` and not findings; what the property excludes
is a sixth way, in spite of listeners that move `startHistoryId` back and
forth.

Left out: attachments, the letters the back office sends, reading and assigning
mails, the token of the mailbox. Which mails belong to a claim (`Known`) does
not change during a behaviour.

### `DocumentReminders`

The document requests of one claim, the redis lock `docs_request_email_lock`
and the letters of the queue `send-new-document-requests`. A letter carries no
request: which requests it names is read when its job runs. Handlers are
requests of the back office and the worker of `ensure-document-requests`.

| model | code |
|---|---|
| `SaveRequest`, `CheckLock`, `AddLetter`, `SetLock` | `DocumentRequestService.create`: the row, `redis.get`, one `queue.add` per delay in their order, `redis.set` with the expiry; a handler that finds the lock is done |
| `CreateRequest`, `DeleteRequest`, `CloseRequest` | the two endpoints of the back office; `updateStatus(INACTIVE)` by an upload or a signature |
| `ScheduleEnsure`, `TakeEnsure`, `ReadRequests`, `EnsureRequest`, `EnsureDone` | `updateClaim` adds a job each time the step is sent; the job reads the claim with its documents, then the requests, then calls `create` for one passenger and type after the other. `Asked` looks at the type alone, not at the passenger, and counts answered requests too |
| `TakeLetter`, `ReadClaim`, `SendLetters`, `LetterThrows` | the worker: nothing to ask, archived, letters; when a call throws, some of the letters for special reasons may be out |
| `HandlerThrows`, `Crash` | a call that throws; a restart, after which a job that was running comes back once |
| `Tick` | a day passes |

Time is in days left: `letters[d]` letters become due in `d` days, `lock` is
the days until the lock expires; the five minutes of the first letter count as
day 0. `getNextWorkTime` moves a letter by at most a night (`AddLetter` with
`night = 1`). A day does not pass within a request, which takes milliseconds;
so a request made in the instant between the last letter and the expiry of the
lock, which was set a few calls later, is outside the model. The two days
between letters are kept; seven letters are two, and the lock expires with the
last one as in the code (`DelayAssumption`).

History variables: `disturbed` (two handlers that found no lock overlapped, or
one broke off before it set the lock), `ensured` and `interrupted` (a job of
the ensure queue ran to its end, or broke off).

Left out: the texts and links of the letters, removal of documents (the job is
not run again for them), deletion of the claim.

### `PaymentDetails`

The payment details of one claim: `requested` is
`ClaimState.isPaymentRequested`, `block` the redis key
`block-payment-requests`, `letters` the jobs of the queue
`request-payment-details`, `revoked` the revoked tokens, `flag` and `unviewed`
the flag of recent updates and its rows. A request of staff or of the customer
is a process; each awaited call is a step (`task[h].step`).

| model | code |
|---|---|
| `BeginRequest`, `LiftBlock`, `SetRequested` | `requestPaymentDetails`: `schedulePaymentDetailsRequests`, `setBlockPaymentRequests(false)`, `updateIsPaymentRequested(true)` |
| `AddLetter` | one of the three `queue.add`, which `forEach` starts and nobody awaits: it may arrive after the calls that follow it, or be lost with the process |
| `StartLetter`, `SendLetter`, `LetterThrows` | the worker: it reads the block and returns, or makes a link and sends the letter; a job that threw is tried `Attempts` times |
| `Verify`, `Revoke`, `ClearRequested`, `SetBlock` | `addPayment`: `verifyJWT` with its look at the revoked ids, `revokeJwt`, `updateIsPaymentRequested(false)`, `setBlockPaymentRequests(true)` |
| `RaiseFlag`, `AddUpdate`, `SaveDetails` | `saveRecentUpdate` (the flag, then the row), then `updatePayment` |
| `MarkViewed`, `ClearFlag` | `patchHasRecentUpdates`: the rows, then the flag |
| `HandlerThrows`, `Crash` | a call that throws; a restart, after which a running job comes back once. An add that is refused ends the process too (nobody catches its rejection), so it is a `Crash` |
| `Tick` | a day passes |

Time is in days left, as in `DocumentReminders`: `letters[d]` letters become
due in `d` days, `block` is the days until the key expires. `setex` of
`'false'` reads as no block, so it is `block = 0`. Seconds of backoff are no
day: a day does not pass while a letter is due, nor within a request. The
letters of the code are due after 0, 3 and 6 days and the block expires after
7; what matters is that every delay is less than the block
(`DelayAssumption`). Links live for thirty days, longer than any letter waits,
so their expiry is left out.

History variables say what the rows no longer show: `quiet` (the last word was
an answer), `told` (a letter went out since staff asked), `whole` (the request
went through and no restart cut its adds off), `crossed`, `shared`, `missed` (a
request and an answer, two answers with one link, or an answer and a viewing
overlapped) and `saves`, `news`.

Left out: the details themselves and their edits by staff, and that the
endpoint would also take the link of another letter.

### `FlightAnswers` and `FlightStatuses`

`FlightAnswers` has no variables: it says which flight a source takes for that
of a date, and how `FlightService` reads a delay and a cancellation from an
answer whose fields may be missing. Times are hours, dates days of a year.
`FlightStatuses` is the rest: `rows` are the `ClaimFlightStatus` rows of one
claim, `meteo` counts its `MeteoStatus` rows, `day` is the date in its details.

| model | code |
|---|---|
| `TakeJob`, `Ask` | `AddFlightStatusProcessor.process`, one source after the other in `Order` |
| `CreateStatus`, `Refresh` | the two endpoints of `FlightStatusController` |
| `DeleteRow`, `SaveRow`, `ClearWeather`, `AddWeather`, `SetDate` | the calls each of them awaits; `Dated` and `Follow` say which |
| `Throw`, `DeleteThrows`, `Crash`, `Retried` | a call that throws ends a request and brings the job back from its beginning |

A call that was made is struck from the list of its task (`Made`); weather that
is not known is passed over with its two calls (`PassedOver`). What two tasks
did together is kept in `twice`, `lost` and `crossed`. The estimate of a
departure, which changes nothing that is stored, the edits of the date by staff
and the parsing of a METAR are left out.

### `ClaimIntake`

`claims` are the `Claim` rows by numeric id, `links` the rows of duplicates,
`jobs` the queues `followUpClaim` and `claimReminder` with one worker each.

| model | code |
|---|---|
| `Create`, `IdTaken`, `DuplicateGone` and the steps up to `AddFlightJob` | `ClaimController.create` and `ClaimService.createClaim`: the duplicates are looked up, the claim is stored under an id drawn at random, the links back are written, the owner is found, the jobs are added |
| `UpdateClaim`, `UploadSign`, `ArchiveClaim`, `Revoke`, `DeleteClaim`, `ChangeStatus` | what the customer and the back office do to a claim |
| `Work`, `CallsOf`, `ScheduleNext` | the two processors; a reminder adds its successor after its letter |
| `CallThrows`, `RequestThrows`, `Crash` | a follow-up is tried `Attempts` times, a reminder once; a stalled job is handed out again once |

`past` records what became of the request of an id (`answered`, `broken`,
`parted`, `missed`, …).
An id of a deleted claim is not drawn again. `flightJobs` are only counted; the
nested rows of the form, the metrics and the record of a resumed form are left
out. A follow-up's `createRecord` is a step that may fail but its rows are
counters nobody decides by.

### The side components

Ten modules without common state, each with two requests that may overlap,
calls that throw and, where it matters, a restart. `met` and `broken` are
history variables in most of them: who overlapped, and who came to grief.

| module | models | left out |
|---|---|---|
| `Accounts` | one mailbox whose address has several spellings: registration and its code, reset of the password, Google sign-in (`authenticateGoogleLoginToken`, whose transaction never rejects), accounts that come with a claim or from an administrator | login, which changes only the time of the last one; the claim connected after a registration |
| `PartnerLinks` | `AdminController.createPartner`, links, visits (`saveReferralClick`), claims credited at intake or by an administrator, the statements of `getPartnerStats` | commissions (see `ReferralCommission`); partners are never removed, all visits lie within thirty days |
| `Discrepancies` | the two comparisons an upload starts and nobody awaits, the refresh, the status set by staff, the removal of documents with their rows | the scores; what the service answers is part of the step before it |
| `Assignments` | the job that renders a signature on the data its request has read, `updateAssignmentData` after the three edits of staff, removal, the date moved by the flight job | the drawing; data are named by the event that wrote them |
| `OfficeLetters` | `LetterController.sendLetter`, the notices of the program, the customer's mails, `findClaimIdForEmail`, attachments, refiling, deletion of claims and the foreign key of attachments | roles, marks of reading; one file per mail, all claims of one customer |
| `PassengerLinks` | links made by staff or the customer, short links, `verify`, the signature and the upload by link, minors with and without parents and birthday | links for a passport are like those for documents; the token and the short link expire together; links that only open the claim |
| `ClaimViews` | `getUserClaims` read page by page, the statements of `getClaimsStats`, the flag of news and its list | filters by what does not change; Elasticsearch |
| `Compensation` | `calculateCompensation` | the distance, which is the straight line as the code computes it |
| `PassengerPayments` | the payment status of a customer or another passenger (`updatePaymentStatus` of both controllers): the letter of a failed payment, then the status (`updateStatus`, `getBasePassenger`), then the payment; `updatePassengerStatus`, deletion of the claim | the statuses a progress step sets in its transaction |
| `AirportIndex` | `SearchSyncService` from the count at the start to the bulk request, restarts in between, `init-db/update.sql`, `getAirportsByName` by code or by name, `AirportGateway` with its cache | ranking, the search in the table used in development, airlines |

`ClaimViews` has the news of `PaymentDetails` once more, for any two requests
that announce something; `Assignments` and `ClaimDocuments` share the queue of
signatures: one asks whether an assignment is there, the other what it says.

`MCSideComponents` puts the ten specifications side by side: `moving`, chosen
by `Init`, is the component that moves, and the variables of the others are
idle. A behaviour is thus one of a single component and the reachable states
are those of the ten, one after the other; nothing is claimed about two of them
at a time, because they share no state. `Limit` bounds the events of each
component, give or take one, and `Differing` is the number of names a passport
may show otherwise (two in the code, one in the run). Its properties are the conjunctions of
the modules' own, so that what is looked at in a run can be read off a short
list:

| property | conjunction of |
|---|---|
| `AccountsConsistent` | `OneUserPerMailbox`, `RegistrationCodeInHand`, `ResetCodeInHand`, `PasswordOnce`, `GoogleLinked`, `StopExplained`; of `PartnerLinks`: `RoleHasPartner`, `LinkOfItsCode`, `VisitsCounted`, `ReferrerCredited`, `TotalsCoverDays` |
| `RowsConsistent` | `ActiveRowsLive`, `RowsOfOwnPassenger`, `PairsCompared` |
| `CopiesConsistent` | `AssignmentCurrent`, `OneCopyPerSignature`, `SignatureNotLost`, `RemovedStaysRemoved`; of `OfficeLetters`: `FiledUnderClaim`, `AnswerStaysInThread`, `LetterKept`; of `PassengerPayments`: `AsAskedLast`, `FailureWritten` |
| `LinksConsistent` | `LinkUsedOnce`, `SpentLinkUsed`, `ClosedIsSigned`, `OpenedStaysOpened` |
| `ViewsConsistent` | `NothingSkipped`, `StatsAgree`, `NewsShown`; of `Compensation`: `FavourNeverCosts`, `DistanceNeverCosts`, `EligibleIsWorth`; of `AirportIndex`: `IndexWhole`, `NotEmptied`, `AnswersWhole` |

Likewise `AdvancesJustified` (`ClaimDocuments`) is that an advance was right
unless staff acted and that there are no more of them than checks overlapped,
`MoneyAccounted` (`ReferralCommission`) that the books balance, a payout was
covered unless overlapped and a PAID step has an account; `RowsOfSources`,
`AnswersFaithful`, `DuplicatesLinked`, `ClaimsKept` and `LettersOnce` are
composed in the same way, each part defined and explained in its module.

The exceptions in these properties ("unless …") are the ways in which the code
lets go of something, each met while modelling it: no document, comment or test
of the repository promises more. TLC confirms that each of them is needed: with
an exception taken away, the property fails.

### The other `MC` modules

Values of the constants for TLC.

## 3. Runs

| run | bounds | what it shows |
|---|---|---|
| `documents_overlap` | 2 passengers, 2 groups, 1 request handler beside the worker, 3 client and 2 staff events | the automatic advance is sound, is right about the claim unless staff acted after the check's read, and repeats no more often than checks overlap |
| `documents_signatures` | a passport and an assignment missing, 1 request handler beside the worker, 2 client and 1 staff events, 1 failing call, 2 restarts | no signature disappears, except where an error is swallowed or the queue gives a job up; the queued signature that was the last thing missing brings the claim back |
| `documents_last_answer` | only the passport missing, 1 request | **violated**: see findings |
| `commission` | 1 claim, 2 amounts, 2 steps with 2 orders, 1 deletion, 1 edit, 2 payouts, 1 failure, 1 restart, 2 attempts, at most 5 of these events in a behaviour | counters and rows agree; a credited claim stays; a payout the balance does not cover was overlapped by another; a PAID step has an account of its commission, and one that is left alone is credited; the code implements `CommissionLedger` |
| `payout_overlap` | 1 claim, 2 payouts of the whole balance | **violated**: see findings |
| `mailbox` | 2 incoming mails and a letter, 2 listeners, 1 duplicate, 1 failing get, 1 failing call, 1 renewed watch, 1 restart | a mail is announced at most once and only when it can be opened; none is passed over except by the ways the code lets go of a mail; one that meets a quiet mailbox is stored |
| `reminders_series` | 2 passengers, 2 types of which one is filed, 1 request of staff beside 1 ensure job, 3 requests in all, letters at days 0 and 2, 1 failing call, 1 restart | whoever finds the lock has a letter ahead of its expiry; two series only if two requests looked together or one broke off; every gap is asked for, except where a request to another passenger is taken for it |
| `reminders_fair` | 1 passenger, 2 requests of which one has a letter of its own, letters at days 0 and 2, 1 archiving, 1 failing call, 1 restart | a request that is open while the lock is held gets into a letter |
| `payment` | 2 requests of staff, 2 answers, 1 viewing, at most 2 at a time, 2 links, letters at days 0 and 1, a block of 2 days, 1 letter that throws, 1 failing call, 1 restart | no letter after an answer; mark and block agree, and the flag announces what came, except where two of these met; a link is spent once; staff who ask reach the customer |
| `flight_statuses` | 2 sources asked by the job and 2 by staff, 2 requests beside it, days around a night flight and around dates that are written alike, answers with every combination of known times over a new year, 2 events, 2 attempts | rows are stored once and stay, delays, cancellations and dates are those of the flight, but for the named cases; the job comes to its end |
| `intake` | 2 ids, 1 trip, 2 requests at a time, 1 follow-up, 2 attempts, at most 3 events | ids are given once, duplicates know each other, an answered claim is looked after, letters go out once and to those who want them, but for the named cases |
| `side_components` | 2 requests at a time and 4 events in each component (5 in `PartnerLinks`, 3 in `Assignments`, `OfficeLetters`, `ClaimViews`, `PassengerPayments` and `AirportIndex`), 2 spellings, 2 travellers, 3 claims of which 2 are old, 2 codes, pages of one claim, 2 airports of which one has one name in both languages | each of the ten keeps its promises, but for the named cases |

A run asks everything that is asked of one model at one size; `Total` and the
limits of `side_components` keep the number of events of a behaviour down
without excluding any kind of them, since the hazards are races of two
activities and one failure.

Every event that is not bounded by the code itself (requests of clients and
staff, failures, restarts) is counted in `spent` and bounded by `Limit`; rows
and requests are bounded by `RowIds` and `RequestIds`, days by the last letter
and a night or by the block (`Horizon`), mails by `Mails`, links by `MaxLinks`
(letters beyond it carry the last link), ids of claims by `Ids`, uploads of
`Discrepancies` by `Uploads`, the events of all kinds by `Total` in two
modules, the orders a member of staff may give a progress row by `Orders`. The
hazards are races of two activities, so the bounds give each race its two
participants, a third event that the race can disturb, and both outcomes of
each decision. Two groups stand for three because no decision looks at more
than "all filled" and "one missing". `Attempts = 2` gives the attempt that
fails, the one that follows and the one that is the last. Two listeners and
three messages give a list of two, a list that overlaps it, and a listener that
is overtaken. Two delays give a series a first and a last letter; the letters
of two series can then meet on a day, and a letter and the expiry of a lock or
of a block. The proofs need none of these bounds. Deadlock is not checked: with
the events spent and the queue empty the system is at rest.

Symmetry: requests are interchangeable in `reminders_series`, `intake` and
`side_components`, and so are ids of claims and travellers in the last two,
where no property is a liveness property and nothing tells them apart;
`LettersWelcome` is an action property that names no request or id. No run that
checks liveness uses symmetry.

### Fairness

`FairSpec` assumes weak fairness of each started handler and of the worker's
poll. Node runs every handler to its end as long as the process lives, and
BullMQ's worker polls; a restart does not break that, because the number of
restarts in a behaviour is bounded. `ReferralCommission` adds that the minute
of a step passes. No client, member of staff, failure or restart is ever
obliged to happen. `OfficeMailbox` assumes that Pub/Sub delivers while a
listener is free, and weak fairness of the two threads of a listener, each for
itself; a promise that never settles is no obstacle, because nothing waits for
it but the acknowledgement. `DocumentReminders` assumes that a started
`create`, the two workers and the clock go on; `PaymentDetails` that started
requests, adds, the worker and the clock do. `FlightStatuses` assumes that the
worker takes the job and that whatever began goes on; requests of the back
office in `ClaimDocuments` are not assumed to finish. `ClaimIntake` and the
side components state no fairness and no liveness: what they promise for the
end (a claim that waits has its reminder, a notice has its row) is stated of
what is in the queue or in progress.

## 4. Proofs

`ClaimDocumentsProofs`, `ReferralCommissionProofs`, `LettersAndMailsProofs`
(`PaymentDetails` and `OfficeMailbox`), `DocumentRemindersProofs`,
`ClaimIntakeProofs`, `FlightStatusesProofs`, `SideComponentsProofs` and
`AccountsProofs` (the last two with the invariants of `SideInvariants`) prove, for every value of the constants that satisfies the named assumptions of the modules (`HandlerAssumption`, `ClaimAssumption`,
`LimitAssumption`, `PartnerAssumption`, `StepAssumption`, `MailAssumption`,
`DelayAssumption`, `AttemptAssumption`, `IntakeAssumption`, `TaskAssumption`,
`SourceAssumption`, `FlightsAssumption`, `SideAssumption`; the `Limit` itself may be any function
to `Nat`, `Total` any number). Every invariant named here was first checked by
TLC on the run of its module.

* `TypeCorrect` (in `OfficeMailbox` `MailboxTypeCorrect`; the side components have
  `SpecTypesOK`, below): `Spec => []TypeOK`, one lemma per group of actions. In `ReferralCommission` the types of `work` and `task` are unions of
  record sets, so the invariant has one conjunct per kind of record.
* `AdvanceSound`: `Spec => []AdvanceHadEveryDocument`. The property is not
  inductive: the row is added two steps after the documents were looked at. The
  strengthening (`EverInv`) adds that a filled slot is in `ever`, which only
  grows, and that a handler that has passed the check (`pc \in {"requests",
  "advance"}`) implies `ever = Slots`.
* `SignaturesKept`: `Spec => []SignatureAccounted`. The strengthening
  (`SignInv`) adds that a handler on its way from the job to the mark is
  already accounted for, that a job in the worker's hands before the save is of
  its passenger, and that the worker past the save has its document in `ever`.
* `AdvancesAreJustified`: `Spec => []AdvancesJustified`. That a check about to
  commit is right about the claim rests on `CommitInv`: what a handler has
  judged holds while staff do nothing, because every other step is `Kinder` to
  the claim, that is, it takes no document away, opens no request and leaves a
  claim that may be brought back so. The bound on the rows is a counting
  argument: a check only starts while there is no automatic row, so there are
  no more in flight than handlers, and from then on a commit trades one check
  in flight for one row.
* `RewardedStay`: `Spec => []RewardedClaimsStay`, from the two foreign-key
  guards: the credit and the deletion exclude each other at the commit.
* `ImplementsLedger`: `Spec => Ledger!LedgerSpec`. `MakeTransaction` maps to
  `Credit`, `MakePayout` to `PayOut`, everything else to a stutter. It needs
  the invariant (`JobInv`) that the job being credited is of a claim that was
  referred and that its amount is one of `Amounts`.
* `MoneyIsAccounted`: `Spec => []MoneyAccounted`, from three invariants.
  `BooksInv`: a commission is credited with its row and a payout taken with its
  own, and the transactions are a finite set, so the sums over them move by the
  amount. `PayoutInv`: the payouts of a partner only grow in number, so a
  request that sees the number it saw at its check knows that nothing was taken
  since. `PaidInv`: the worker drops the job of an owed commission only if a
  later step outranks its own (`LaterOutrank`), if the claim has gone
  (`RowsLive` says it has not) or after the money (`LetterAfterMoney`).
* `NeverAnnouncedTwice`: `Spec => []AnnouncedOnce`. The strengthening
  (`AnnounceInv`) says that a mail whose handler is about to announce it is
  stored and was not announced, and that no two handlers are about to announce
  the same mail: the key of the row decides which of them gets there.
* `NoMailLeftBehind`: `Spec => []MailAccounted`. The property alone says
  nothing of mails a slow listener has still to pass. The strengthening
  (`TakenInv`) says that every incoming mail below any position at which
  `startHistoryId` is, or to which a listener may still move it back, was taken
  or let go of; `HandFree` that a listener which lists, or whose promise has
  not settled, holds no mail; and `PullBounds` keeps positions inside the
  history.
* `LockKept`: `Spec => []LockMeansLetter`. The property says nothing of a
  handler that is about to set the lock; the strengthening (`LockInv`) adds
  that such a handler has put its last letter at or after the day the lock will
  expire, and that one that is still adding has that letter to do.
* `SeriesSingle`: `Spec => []OneSeries`. The strengthening (`SeriesInv`) says
  that, while nothing was disturbed, at most one handler adds letters, it does
  so without a lock and finds the days it has still to fill empty, and
  otherwise no letter is due more than a night after the lock expires. It rests
  on the letters of a series being more than a night apart.

* `GapsAreRequested`: `Spec => []GapsRequested`. `GapInv` follows the ensure
  job: what it left aside when it read the documents is filed, what it has
  passed in its loop is covered, and so is everything once it adds its last
  letters, unless a job broke off. Rows are never taken away, only closed, and
  documents stay, so what is covered once is covered for good.
* `AnswerSilences`: `Spec => []NoLetterAfterAnswer`. The property speaks of the
  moment a job has passed the check; what makes it true lies days before. The
  strengthening (`QuietInv`) says that, while the last word was an answer,
  nobody is about to lift the block, every letter that is due or being added
  falls before the block expires, and a job that will be tried again finds the
  block in force.
* `MarkOpensLetters`: `Spec => []RequestedMeansOpen`. The strengthening
  (`OpenInv`) is about those on the way: a request that has still to set the
  mark has lifted the block, an answer that has still to set the block has
  cleared the mark, unless the two met.
* `LinksAreSpent`: `Spec => []LinkAnswersOnce`. The strengthening (`LinkInv`)
  says of a link that no two answers held at once that at most one is under way
  with it, that nothing was saved through it before that one saves, and that it
  is revoked from that answer's second step on.
* `FlagAnnouncesNews`: `Spec => []NewDetailsFlagged`. The strengthening
  (`FlagInv`) says that an answer that has raised the flag still finds it up
  and nobody about to clear it, and that staff who are about to clear it leave
  no news behind, unless the two met.

* `ClaimsAreKept`, `DuplicatesAreLinked`, `LettersGoOnce` and
  `LettersAreWelcome` (`ClaimIntake`): one invariant `IInv` for all four. It
  says of the ids that a request holds an id nobody else has (`IdsUsed`,
  `IdGivenOnce`); of the owner and the reminder of a claim that they are there
  or that the request which will add them is under way (`OwnerLinked`,
  `ReminderKept`, `OneWaits`); of the letters that a job which was never
  stalled has its letter before it or behind it (`SentOnce`), and that what a
  worker read of a claim holds until something changes the claim
  (`ReadHolds`); and of the duplicates that a new claim knows all claims of its
  trip unless another request is about the trip (`KnowsAll`), that a choice
  marks the claims it knows of (`ChoiceKnown`), and that a link is there both
  ways, or was parted, or the way back is still to be written
  (`LinksSymmetric`).

  `LinksSymmetric` was weaker than the code in an earlier version of the model,
  which TLC accepted on two ids: with three claims of a trip, a second
  revocation after a choice removes the links of the claims it knows of only,
  and the link of a third one stays one way. `Revoke` now records such a claim
  as `missed`. Two ids are the most the run can afford; the proof is for any
  number.
* `RowsStayOfSources` and `AnswersStayFaithful` (`FlightStatuses`): one
  invariant `IInv`. A source nobody asked twice has one row or one task that
  will make it (`RowOrMaker`); one that was seen keeps a row or has it on its
  way (`SeenKept`); weather is there only when no task is to add it
  (`WeatherApart`); and on a plain day every row and every task is about the
  day of the customer's flight (`DaysAgree`, `AnswersKnown`). The reading of
  delays and cancellations (`FlightAnswers`) is proved for all answers, by
  cases on which of the times are known.
* `SpecLinksConsistent`, `SpecRowsConsistent` and `SpecCopiesConsistent`
  (`SideComponentsProofs`, the invariants in `SideInvariants`):
  `Spec => []LinksConsistent` and so on. A behaviour
  moves one component, and in those that move another the properties say nothing
  (`LinksMove`, `HubMoves`, ...), so an invariant of a component needs the steps of
  its own only. `LinkInv` says of a link that no two requests met on that at
  most one holds it (`LinkSole`), that its token is good until it is used and
  was checked by whoever is about to use it (`LinkUses`), that a link to a
  minor asks for the parents unless they were given meanwhile (`LinkAsks`), and
  that a copied link has its record (`LinkRecords`). `HubInv` says of the tasks
  of an upload which documents they may hold by now (`HubSteps`), that a task
  knows of the removals in progress, so that its document is there or was
  removed beside it (`HubMeets`), and that between the closing of the rows and
  the removal of the document the rows that are active again met it
  (`HubCloses`): the document goes one call after its rows were closed, and a
  task may save a row in between. The latest document of a type exists because a
  finite set of numbers has a greatest (`Greatest`).
* `SpecCopiesConsistent` rests on three invariants. `AsgInv` (assignments): each
  signature has a number of its own (`AsgSigs`), of a passenger nothing has
  disturbed one edit is in progress (`AsgAlone`), and what that edit, a request
  that signs or a waiting job has read still holds (`AsgEdits`, `AsgSigns`,
  `AsgJobs`), so that a document either says what the claim says or is among
  those an edit has to do (`AsgDocsFit`); an edit takes a document away before it
  saves it again, which is why a signature is kept by a document *or* by the edit
  between the two calls. `LetInv` (letters): a thread is named by its first mail
  (`LetThreads`), rows are under claims that are there (`LetRows`), and an
  answer, from the look at its thread to its row, is beside a mail of the claim
  it goes to (`LetRequestsFit`, `LetAnswers`), or something in the thread was
  refiled, deleted or not stored; what was sent has its row and file or is
  carried by the request that sent it (`LetKept`). `PayInv` (payments): what was
  asked for is noted or still due, by a request that is alone (`PayDue`), and the
  letters of failures, those that threw and the requests about to send one add up
  to the failures (`PayLetters`). The proof corrected the model once:
  `AnswerStaysInThread` did not allow for mails that had gone with a claim, which
  takes three claims and five events, more than the run has; `moved` now records
  them.
* `SpecViewsConsistent` rests on three more. `ViewInv` (the back office): of a
  list that is being read and that no claim has left, every claim that stayed in
  its place was seen or is on a page to come (`ViewList`), because a change of
  the claims only moves some of them to the front, so the place of the others
  never falls; this needs that no claim has a time to come (`ViewTimes`), and it
  is why `NothingSkipped` speaks of claims that stayed and excepts lists some
  claim left. The numbers that were read are those there are unless the claims
  changed (`ViewNumbers`), and counts of claims with one status each add up
  because the sets are apart (`ClaimsApart`). Of a claim where no news met a look
  at it, the flag is up before the row is fresh and the row no longer fresh when
  the flag goes down (`ViewNews`). The size of a page is any positive number.
  `AirInv` (airports): the rows a process sends are the whole table, to an index
  with the mapping (`AirRows`), an index that is deleted was empty or could not
  be counted (`AirEmptied`), and an answer from a whole index is right from the
  search to the cache (`AirAnswers`). `WorthInv` (compensation) is that the answer
  is the worth of the facts; the three properties follow from `WorthGrows`, which
  compares two sets of facts, for any distances and delays and not only those
  next to the limits that the run has.
* `SpecAccountsConsistent` (`AccountsProofs`) rests on two. `AccInv` (accounts): a
  request that works on the letters or codes of an address is alone with it, or the
  address is in `accountMet` (`AccAlone`), and then what it has read still holds:
  where registration found no code to wait for, none waits until it saves its own,
  the code a verification is about to delete is the one that waits or none, and a
  reset about to change the password has in hand the last code that was mailed,
  which has changed nothing yet (`AccCode`, `AccPass`). A code that has changed a
  password is about to be deleted (`AccSentAt`), which is what makes it change
  one. A request that found no user began when there was none (`AccLooked` in
  `AccStep`), so every user but an administrator's has that on its record
  (`AccMade`), and two of them are two such requests. `PartInv` (partners): an id
  is of one link or of one request that is about to make it (`PartIds`); the
  clicks of a link and the visits in progress that may yet be counted for it make
  up the visits of its id (`PartClicks`), with the cardinality of a set of
  requests, which is why `Http` is finite; a request that holds a referrer has its
  partner for good because a code is never given up (`PartFound`); and the days
  of a partner never exceed its total because clicks only grow while no link is
  deleted.
* `SpecTypesOK` (`AccountsProofs`) is about the types of all the side components,
  which are not inductive by themselves. Most follow from the invariants above (the
  thread of a mail is of no later one, a link has no more clicks than there were
  visits). `Typed` (`SideInvariants`) adds the rest: names and days of an
  assignment are numbers of events so far (`AsgTyped`); a mail whose file is stored
  has its row (`LetTyped`); an answer is 0 until a claim's facts are given, and then
  one of eleven amounts, for any distance and delay (`WorthTyped`); and the letters
  about a payment are no more than the events (`PayTyped`). For that last one the
  count of letters is too weak by itself: each letter sent or lost, and each request
  about to send one, stands for a failure of its own, so the invariant adds the
  letters, the lost ones and the cardinality of the set of requests at the letter,
  and compares the sum with the failures, which cost an event each.

Induction. A theorem of the library that takes an operator as a parameter
cannot be used here, and a sum is a fold, which is recursive. For
`MoneyAccounted` the induction is therefore over a *set* of numbers:
`SetInduction` says that a subset of `Nat` that has 0 and the successor of each
of its members is `Nat`. It is proved from the pigeonhole principle for finite
sets (otherwise the members up to some missing `n` would be mapped by `+ 1` one
to one into, but not onto, themselves). From it follow the existence of the
function behind `FoldFunction` (`BySize`), that the order of adding does not
matter (`AddsAnyOrder`), and `SumOneMore`: one more element adds its number to
the sum, the only fact about sums the books need.

Every invariant and every action property of the passing runs is stated by a
theorem. Only model-checked are the liveness properties, which are beyond the
prover: `SignatureAdvancesClaim`, `PaidStepRewards`, `LoneMailStored`,
`OpenRequestMentioned`, `RequestReachesCustomer` and `JobCompletes`.

## 5. Findings

* `documents_last_answer`: the dashboard upload runs
  `handleAllDocumentsUploaded` inside `saveDocuments`
  (`claim/document/controllers/document.controller.ts:328`) while the request
  it answers is still ACTIVE, and closes the request afterwards (lines
  332–340) without another check. The upload that answers the last open request
  therefore never advances the claim.
* `payout_overlap`: `referral/payout/payout.controller.ts:43` compares with a
  balance that was read earlier; `makePayout` decrements unconditionally. Two
  payouts that overlap take the balance below zero.

## 6. Not modelled, and why

Calls of external services without state of our own (recognition of documents,
metrics, spreadsheets, contact forms), rendering of PDFs and letters, S3,
static tables and the ranking of searches. They appear, where a modelled
handler calls them, as steps that may fail. Also without a model:

* the boarding-pass scan and the search socket, which keep no state;
* `doc-to-pdf.converter.ts` and the merging of files: pure input and output;
* `PublicOtherPassengerController.createOtherPassengers`, a single insertion:
  the mark of a minor it computes is thrown away with the result of `map`
  (`claim/other-passenger/controllers/public-other-passenger.controller.ts:167`),
  so minors in `PassengerLinks` and `Assignments` come from the edits of staff;
* the distance between airports, which is the straight line through the earth
  (`flight/flight.service.ts:388`): an input of `Compensation`;
* staff messages, issues, activity and languages: rows that are written once.

## 7. Plan

1. A composition of `ClaimDocuments` and `DocumentReminders`, which share the
requests, and an abstract specification of the reminders (one series at a time)
that `DocumentReminders` implements. 2. A composition of `OfficeMailbox` and
`OfficeLetters`, which share the rows of mails.
