------------------------- MODULE ReferralCommission -------------------------
(***************************************************************************)
(* From a PAID progress step to the partner's balance and out of it again. *)
(*                                                                         *)
(* Staff adds a step to a claim: ProgressController.createProgress writes  *)
(* the row and then adds a sendNewProgressEmail job, delayed by the minute *)
(* in which the step can still be deleted.  The queue's only worker looks  *)
(* whether the step still exists and is still the latest one, credits the  *)
(* commission of a PAID step, and sends the letter; a job that throws is   *)
(* tried three times.  Administrators pay out what a partner has earned.   *)
(* Nothing locks the claim or the partner between the steps of a handler.  *)
(*                                                                         *)
(* Money is counted in abstract units: worth[c] stands for                 *)
(* (1 + passengers) * amount * REFERRAL_RATE of claim c as it is now.      *)
(***************************************************************************)
EXTENDS Integers, Sequences, FiniteSets, Functions

CONSTANTS
  Claims, Partners, NoPartner, ReferredBy, Amounts,  \* see CommissionLedger
  RowIds,      \* ids a Progress row may get
  Orders,      \* orders the client may send for a step
  Office,      \* staff and administrator requests in flight
  Attempts,    \* attempts of a job, 3 in the code
  Limit,       \* bound on the events of each kind, see Spend
  Total        \* bound on the events of all kinds

Events == {"step", "undo", "edit", "payout", "failure", "crash"}

ASSUME PartnerAssumption ==
  /\ ReferredBy \in [Claims -> Partners \cup {NoPartner}]
  /\ NoPartner \notin Partners
  /\ Amounts \subseteq Nat
  /\ Claims # {}
ASSUME StepAssumption ==
  /\ Orders \subseteq Nat \ {0}
  /\ Attempts \in Nat \ {0}
  /\ Limit \in [Events -> Nat] /\ Total \in Nat

Rows == [life : {"unborn", "kept", "deleted"}, claim : Claims,
         order : Nat, paid : BOOLEAN]
Jobs == [row : RowIds, left : 1..Attempts]

\* What a request of the back office still has to do.
Rest == [step |-> "rest"]
Tasks ==
  {Rest}
  \cup [step : {"save"}, claim : Claims, order : Orders, paid : BOOLEAN]
  \cup [step : {"enqueue", "delete"}, row : RowIds]
  \cup [step : {"pay"}, partner : Partners, amount : Amounts, seen : Nat]

\* Where the worker is in its job; amount is set by the read of the claim.
Works ==
  {Rest}
  \cup [step : {"progress", "latest", "claim", "find", "credit", "letter"},
        job : Jobs, amount : Amounts \cup {0}]

VARIABLES
  rows,          \* the progress rows of all claims
  elapsed,       \* rows whose minute is over
  alive,         \* claims that exist
  worth,         \* commission a claim would earn if it were read now
  jobs,          \* delayed and waiting sendNewProgressEmail jobs
  failed,        \* rows whose job threw on every attempt or stalled twice
  work,          \* what the worker is doing
  task,          \* what each request of the back office is doing
  transactions,  \* ReferralTransaction rows
  payouts,       \* amounts of the ReferralPayout rows of each partner
  balance,       \* Partner.balance
  totalEarnings, \* Partner.totalEarnings
  spent,         \* events so far, by kind
  outranked,     \* history: rows that at some time were not the latest
  orphaned       \* history: rows whose request died before the job was added

vars == <<rows, elapsed, alive, worth, jobs, failed, work, task, transactions,
          payouts, balance, totalEarnings, spent, outranked, orphaned>>
books == <<transactions, payouts, balance, totalEarnings>>
claims == <<alive, worth>>
steps == <<rows, elapsed, outranked, orphaned>>

-----------------------------------------------------------------------------
Spent == spent["step"] + spent["undo"] + spent["edit"] + spent["payout"]
         + spent["failure"] + spent["crash"]

Spend(event) ==
  /\ spent[event] < Limit[event] /\ Spent < Total
  /\ spent' = [spent EXCEPT ![event] = @ + 1]

Kept(r) == rows[r].life = "kept"
KeptOf(c) == {r \in RowIds : Kept(r) /\ rows[r].claim = c}

NoRow == [life |-> "unborn", claim |-> CHOOSE c \in Claims : TRUE,
          order |-> 0, paid |-> FALSE]

\* The claims that have a ReferralTransaction.
Rewarded == {t.claim : t \in transactions}

Init ==
  /\ rows = [r \in RowIds |-> NoRow]
  /\ elapsed = {}
  /\ alive = Claims
  /\ worth \in [Claims -> Amounts]
  /\ jobs = {}
  /\ failed = {}
  /\ work = Rest
  /\ task = [h \in Office |-> Rest]
  /\ transactions = {}
  /\ payouts = [p \in Partners |-> <<>>]
  /\ balance = [p \in Partners |-> 0]
  /\ totalEarnings = [p \in Partners |-> 0]
  /\ spent = [e \in Events |-> 0]
  /\ outranked = {}
  /\ orphaned = {}
-----------------------------------------------------------------------------
(* Staff: progress steps and the claims they belong to.                    *)

\* ProgressController.createProgress up to the read of the claim.
BeginStep(h, c, order, paid) ==
  /\ Spend("step")
  /\ task[h] = Rest
  /\ c \in alive
  /\ task' = [task EXCEPT ![h] = [step |-> "save", claim |-> c,
                                  order |-> order, paid |-> paid]]
  /\ UNCHANGED <<steps, claims, jobs, failed, work, books>>

\* ProgressService.createProgress: throws when the claim has gone meanwhile.
SaveStep(h) ==
  /\ task[h].step = "save"
  /\ LET c == task[h].claim
         o == task[h].order
     IN  IF c \notin alive
         THEN /\ task' = [task EXCEPT ![h] = Rest]
              /\ UNCHANGED <<rows, outranked>>
         ELSE \E r \in RowIds :
                /\ rows[r].life = "unborn"
                /\ rows' = [rows EXCEPT ![r] =
                              [life |-> "kept", claim |-> c, order |-> o,
                               paid |-> task[h].paid]]
                /\ outranked' = outranked
                     \cup {q \in KeptOf(c) : rows[q].order < o}
                     \cup {q \in {r} : \E k \in KeptOf(c) : rows[k].order > o}
                /\ task' = [task EXCEPT ![h] = [step |-> "enqueue", row |-> r]]
  /\ UNCHANGED <<elapsed, orphaned, claims, jobs, failed, work, books, spent>>

\* Variant: one attempt too many.
EnqueueJobOnceMore(h) ==
  /\ task[h].step = "enqueue"
  /\ jobs' = jobs \cup {[row |-> task[h].row, left |-> Attempts + 1]}
  /\ task' = [task EXCEPT ![h] = Rest]
  /\ UNCHANGED <<steps, claims, failed, work, books, spent>>

\* sendNewProgressEmailQueue.add with attempts: 3.
EnqueueJob(h) ==
  /\ task[h].step = "enqueue"
  /\ jobs' = jobs \cup {[row |-> task[h].row, left |-> Attempts]}
  /\ task' = [task EXCEPT ![h] = Rest]
  /\ UNCHANGED <<steps, claims, failed, work, books, spent>>

\* SEND_NEW_PROGRESS_EMAIL_QUEUE_DELAY has passed since createdAt.
MinutePasses(r) ==
  /\ rows[r].life # "unborn"
  /\ r \notin elapsed
  /\ elapsed' = elapsed \cup {r}
  /\ UNCHANGED <<rows, outranked, orphaned, claims, jobs, failed, work, task,
                 books, spent>>

\* ProgressController.deleteProgress: the age is checked on the row as read.
BeginDelete(h, r) ==
  /\ Spend("undo")
  /\ task[h] = Rest
  /\ Kept(r)
  /\ r \notin elapsed
  /\ task' = [task EXCEPT ![h] = [step |-> "delete", row |-> r]]
  /\ UNCHANGED <<steps, claims, jobs, failed, work, books>>

\* prisma.progress.delete; on a row that has gone it throws.
DeleteStep(h) ==
  /\ task[h].step = "delete"
  /\ rows' = [rows EXCEPT ![task[h].row].life = "deleted"]
  /\ task' = [task EXCEPT ![h] = Rest]
  /\ UNCHANGED <<elapsed, outranked, orphaned, claims, jobs, failed, work,
                 books, spent>>

\* Staff edits the amount or the passengers of a claim.
EditClaim(c, amount) ==
  /\ Spend("edit")
  /\ c \in alive
  /\ worth[c] # amount
  /\ worth' = [worth EXCEPT ![c] = amount]
  /\ UNCHANGED <<steps, alive, jobs, failed, work, task, books>>

\* Variant: the claim is deleted whatever refers to it.
DeleteClaimAnyway(c) ==
  /\ Spend("edit")
  /\ c \in alive
  /\ alive' = alive \ {c}
  /\ rows' = [r \in RowIds |->
                IF r \in KeptOf(c) THEN [rows[r] EXCEPT !.life = "deleted"]
                ELSE rows[r]]
  /\ UNCHANGED <<elapsed, outranked, orphaned, worth, jobs, failed, work, task,
                 books>>

\* ClaimPersistenceService.cascadeDelete: the progress rows go with the claim
\* state; the foreign key of a ReferralTransaction, which does not cascade,
\* makes the whole transaction fail.
DeleteClaim(c) ==
  /\ Spend("edit")
  /\ c \in alive
  /\ c \notin Rewarded
  /\ alive' = alive \ {c}
  /\ rows' = [r \in RowIds |->
                IF r \in KeptOf(c) THEN [rows[r] EXCEPT !.life = "deleted"]
                ELSE rows[r]]
  /\ UNCHANGED <<elapsed, outranked, orphaned, worth, jobs, failed, work, task,
                 books>>

-----------------------------------------------------------------------------
(* The worker of the send-new-progress-email queue, one job at a time.     *)

At(step) == work.step = step
Claim == rows[work.job.row].claim
Continue(step) == work' = [work EXCEPT !.step = step]
Finish == work' = Rest

\* A job is due a minute after it was added, so after the row's own minute.
TakeJob(j) ==
  /\ work = Rest
  /\ j \in jobs
  /\ j.row \in elapsed
  /\ jobs' = jobs \ {j}
  /\ work' = [step |-> "progress", job |-> j, amount |-> 0]
  /\ UNCHANGED <<steps, claims, failed, task, books, spent>>

\* getProgressById: a deleted step sends nothing.
ReadProgress ==
  /\ At("progress")
  /\ IF Kept(work.job.row) THEN Continue("latest") ELSE Finish
  /\ UNCHANGED <<steps, claims, jobs, failed, task, books, spent>>

\* Variant: a step that ties with the latest order, as it does with itself,
\* counts as outranked.
ReadLatestStrictly ==
  /\ At("latest")
  /\ IF /\ KeptOf(Claim) # {}
        /\ \A q \in KeptOf(Claim) : rows[q].order < rows[work.job.row].order
     THEN Continue("claim") ELSE Finish
  /\ UNCHANGED <<steps, claims, jobs, failed, task, books, spent>>

\* getMaxProgressOrder: no row at all, or a later one, sends nothing.
ReadLatest ==
  /\ At("latest")
  /\ IF /\ KeptOf(Claim) # {}
        /\ \A q \in KeptOf(Claim) : rows[q].order <= rows[work.job.row].order
     THEN Continue("claim") ELSE Finish
  /\ UNCHANGED <<steps, claims, jobs, failed, task, books, spent>>

\* findOneById; the commission is computed from this read.
ReadClaim ==
  /\ At("claim")
  /\ IF Claim \notin alive THEN Finish
     ELSE work' = [work EXCEPT !.amount = worth[Claim],
                    !.step = IF /\ rows[work.job.row].paid
                                /\ ReferredBy[Claim] # NoPartner
                             THEN "find" ELSE "letter"]
  /\ UNCHANGED <<steps, claims, jobs, failed, task, books, spent>>

\* getReferralTransactionByClaimId.
FindTransaction ==
  /\ At("find")
  /\ Continue(IF Claim \in Rewarded THEN "letter" ELSE "credit")
  /\ UNCHANGED <<steps, claims, jobs, failed, task, books, spent>>

\* The job threw at the step it was at: another attempt, or none left.
Retry ==
  /\ work' = Rest
  /\ LET left == work.job.left - 1
     IN  IF left = 0
         THEN failed' = failed \cup {work.job.row} /\ jobs' = jobs
         ELSE /\ jobs' = jobs \cup {[work.job EXCEPT !.left = left]}
              /\ failed' = failed

\* Variant: the balance is not raised with the lifetime earnings.
MakeTransactionEarningsOnly ==
  /\ At("credit")
  /\ IF Claim \in Rewarded \/ Claim \notin alive
     THEN Retry /\ UNCHANGED books
     ELSE LET p == ReferredBy[Claim]
          IN  /\ transactions' = transactions \cup
                   {[claim |-> Claim, partner |-> p, amount |-> work.amount]}
              /\ totalEarnings' = [totalEarnings EXCEPT ![p] = @ + work.amount]
              /\ Continue("letter")
              /\ UNCHANGED <<payouts, balance, jobs, failed>>
  /\ UNCHANGED <<steps, claims, task, spent>>

\* makeReferralTransaction: the row and the increments are one transaction,
\* which the unique claimId or the foreign key of the claim can refuse.
MakeTransaction ==
  /\ At("credit")
  /\ IF Claim \in Rewarded \/ Claim \notin alive
     THEN Retry /\ UNCHANGED books
     ELSE LET p == ReferredBy[Claim]
          IN  /\ transactions' = transactions \cup
                   {[claim |-> Claim, partner |-> p, amount |-> work.amount]}
              /\ balance' = [balance EXCEPT ![p] = @ + work.amount]
              /\ totalEarnings' = [totalEarnings EXCEPT ![p] = @ + work.amount]
              /\ Continue("letter")
              /\ UNCHANGED <<payouts, jobs, failed>>
  /\ UNCHANGED <<steps, claims, task, spent>>

\* The link and the letter.
SendLetter ==
  /\ At("letter")
  /\ Finish
  /\ UNCHANGED <<steps, claims, jobs, failed, task, books, spent>>

\* A call of the job throws before it has any effect.
JobThrows ==
  /\ work # Rest
  /\ Spend("failure")
  /\ Retry
  /\ UNCHANGED <<steps, claims, task, books>>

-----------------------------------------------------------------------------
(* Payouts.                                                                *)

\* PayoutController.createPayout up to the check of the balance it read.
BeginPayout(h, p, amount) ==
  /\ Spend("payout")
  /\ task[h] = Rest
  /\ amount <= balance[p]
  /\ task' = [task EXCEPT ![h] = [step |-> "pay", partner |-> p,
                                  amount |-> amount, seen |-> Len(payouts[p])]]
  /\ UNCHANGED <<steps, claims, jobs, failed, work, books>>

\* Variant: a payout is taken from the lifetime earnings as well.
MakePayoutFromEarnings(h) ==
  /\ task[h].step = "pay"
  /\ LET p == task[h].partner
     IN  /\ payouts' = [payouts EXCEPT ![p] = Append(@, task[h].amount)]
         /\ balance' = [balance EXCEPT ![p] = @ - task[h].amount]
         /\ totalEarnings' = [totalEarnings EXCEPT ![p] = @ - task[h].amount]
  /\ task' = [task EXCEPT ![h] = Rest]
  /\ UNCHANGED <<steps, claims, jobs, failed, work, transactions, spent>>

\* PayoutService.makePayout commits the row and the decrement together.
MakePayout(h) ==
  /\ task[h].step = "pay"
  /\ LET p == task[h].partner
     IN  /\ payouts' = [payouts EXCEPT ![p] = Append(@, task[h].amount)]
         /\ balance' = [balance EXCEPT ![p] = @ - task[h].amount]
  /\ task' = [task EXCEPT ![h] = Rest]
  /\ UNCHANGED <<steps, claims, jobs, failed, work, transactions,
                 totalEarnings, spent>>

\* The partner has no settings or the letter throws: rolled back.
PayoutRollsBack(h) ==
  /\ task[h].step = "pay"
  /\ Spend("failure")
  /\ task' = [task EXCEPT ![h] = Rest]
  /\ UNCHANGED <<steps, claims, jobs, failed, work, books>>

\* The API process stops.  The worker's job has stalled and is handed out
\* again with its attempts, once: BullMQ gives up a job that stalls a second
\* time.  What the other requests had not yet done is not done.
Crash ==
  /\ Spend("crash")
  /\ work' = Rest
  /\ \/ /\ jobs' = IF work = Rest THEN jobs ELSE jobs \cup {work.job}
        /\ failed' = failed
     \/ /\ work # Rest
        /\ spent["crash"] > 0
        /\ failed' = failed \cup {work.job.row}
        /\ jobs' = jobs
  /\ task' = [h \in Office |-> Rest]
  /\ orphaned' = orphaned \cup
       {r \in RowIds : \E h \in Office : task[h] = [step |-> "enqueue", row |-> r]}
  /\ UNCHANGED <<rows, elapsed, outranked, claims, books>>

-----------------------------------------------------------------------------
WorkerStep ==
  \/ ReadProgress \/ ReadLatest \/ ReadClaim \/ FindTransaction
  \/ MakeTransaction \/ SendLetter

OfficeStep(h) ==
  \/ SaveStep(h) \/ EnqueueJob(h) \/ DeleteStep(h) \/ MakePayout(h)

OfficeRequest(h) ==
  \/ \E c \in Claims, o \in Orders, paid \in BOOLEAN : BeginStep(h, c, o, paid)
  \/ \E r \in RowIds : BeginDelete(h, r)
  \/ \E p \in Partners, amount \in Amounts : BeginPayout(h, p, amount)

Next ==
  \/ WorkerStep
  \/ \E j \in jobs : TakeJob(j)
  \/ JobThrows
  \/ \E h \in Office : OfficeRequest(h) \/ OfficeStep(h) \/ PayoutRollsBack(h)
  \/ \E r \in RowIds : MinutePasses(r)
  \/ \E c \in Claims : DeleteClaim(c) \/ \E amount \in Amounts : EditClaim(c, amount)
  \/ Crash

Spec == Init /\ [][Next]_vars

\* The worker polls and time passes as long as the process lives.
Fairness ==
  /\ WF_vars(WorkerStep)
  /\ WF_vars(\E j \in jobs : TakeJob(j))
  /\ \A r \in RowIds : WF_vars(MinutePasses(r))
  /\ \A h \in Office : WF_vars(OfficeStep(h))

FairSpec == Spec /\ Fairness

-----------------------------------------------------------------------------
(* Properties.                                                             *)

Sum(f) == FoldFunction(+, 0, f)
CreditedTo(p) ==
  Sum([t \in {t \in transactions : t.partner = p} |-> t.amount])

\* Every variable has the shape the code gives it.
TypeOK ==
  /\ rows \in [RowIds -> Rows]
  /\ elapsed \in SUBSET RowIds
  /\ alive \in SUBSET Claims
  /\ worth \in [Claims -> Amounts]
  /\ jobs \in SUBSET Jobs
  /\ failed \in SUBSET RowIds
  /\ work \in Works
  /\ task \in [Office -> Tasks]
  /\ transactions \in SUBSET [claim : Claims, partner : Partners,
                              amount : Amounts]
  /\ payouts \in [Partners -> Seq(Amounts)]
  /\ balance \in [Partners -> Int]
  /\ totalEarnings \in [Partners -> Nat]
  /\ spent \in [Events -> Nat]
  /\ outranked \in SUBSET RowIds
  /\ orphaned \in SUBSET RowIds

\* The two counters of a partner agree with the rows they summarise, whatever
\* is retried, cut short by a crash or paid out at the same time.
BooksBalance ==
  \A p \in Partners :
    /\ totalEarnings[p] = CreditedTo(p)
    /\ balance[p] = CreditedTo(p) - Sum(payouts[p])

\* A claim whose commission was credited can no longer be deleted, not even by
\* a deletion that runs between the worker's reads and its transaction.
RewardedClaimsStay == Rewarded \subseteq alive

\* A PAID step of a referred claim that is still there has earned the
\* commission, or its job is on its way, or a later step once outranked it, or
\* every attempt threw or it stalled twice, or the request died before the
\* job was added.
PaidAccounted ==
  \A r \in RowIds :
    (Kept(r) /\ rows[r].paid /\ ReferredBy[rows[r].claim] # NoPartner) =>
      \/ rows[r].claim \in Rewarded
      \/ \E j \in jobs : j.row = r
      \/ work # Rest /\ work.job.row = r
      \/ \E h \in Office : task[h] = [step |-> "enqueue", row |-> r]
      \/ r \in outranked \cup failed \cup orphaned

\* The check of the balance is only ever undone by another payout: if none to
\* this partner was made since, the balance still covers the payout.
PayoutCoveredUnlessOverlapped ==
  \A h \in Office :
    (/\ task[h].step = "pay"
     /\ Len(payouts[task[h].partner]) = task[h].seen)
    => task[h].amount <= balance[task[h].partner]

\* A PAID step that is left alone brings the commission: once its job is
\* added, the partner is credited unless the step is deleted or outranked,
\* the claim goes, or the job throws on every attempt or stalls twice.
PaidStepRewards ==
  \A r \in RowIds :
    (/\ Kept(r) /\ rows[r].paid
     /\ ReferredBy[rows[r].claim] # NoPartner
     /\ \E j \in jobs : j.row = r)
    ~> (rows[r].claim \in Rewarded \/ ~Kept(r) \/ r \in outranked \cup failed)

\* "Insufficient balance": a payout never takes more than the partner has.
BalanceNeverNegative == \A p \in Partners : balance[p] >= 0

\* The queue, its retries and the handlers implement the promise.
Ledger == INSTANCE CommissionLedger WITH rewarded <- Rewarded,
                                         earned <- totalEarnings
LedgerRefined == Ledger!LedgerSpec

\* The money of a partner is accounted for, in each of these ways.
MoneyAccounted ==
  /\ BooksBalance
  /\ PayoutCoveredUnlessOverlapped
  /\ PaidAccounted
=============================================================================
