---------------------- MODULE ReferralCommissionProofs ----------------------
(***************************************************************************)
(* Theorems about ReferralCommission, for every set of claims, partners,   *)
(* rows and requests, and every bound on the events.                       *)
(***************************************************************************)
EXTENDS ReferralCommission, FiniteSetTheorems, TLAPS

LEMMA SpendType ==
  ASSUME spent \in [Events -> Nat], NEW event \in Events, Spend(event)
  PROVE  spent' \in [Events -> Nat]
  BY DEF Spend

\* The fields of a task, by the step it is at.
LEMMA TaskFields ==
  ASSUME NEW t \in Tasks
  PROVE  /\ t.step \in {"rest", "save", "enqueue", "delete", "pay"}
         /\ t.step = "rest" <=> t = Rest
         /\ t.step = "save" => /\ t.claim \in Claims /\ t.order \in Orders
                               /\ t.paid \in BOOLEAN
         /\ t.step \in {"enqueue", "delete"} => t.row \in RowIds
         /\ t.step = "pay" => t.partner \in Partners /\ t.amount \in Amounts
  BY DEF Tasks, Rest

LEMMA WorkFields ==
  ASSUME NEW w \in Works, w # Rest
  PROVE  /\ w \in [step : {"progress", "latest", "claim", "find", "credit",
                           "letter"}, job : Jobs, amount : Amounts \cup {0}]
         /\ w.job.row \in RowIds /\ w.job.left \in 1..Attempts
  BY DEF Works, Jobs

LEMMA RestStep == Rest.step = "rest"
  BY DEF Rest

-----------------------------------------------------------------------------
(* The type invariant is not inductive: that a commission goes to a partner *)
(* and not to "nobody" was decided some steps earlier, from the row of the  *)
(* job, so the row must exist and keep its claim for as long as a job or a  *)
(* request refers to it.                                                    *)

JobInv ==
  /\ \A j \in jobs : rows[j.row].life # "unborn"
  /\ \A h \in Office :
       task[h].step = "enqueue" => rows[task[h].row].life # "unborn"
  /\ work # Rest => rows[work.job.row].life # "unborn"
  /\ work.step \in {"find", "credit"} => ReferredBy[Claim] # NoPartner
  /\ work.step \in {"find", "credit", "letter"} => work.amount \in Amounts

-----------------------------------------------------------------------------
(* Type correctness.                                                       *)

LEMMA InitType == Init => TypeOK
<1> SUFFICES ASSUME Init
             PROVE  TypeOK
  OBVIOUS
<1>1. NoRow \in Rows
  BY PartnerAssumption DEF NoRow, Rows
<1>2. Rest \in Works /\ Rest \in Tasks
  BY DEF Works, Tasks
<1> QED
  BY <1>1, <1>2 DEF Init, TypeOK

LEMMA RequestType ==
  ASSUME TypeOK, NEW h \in Office, OfficeRequest(h)
  PROVE  TypeOK'
<1>1. {"step", "undo", "payout"} \subseteq Events
  BY DEF Events
<1>2. CASE \E c \in Claims, o \in Orders, paid \in BOOLEAN : BeginStep(h, c, o, paid)
  <2>1. PICK c \in Claims, o \in Orders, paid \in BOOLEAN : BeginStep(h, c, o, paid)
    BY <1>2
  <2>2. [step |-> "save", claim |-> c, order |-> o, paid |-> paid] \in Tasks
    BY DEF Tasks
  <2> QED
    BY <1>1, <2>1, <2>2, SpendType DEF BeginStep, TypeOK, steps, claims, books
<1>3. CASE \E r \in RowIds : BeginDelete(h, r)
  <2>1. PICK r \in RowIds : BeginDelete(h, r)
    BY <1>3
  <2>2. [step |-> "delete", row |-> r] \in Tasks
    BY DEF Tasks
  <2> QED
    BY <1>1, <2>1, <2>2, SpendType DEF BeginDelete, TypeOK, steps, claims, books
<1>4. CASE \E p \in Partners, amount \in Amounts : BeginPayout(h, p, amount)
  <2>1. PICK p \in Partners, amount \in Amounts : BeginPayout(h, p, amount)
    BY <1>4
  <2>2. [step |-> "pay", partner |-> p, amount |-> amount,
         seen |-> Len(payouts[p])] \in Tasks
    BY DEF Tasks, TypeOK
  <2> QED
    BY <1>1, <2>1, <2>2, SpendType DEF BeginPayout, TypeOK, steps, claims, books
<1> QED
  BY <1>2, <1>3, <1>4 DEF OfficeRequest

LEMMA OfficeStepType ==
  ASSUME TypeOK, NEW h \in Office, OfficeStep(h) \/ PayoutRollsBack(h)
  PROVE  TypeOK'
<1>1. task[h] \in Tasks /\ Rest \in Tasks
  BY DEF TypeOK, Tasks
<1>2. CASE SaveStep(h)
  <2>1. CASE task[h].claim \notin alive
    BY <1>1, <1>2, <2>1 DEF SaveStep, TypeOK, claims, books
  <2>2. CASE task[h].claim \in alive
    <3> DEFINE row == [life |-> "kept", claim |-> task[h].claim,
                       order |-> task[h].order, paid |-> task[h].paid]
    <3>1. row \in Rows
      BY <1>1, <1>2, TaskFields, StepAssumption DEF SaveStep, Rows
    <3> HIDE DEF row
    <3>2. PICK r \in RowIds :
            /\ rows' = [rows EXCEPT ![r] = row]
            /\ outranked' \subseteq outranked \cup KeptOf(task[h].claim) \cup {r}
            /\ task' = [task EXCEPT ![h] = [step |-> "enqueue", row |-> r]]
      BY <1>2, <2>2 DEF SaveStep, row
    <3>3. [step |-> "enqueue", row |-> r] \in Tasks
      BY DEF Tasks
    <3>4. rows' \in [RowIds -> Rows] /\ task' \in [Office -> Tasks]
      BY <3>1, <3>2, <3>3 DEF TypeOK
    <3>5. outranked' \in SUBSET RowIds
      BY <3>2 DEF TypeOK, KeptOf
    <3> QED
      BY <1>2, <3>4, <3>5 DEF SaveStep, TypeOK, claims, books
  <2> QED
    BY <2>1, <2>2
<1>3. CASE EnqueueJob(h)
  <2>1. [row |-> task[h].row, left |-> Attempts] \in Jobs
    BY <1>1, <1>3, TaskFields, StepAssumption DEF EnqueueJob, Jobs
  <2> QED
    BY <1>1, <1>3, <2>1 DEF EnqueueJob, TypeOK, steps, claims, books
<1>4. CASE DeleteStep(h)
  <2>1. task[h].row \in RowIds
    BY <1>1, <1>4, TaskFields DEF DeleteStep
  <2>2. [rows[task[h].row] EXCEPT !.life = "deleted"] \in Rows
    BY <2>1 DEF TypeOK, Rows
  <2>3. rows' \in [RowIds -> Rows]
    BY <1>4, <2>1, <2>2 DEF DeleteStep, TypeOK
  <2> QED
    BY <1>1, <1>4, <2>3 DEF DeleteStep, TypeOK, claims, books
<1>5. CASE MakePayout(h)
  <2> DEFINE p == task[h].partner
             a == task[h].amount
  <2>1. p \in Partners /\ a \in Amounts /\ a \in Nat
    BY <1>1, <1>5, TaskFields, PartnerAssumption DEF MakePayout
  <2>2. /\ payouts' = [payouts EXCEPT ![p] = Append(@, a)]
        /\ balance' = [balance EXCEPT ![p] = @ - a]
    BY <1>5 DEF MakePayout
  <2> HIDE DEF p, a
  <2>3. balance' \in [Partners -> Int]
    BY <2>1, <2>2 DEF TypeOK
  <2>4. payouts[p] \in Seq(Amounts)
    BY <2>1 DEF TypeOK
  <2>5. Append(payouts[p], a) \in Seq(Amounts)
    BY <2>1, <2>4
  <2>6. payouts' \in [Partners -> Seq(Amounts)]
    BY <2>1, <2>2, <2>5 DEF TypeOK
  <2> QED
    BY <1>1, <1>5, <2>3, <2>6 DEF MakePayout, TypeOK, steps, claims
<1>6. CASE PayoutRollsBack(h)
  BY <1>1, <1>6, SpendType DEF PayoutRollsBack, TypeOK, Events, steps, claims, books
<1> QED
  BY <1>2, <1>3, <1>4, <1>5, <1>6 DEF OfficeStep

LEMMA RetryType ==
  ASSUME TypeOK, work # Rest, Retry
  PROVE  /\ work' \in Works /\ jobs' \in SUBSET Jobs
         /\ failed' \in SUBSET RowIds
<1>1. work.job.row \in RowIds /\ work.job.left \in 1..Attempts /\ work.job \in Jobs
  BY WorkFields DEF TypeOK, Works
<1>2. work.job.left - 1 # 0 =>
        [work.job EXCEPT !.left = work.job.left - 1] \in Jobs
  BY <1>1, StepAssumption DEF Jobs
<1>3. Rest \in Works
  BY DEF Works
<1> QED
  BY <1>1, <1>2, <1>3 DEF Retry, TypeOK

LEMMA WorkerType ==
  ASSUME TypeOK, JobInv, WorkerStep \/ JobThrows \/ \E j \in jobs : TakeJob(j)
  PROVE  TypeOK'
<1>1. Rest \in Works
  BY DEF Works
<1>2. CASE \E j \in jobs : TakeJob(j)
  <2>1. PICK j \in jobs : TakeJob(j)
    BY <1>2
  <2>2. [step |-> "progress", job |-> j, amount |-> 0] \in Works
    BY DEF Works, TypeOK
  <2> QED
    BY <2>1, <2>2 DEF TakeJob, TypeOK, steps, claims, books
<1>3. CASE JobThrows
  BY <1>3, RetryType, SpendType
     DEF JobThrows, TypeOK, Events, steps, claims, books
<1>4. ASSUME WorkerStep
      PROVE  work # Rest
  BY <1>4, RestStep DEF WorkerStep, ReadProgress, ReadLatest, ReadClaim,
         FindTransaction, MakeTransaction, SendLetter, At
<1>5. CASE WorkerStep
  <2>1. work \in [step : {"progress", "latest", "claim", "find", "credit",
                          "letter"}, job : Jobs, amount : Amounts \cup {0}]
    BY <1>4, <1>5, WorkFields DEF TypeOK
  <2>2. work.job.row \in RowIds /\ Claim \in Claims
    BY <1>4, <1>5, WorkFields DEF TypeOK, Claim, Rows
  <2>3. \A step \in {"latest", "claim", "find", "credit", "letter"} :
          Continue(step) => work' \in Works
    BY <2>1 DEF Continue, Works
  <2>4. CASE ReadProgress
    BY <1>1, <2>3, <2>4 DEF ReadProgress, Finish, TypeOK, steps, claims, books
  <2>5. CASE ReadLatest
    BY <1>1, <2>3, <2>5 DEF ReadLatest, Finish, TypeOK, steps, claims, books
  <2>6. CASE ReadClaim
    <3>1. \A step \in {"find", "letter"} :
            [work EXCEPT !.amount = worth[Claim], !.step = step] \in Works
      BY <2>1, <2>2 DEF Works, TypeOK
    <3>2. work' \in Works
      BY <1>1, <2>6, <3>1 DEF ReadClaim, Finish
    <3> QED
      BY <2>6, <3>2 DEF ReadClaim, TypeOK, steps, claims, books
  <2>7. CASE FindTransaction
    BY <2>3, <2>7 DEF FindTransaction, TypeOK, steps, claims, books
  <2>8. CASE SendLetter
    BY <1>1, <2>8 DEF SendLetter, Finish, TypeOK, steps, claims, books
  <2>9. CASE MakeTransaction
    <3>1. CASE Claim \in Rewarded \/ Claim \notin alive
      BY <1>4, <1>5, <2>9, <3>1, RetryType
         DEF MakeTransaction, TypeOK, steps, claims, books
    <3>2. CASE ~(Claim \in Rewarded \/ Claim \notin alive)
      <4> DEFINE p == ReferredBy[Claim]
                 a == work.amount
                 t == [claim |-> Claim, partner |-> p, amount |-> a]
      <4>1. /\ transactions' = transactions \cup {t}
            /\ balance' = [balance EXCEPT ![p] = @ + a]
            /\ totalEarnings' = [totalEarnings EXCEPT ![p] = @ + a]
            /\ Continue("letter")
            /\ UNCHANGED <<payouts, jobs, failed>>
            /\ UNCHANGED <<steps, claims, task, spent>>
        BY <2>9, <3>2 DEF MakeTransaction
      <4>2. p \in Partners /\ a \in Amounts /\ a \in Nat
        BY <2>2, <2>9, PartnerAssumption DEF MakeTransaction, At, JobInv
      <4>3. t \in [claim : Claims, partner : Partners, amount : Amounts]
        BY <2>2, <4>2
      <4> HIDE DEF p, a, t
      <4>4. /\ balance' \in [Partners -> Int]
            /\ totalEarnings' \in [Partners -> Nat]
        BY <4>1, <4>2 DEF TypeOK
      <4>5. work' \in Works
        BY <2>3, <4>1
      <4> QED
        BY <4>1, <4>3, <4>4, <4>5 DEF TypeOK, steps, claims
    <3> QED
      BY <3>1, <3>2
  <2> QED
    BY <1>5, <2>4, <2>5, <2>6, <2>7, <2>8, <2>9 DEF WorkerStep
<1> QED
  BY <1>2, <1>3, <1>5
LEMMA OtherType ==
  ASSUME TypeOK,
         \/ \E r \in RowIds : MinutePasses(r)
         \/ \E c \in Claims : DeleteClaim(c) \/ \E amount \in Amounts :
               EditClaim(c, amount)
         \/ Crash
  PROVE  TypeOK'
<1>1. CASE \E r \in RowIds : MinutePasses(r)
  BY <1>1 DEF MinutePasses, TypeOK, claims, books
<1>2. ASSUME NEW c \in Claims, DeleteClaim(c)
      PROVE  TypeOK'
  <2>1. \A r \in RowIds : [rows[r] EXCEPT !.life = "deleted"] \in Rows
    BY DEF TypeOK, Rows
  <2>2. rows' \in [RowIds -> Rows]
    BY <1>2, <2>1 DEF DeleteClaim, TypeOK
  <2> QED
    BY <1>2, <2>2, SpendType DEF DeleteClaim, TypeOK, Events, books
<1>3. ASSUME NEW c \in Claims, NEW amount \in Amounts, EditClaim(c, amount)
      PROVE  TypeOK'
  BY <1>3, SpendType DEF EditClaim, TypeOK, Events, steps, books
<1>4. CASE Crash
  <2>1. Rest \in Works /\ Rest \in Tasks
    BY DEF Works, Tasks
  <2>2. jobs' \in SUBSET Jobs /\ failed' \in SUBSET RowIds
    BY <1>4, WorkFields DEF Crash, TypeOK, Jobs
  <2> QED
    BY <1>4, <2>1, <2>2, SpendType DEF Crash, TypeOK, Events, claims, books
<1> QED
  BY <1>1, <1>2, <1>3, <1>4

LEMMA NextType == TypeOK /\ JobInv /\ [Next]_vars => TypeOK'
<1> SUFFICES ASSUME TypeOK, JobInv, [Next]_vars
             PROVE  TypeOK'
  OBVIOUS
<1>1. CASE Next
  BY <1>1, RequestType, OfficeStepType, WorkerType, OtherType DEF Next
<1>2. CASE UNCHANGED vars
  BY <1>2 DEF vars, TypeOK
<1> QED
  BY <1>1, <1>2

-----------------------------------------------------------------------------
(* The supporting invariant.                                               *)

\* A row that exists keeps its claim and never becomes unborn again.
LEMMA RowsLast ==
  ASSUME TypeOK, [Next]_vars
  PROVE  \A r \in RowIds : rows[r].life # "unborn" =>
           rows'[r].life # "unborn" /\ rows'[r].claim = rows[r].claim
           /\ rows'[r].paid = rows[r].paid
<1> SUFFICES ASSUME NEW r \in RowIds, rows[r].life # "unborn"
             PROVE  rows'[r].life # "unborn" /\ rows'[r].claim = rows[r].claim
                    /\ rows'[r].paid = rows[r].paid
  OBVIOUS
<1>1. ASSUME NEW h \in Office, SaveStep(h)
      PROVE  rows'[r] = rows[r]
  <2>1. CASE task[h].claim \notin alive
    BY <1>1, <2>1 DEF SaveStep
  <2>2. CASE task[h].claim \in alive
    <3>1. PICK q \in RowIds :
            /\ rows[q].life = "unborn"
            /\ rows' = [rows EXCEPT ![q] =
                  [life |-> "kept", claim |-> task[h].claim,
                   order |-> task[h].order, paid |-> task[h].paid]]
      BY <1>1, <2>2 DEF SaveStep
    <3> QED
      BY <3>1 DEF TypeOK
  <2> QED
    BY <2>1, <2>2
<1>2. ASSUME NEW h \in Office, DeleteStep(h)
      PROVE  rows'[r] = rows[r] \/ rows'[r] = [rows[r] EXCEPT !.life = "deleted"]
  BY <1>2 DEF DeleteStep, TypeOK
<1>3. ASSUME NEW c \in Claims, DeleteClaim(c)
      PROVE  rows'[r] = rows[r] \/ rows'[r] = [rows[r] EXCEPT !.life = "deleted"]
  BY <1>3 DEF DeleteClaim
<1>4. \/ \E h \in Office : SaveStep(h) \/ DeleteStep(h)
      \/ \E c \in Claims : DeleteClaim(c)
      \/ rows' = rows
  BY DEF Next, vars, WorkerStep, OfficeRequest, OfficeStep, TakeJob, JobThrows,
       MinutePasses, EditClaim, Crash, PayoutRollsBack, ReadProgress, ReadLatest,
       ReadClaim, FindTransaction, MakeTransaction, SendLetter, BeginStep,
       BeginDelete, BeginPayout, EnqueueJob, MakePayout, steps
<1>5. rows'[r] = rows[r] \/ rows'[r] = [rows[r] EXCEPT !.life = "deleted"]
  BY <1>1, <1>2, <1>3, <1>4
<1>6. rows[r] \in Rows
  BY DEF TypeOK
<1> QED
  BY <1>5, <1>6 DEF Rows

LEMMA JobInit == Init => JobInv
  BY RestStep DEF Init, JobInv, Claim

\* The worker only turns to crediting for a referred claim, with an amount.
LEMMA WorkerJobs ==
  ASSUME TypeOK, TypeOK', JobInv, WorkerStep \/ JobThrows \/ \E j \in jobs : TakeJob(j),
         rows' = rows, task' = task
  PROVE  JobInv'
<1>1. CASE \E j \in jobs : TakeJob(j)
  <2>1. PICK j \in jobs : TakeJob(j)
    BY <1>1
  <2>2. /\ work' = [step |-> "progress", job |-> j, amount |-> 0]
        /\ jobs' \subseteq jobs
    BY <2>1 DEF TakeJob
  <2>3. work'.step = "progress" /\ work'.job = j
    BY <2>2
  <2> QED
    BY <2>2, <2>3 DEF JobInv
<1>2. ASSUME work # Rest, Retry
      PROVE  JobInv'
  <2>1. work.job \in [row : RowIds, left : 1..Attempts]
    BY <1>2 DEF TypeOK, Works, Jobs
  <2>2. [work.job EXCEPT !.left = work.job.left - 1].row = work.job.row
    BY <2>1
  <2>3. \A j \in jobs' : j \in jobs \/ j.row = work.job.row
    BY <1>2, <2>2 DEF Retry
  <2>4. work' = Rest
    BY <1>2 DEF Retry
  <2> QED
    BY <1>2, <2>3, <2>4, RestStep DEF JobInv
<1>3. CASE JobThrows
  BY <1>2, <1>3 DEF JobThrows
<1>4. ASSUME work # Rest, Finish, jobs' = jobs
      PROVE  JobInv'
  BY <1>4, RestStep DEF Finish, JobInv
<1>5. CASE WorkerStep
  <2>1. work # Rest /\ work.step # "rest"
    BY <1>5, RestStep DEF WorkerStep, ReadProgress, ReadLatest, ReadClaim,
         FindTransaction, MakeTransaction, SendLetter, At
  <2>2. work \in [step : {"progress", "latest", "claim", "find", "credit",
                          "letter"}, job : Jobs, amount : Amounts \cup {0}]
    BY <2>1, WorkFields DEF TypeOK
  <2>3. ASSUME NEW step \in {"latest", "claim"}, Continue(step), jobs' = jobs
        PROVE  JobInv'
    BY <2>1, <2>2, <2>3 DEF Continue, JobInv
  <2>4. CASE ReadProgress
    BY <1>4, <2>1, <2>3, <2>4 DEF ReadProgress
  <2>5. CASE ReadLatest
    BY <1>4, <2>1, <2>3, <2>5 DEF ReadLatest
  <2>6. CASE ReadClaim
    <3>1. CASE Claim \notin alive
      BY <1>4, <2>1, <2>6, <3>1 DEF ReadClaim
    <3>2. CASE Claim \in alive
      <4>1. PICK step \in {"find", "letter"} :
              /\ work' = [work EXCEPT !.amount = worth[Claim], !.step = step]
              /\ step = "find" => ReferredBy[Claim] # NoPartner
        BY <2>6, <3>2 DEF ReadClaim
      <4>2. worth[Claim] \in Amounts
        BY <2>1, WorkFields DEF TypeOK, Claim, Rows
      <4>3. /\ work'.step = step /\ work'.amount = worth[Claim]
            /\ work'.job = work.job /\ jobs' = jobs
        BY <2>2, <2>6, <4>1 DEF ReadClaim
      <4> QED
        BY <2>1, <4>1, <4>2, <4>3 DEF JobInv, Claim
    <3> QED
      BY <3>1, <3>2
  <2>7. CASE FindTransaction
    <3>1. /\ work.step = "find" /\ work'.step \in {"letter", "credit"}
          /\ work'.job = work.job /\ work'.amount = work.amount /\ jobs' = jobs
      BY <2>2, <2>7 DEF FindTransaction, At, Continue
    <3> QED
      BY <2>1, <3>1 DEF JobInv, Claim
  <2>8. CASE SendLetter
    BY <1>4, <2>1, <2>8 DEF SendLetter
  <2>9. CASE MakeTransaction
    <3>1. CASE Retry
      BY <1>2, <2>1, <3>1
    <3>2. CASE Continue("letter") /\ jobs' = jobs
      <4>1. /\ work.step = "credit" /\ work'.step = "letter"
            /\ work'.job = work.job /\ work'.amount = work.amount
        BY <2>2, <2>9, <3>2 DEF MakeTransaction, At, Continue
      <4> QED
        BY <2>1, <3>2, <4>1 DEF JobInv, Claim
    <3> QED
      BY <2>9, <3>1, <3>2 DEF MakeTransaction
  <2> QED
    BY <1>5, <2>4, <2>5, <2>6, <2>7, <2>8, <2>9 DEF WorkerStep
<1> QED
  BY <1>1, <1>3, <1>5
\* Steps that leave the worker alone.
LEMMA OtherJobs ==
  ASSUME TypeOK, TypeOK', JobInv, [Next]_vars, work' = work,
         \A j \in jobs' \ jobs : rows'[j.row].life # "unborn",
         \A h \in Office : /\ task'[h].step = "enqueue"
                           /\ task'[h] # task[h]
                          => rows'[task'[h].row].life # "unborn"
  PROVE  JobInv'
<1>1. \A j \in jobs : j.row \in RowIds
  BY DEF TypeOK, Jobs
<1>2. \A h \in Office : task[h].step = "enqueue" => task[h].row \in RowIds
  BY TaskFields DEF TypeOK
<1>3. work # Rest => work.job.row \in RowIds
  BY WorkFields DEF TypeOK
<1>4. \A j \in jobs' : rows'[j.row].life # "unborn"
  BY <1>1, RowsLast DEF JobInv
<1>5. \A h \in Office :
        task'[h].step = "enqueue" => rows'[task'[h].row].life # "unborn"
  BY <1>2, RowsLast DEF JobInv
<1>6. work' # Rest => /\ rows'[work'.job.row].life # "unborn"
                      /\ Claim' = Claim
  BY <1>3, RowsLast DEF JobInv, Claim
<1>7. work.step \in {"find", "credit"} => work # Rest
  BY RestStep
<1> QED
  BY <1>4, <1>5, <1>6, <1>7 DEF JobInv

LEMMA JobNext == TypeOK /\ TypeOK' /\ JobInv /\ [Next]_vars => JobInv'
<1> SUFFICES ASSUME TypeOK, TypeOK', JobInv, [Next]_vars
             PROVE  JobInv'
  OBVIOUS
<1>1. CASE WorkerStep \/ JobThrows \/ \E j \in jobs : TakeJob(j)
  <2>1. rows' = rows /\ task' = task
    BY <1>1 DEF WorkerStep, JobThrows, TakeJob, ReadProgress, ReadLatest,
         ReadClaim, FindTransaction, MakeTransaction, SendLetter, steps
  <2> QED
    BY <1>1, <2>1, WorkerJobs
<1>2. ASSUME NEW h \in Office, OfficeRequest(h)
      PROVE  JobInv'
  <2>1. jobs' = jobs /\ work' = work
    BY <1>2 DEF OfficeRequest, BeginStep, BeginDelete, BeginPayout
  <2>2. \A k \in Office : task'[k] = task[k] \/ task'[k].step # "enqueue"
    BY <1>2 DEF OfficeRequest, BeginStep, BeginDelete, BeginPayout, TypeOK
  <2> QED
    BY <2>1, <2>2, OtherJobs
<1>3. ASSUME NEW h \in Office, OfficeStep(h) \/ PayoutRollsBack(h)
      PROVE  JobInv'
  <2>1. CASE SaveStep(h)
    <3>1. jobs' = jobs /\ work' = work
      BY <2>1 DEF SaveStep
    <3>2. CASE task[h].claim \notin alive
      <4>1. \A k \in Office : task'[k] = task[k] \/ task'[k].step # "enqueue"
        BY <2>1, <3>2, RestStep DEF SaveStep, TypeOK
      <4> QED
        BY <3>1, <4>1, OtherJobs
    <3>3. CASE task[h].claim \in alive
      <4> DEFINE row == [life |-> "kept", claim |-> task[h].claim,
                         order |-> task[h].order, paid |-> task[h].paid]
      <4>1. row.life = "kept"
        OBVIOUS
      <4>2. PICK r \in RowIds :
              /\ rows' = [rows EXCEPT ![r] = row]
              /\ task' = [task EXCEPT ![h] = [step |-> "enqueue", row |-> r]]
        BY <2>1, <3>3 DEF SaveStep
      <4> HIDE DEF row
      <4>3. rows'[r].life = "kept" /\ task'[h].row = r
        BY <4>1, <4>2 DEF TypeOK
      <4>4. \A k \in Office \ {h} : task'[k] = task[k]
        BY <4>2 DEF TypeOK
      <4> QED
        BY <3>1, <4>3, <4>4, OtherJobs
    <3> QED
      BY <3>2, <3>3
  <2>2. CASE EnqueueJob(h)
    <3>1. /\ work' = work /\ rows' = rows
          /\ task[h].step = "enqueue"
          /\ jobs' = jobs \cup {[row |-> task[h].row, left |-> Attempts]}
      BY <2>2 DEF EnqueueJob, steps
    <3>2. \A k \in Office : task'[k] = task[k] \/ task'[k].step # "enqueue"
      BY <2>2, RestStep DEF EnqueueJob, TypeOK
    <3>3. \A j \in jobs' \ jobs : j.row = task[h].row
      BY <3>1
    <3>4. \A j \in jobs' \ jobs : rows'[j.row].life # "unborn"
      BY <3>1, <3>3 DEF JobInv
    <3> QED
      BY <3>1, <3>2, <3>4, OtherJobs
  <2>3. CASE DeleteStep(h) \/ MakePayout(h) \/ PayoutRollsBack(h)
    <3>1. jobs' = jobs /\ work' = work
      BY <2>3 DEF DeleteStep, MakePayout, PayoutRollsBack
    <3>2. \A k \in Office : task'[k] = task[k] \/ task'[k].step # "enqueue"
      BY <2>3, RestStep DEF DeleteStep, MakePayout, PayoutRollsBack, TypeOK
    <3> QED
      BY <3>1, <3>2, OtherJobs
  <2> QED
    BY <1>3, <2>1, <2>2, <2>3 DEF OfficeStep
<1>4. CASE \/ \E r \in RowIds : MinutePasses(r)
           \/ \E c \in Claims : DeleteClaim(c) \/ \E amount \in Amounts :
                 EditClaim(c, amount)
           \/ UNCHANGED vars
  <2>1. jobs' = jobs /\ work' = work /\ task' = task
    BY <1>4 DEF MinutePasses, DeleteClaim, EditClaim, vars
  <2> QED
    BY <2>1, OtherJobs
<1>5. CASE Crash
  <2>1. /\ rows' = rows /\ work' = Rest
        /\ \/ jobs' = jobs
           \/ work # Rest /\ jobs' = jobs \cup {work.job}
        /\ \A h \in Office : task'[h] = Rest
    BY <1>5 DEF Crash
  <2> QED
    BY <2>1, RestStep DEF JobInv
<1> QED
  BY <1>1, <1>2, <1>3, <1>4, <1>5 DEF Next

\* Every variable keeps the shape the code gives it; in particular nothing is
\* ever credited to a partner that does not exist.
THEOREM TypeCorrect == Spec => []TypeOK
  BY InitType, NextType, JobInit, JobNext, PTL DEF Spec

-----------------------------------------------------------------------------
(* Rewarded claims are not deleted.                                        *)

LEMMA StayNext ==
  TypeOK /\ RewardedClaimsStay /\ [Next]_vars => RewardedClaimsStay'
<1> SUFFICES ASSUME TypeOK, RewardedClaimsStay, [Next]_vars
             PROVE  RewardedClaimsStay'
  OBVIOUS
<1>1. ASSUME NEW c \in Claims, DeleteClaim(c)
      PROVE  RewardedClaimsStay'
  BY <1>1 DEF DeleteClaim, RewardedClaimsStay, Rewarded, books
<1>2. CASE MakeTransaction
  BY <1>2 DEF MakeTransaction, RewardedClaimsStay, Rewarded, books, claims
<1>3. \/ \E c \in Claims : DeleteClaim(c)
      \/ MakeTransaction
      \/ UNCHANGED <<transactions, alive>>
  BY DEF Next, vars, WorkerStep, OfficeRequest, OfficeStep, TakeJob, JobThrows,
       MinutePasses, EditClaim, Crash, PayoutRollsBack, ReadProgress, ReadLatest,
       ReadClaim, FindTransaction, SendLetter, BeginStep, BeginDelete,
       BeginPayout, SaveStep, EnqueueJob, DeleteStep, MakePayout, books, claims
<1>4. CASE UNCHANGED <<transactions, alive>>
  BY <1>4 DEF RewardedClaimsStay, Rewarded
<1> QED
  BY <1>1, <1>2, <1>3, <1>4

\* A claim that earned its partner a commission is never deleted.
THEOREM RewardedStay == Spec => []RewardedClaimsStay
<1>1. Init => RewardedClaimsStay
  BY DEF Init, RewardedClaimsStay, Rewarded
<1> QED
  BY <1>1, InitType, NextType, JobInit, JobNext, StayNext, PTL DEF Spec

-----------------------------------------------------------------------------
(* The handlers and the worker implement the promise to the partner.       *)

LEMMA LedgerInit == Init => Ledger!LedgerInit
  BY DEF Init, Ledger!LedgerInit, Rewarded

LEMMA LedgerStep ==
  TypeOK /\ JobInv /\ [Next]_vars => [Ledger!LedgerNext]_(Ledger!ledger)
<1> SUFFICES ASSUME TypeOK, JobInv, [Next]_vars
             PROVE  [Ledger!LedgerNext]_(Ledger!ledger)
  OBVIOUS
<1>1. CASE MakeTransaction
  <2>1. CASE Claim \in Rewarded \/ Claim \notin alive
    BY <1>1, <2>1 DEF MakeTransaction, books, Ledger!ledger, Rewarded
  <2>2. CASE ~(Claim \in Rewarded \/ Claim \notin alive)
    <3>1. work # Rest /\ work.step = "credit"
      BY <1>1, RestStep DEF MakeTransaction, At
    <3>2. /\ Claim \in Claims /\ work.amount \in Amounts
          /\ ReferredBy[Claim] # NoPartner
      BY <3>1, WorkFields DEF TypeOK, Claim, Rows, JobInv
    <3>3. Rewarded' = Rewarded \cup {Claim}
      <4> DEFINE t == [claim |-> Claim, partner |-> ReferredBy[Claim],
                       amount |-> work.amount]
      <4>1. transactions' = transactions \cup {t} /\ t.claim = Claim
        BY <1>1, <2>2 DEF MakeTransaction
      <4> HIDE DEF t
      <4> QED
        BY <4>1 DEF Rewarded
    <3>4. Ledger!Credit(Claim, work.amount)
      BY <1>1, <2>2, <3>2, <3>3 DEF MakeTransaction, Ledger!Credit
    <3> QED
      BY <3>2, <3>4 DEF Ledger!LedgerNext
  <2> QED
    BY <2>1, <2>2
<1>2. ASSUME NEW h \in Office, MakePayout(h)
      PROVE  Ledger!LedgerNext
  <2>1. task[h].partner \in Partners /\ task[h].amount \in Amounts
    BY <1>2, TaskFields DEF MakePayout, TypeOK
  <2>2. Ledger!PayOut(task[h].partner, task[h].amount)
    BY <1>2 DEF MakePayout, Ledger!PayOut, Rewarded
  <2> QED
    BY <2>1, <2>2 DEF Ledger!LedgerNext
<1>3. \/ MakeTransaction
      \/ \E h \in Office : MakePayout(h)
      \/ UNCHANGED <<transactions, balance, totalEarnings>>
  BY DEF Next, vars, WorkerStep, OfficeRequest, OfficeStep, TakeJob, JobThrows,
       MinutePasses, DeleteClaim, EditClaim, Crash, PayoutRollsBack,
       ReadProgress, ReadLatest, ReadClaim, FindTransaction, SendLetter,
       BeginStep, BeginDelete, BeginPayout, SaveStep, EnqueueJob, DeleteStep,
       books
<1>4. CASE UNCHANGED <<transactions, balance, totalEarnings>>
  BY <1>4 DEF Ledger!ledger, Rewarded
<1> QED
  BY <1>1, <1>2, <1>3, <1>4

\* The queue with its retries, the crashes and the overlapping requests
\* implement the ledger: no claim is rewarded twice, and balance and earnings
\* move together.
THEOREM ImplementsLedger == Spec => LedgerRefined
<1>1. TypeOK /\ JobInv /\ [Next]_vars => [Ledger!LedgerNext]_(Ledger!ledger)
  BY LedgerStep
<1> QED
  BY <1>1, LedgerInit, InitType, NextType, JobInit, JobNext, PTL
     DEF Spec, LedgerRefined, Ledger!LedgerSpec
-----------------------------------------------------------------------------
(* Sums.  Sum takes the values of a function in the order in which CHOOSE   *)
(* picks its arguments; that it is well defined, and that the order does    *)
(* not matter, goes by induction on the size of the domain.  Induction is   *)
(* stated for a set of numbers, which needs no operator as a parameter.     *)

\* A set that holds 0 and with each number the next one holds every number:
\* else the part below a missing number would be mapped into itself by the
\* successor, one to one and without reaching 0, which no finite set allows.
LEMMA SetInduction ==
  ASSUME NEW S \in SUBSET Nat, 0 \in S, \A n \in S : n + 1 \in S
  PROVE  \A n \in Nat : n \in S
<1> SUFFICES ASSUME NEW n \in Nat, n \notin S
             PROVE  FALSE
  OBVIOUS
<1> DEFINE T == {m \in 0..n : m \in S}
           next == [m \in T |-> m + 1]
<1>1. IsFiniteSet(T)
  <2>1. IsFiniteSet(0..n) /\ T \in SUBSET (0..n)
    BY FS_Interval
  <2> QED
    BY <2>1, FS_Subset
<1>2. \A m \in T : m \in Nat /\ m + 1 \in T
  OBVIOUS
<1>3. 0 \in T
  OBVIOUS
<1> HIDE DEF T
<1>4. next \in Injection(T, T)
  <2>1. next \in [T -> T]
    BY <1>2
  <2>2. \A a, b \in T : next[a] = next[b] => a = b
    BY <1>2
  <2> HIDE DEF next
  <2> QED
    BY <2>1, <2>2 DEF Injection, IsInjective
<1>5. next \in Surjection(T, T)
  BY <1>1, <1>4, FS_Injection
<1>6. PICK m \in T : next[m] = 0
  BY <1>3, <1>5 DEF Surjection
<1> QED
  BY <1>2, <1>6

Pick(s) == CHOOSE x \in s : TRUE

\* What the recursion inside Sum asks of g, the sums over the subsets of D.
Adds(f, D, g) ==
  g = [s \in SUBSET D |-> IF s = {} THEN 0 ELSE f[Pick(s)] + g[s \ {Pick(s)}]]

LEMMA SumUnfolded ==
  ASSUME NEW f
  PROVE  Sum(f) = (CHOOSE g : Adds(f, DOMAIN f, g))[DOMAIN f]
  BY Zenon DEF Sum, FoldFunction, FoldFunctionOnSet, MapThenFoldSet, Adds, Pick

\* The subsets of a finite set with at most n members.
Small(D, n) == {s \in SUBSET D : Cardinality(s) <= n}

LEMMA Smaller ==
  ASSUME NEW D, IsFiniteSet(D), NEW s \in SUBSET D
  PROVE  /\ IsFiniteSet(s) /\ Cardinality(s) \in Nat
         /\ s # {} => Pick(s) \in s
         /\ \A x \in s : /\ s \ {x} \in SUBSET D
                         /\ Cardinality(s \ {x}) = Cardinality(s) - 1
                         /\ Cardinality(s) > 0
<1>1. IsFiniteSet(s)
  BY FS_Subset
<1>2. Cardinality(s) \in Nat
  BY <1>1, FS_CardinalityType
<1>3. ASSUME NEW x \in s
      PROVE  Cardinality(s \ {x}) = Cardinality(s) - 1 /\ Cardinality(s) > 0
  <2>1. Cardinality(s \ {x}) = Cardinality(s) - 1 /\ IsFiniteSet(s \ {x})
    BY <1>1, FS_RemoveElement
  <2>2. Cardinality(s \ {x}) \in Nat
    BY <2>1, FS_CardinalityType
  <2> QED
    BY <1>2, <2>1, <2>2
<1> QED
  BY <1>1, <1>2, <1>3 DEF Pick

\* The recursion has a solution over any finite set.
LEMMA AddsExists ==
  ASSUME NEW f, NEW D, IsFiniteSet(D)
  PROVE  \E g : Adds(f, D, g)
<1> DEFINE Rec(s, g) == IF s = {} THEN 0 ELSE f[Pick(s)] + g[s \ {Pick(s)}]
           Upto(n, g) == g = [s \in Small(D, n) |-> Rec(s, g)]
           S == {n \in Nat : \E g : Upto(n, g)}
<1>1. 0 \in S
  <2> DEFINE g == [s \in Small(D, 0) |-> 0]
  <2>1. ASSUME NEW s \in Small(D, 0)
        PROVE  s = {}
    <3>1. s \in SUBSET D /\ Cardinality(s) <= 0
      BY DEF Small
    <3>2. Cardinality(s) \in Nat /\ \A x \in s : Cardinality(s) > 0
      BY <3>1, Smaller
    <3> QED
      BY <3>1, <3>2
  <2>2. Upto(0, g)
    BY <2>1
  <2> QED
    BY <2>2
<1>2. ASSUME NEW n \in S
      PROVE  n + 1 \in S
  <2>1. PICK h : Upto(n, h)
    OBVIOUS
  <2> DEFINE g == [s \in Small(D, n + 1) |-> Rec(s, h)]
  <2>2. n \in Nat
    OBVIOUS
  <2>3. ASSUME NEW s \in Small(D, n)
        PROVE  s \in Small(D, n + 1) /\ g[s] = h[s]
    <3>1. s \in Small(D, n + 1)
      BY <2>2, Smaller DEF Small
    <3>2. h[s] = Rec(s, h)
      BY <2>1, Zenon
    <3> QED
      BY <3>1, <3>2
  <2>4. ASSUME NEW s \in Small(D, n + 1), s # {}
        PROVE  s \ {Pick(s)} \in Small(D, n)
    BY <2>2, <2>4, Smaller DEF Small
  <2>5. \A s \in Small(D, n + 1) : Rec(s, g) = Rec(s, h)
    BY <2>3, <2>4
  <2>6. Upto(n + 1, g)
    <3> HIDE DEF Rec
    <3> QED
      BY <2>5
  <2>7. n + 1 \in Nat /\ \E q : Upto(n + 1, q)
    <3> HIDE DEF Upto
    <3> QED
      BY <2>2, <2>6
  <2> QED
    BY <2>7, Zenon
<1>3. Cardinality(D) \in Nat
  BY FS_CardinalityType
<1>4. Cardinality(D) \in S
  <2> HIDE DEF S
  <2>1. S \in SUBSET Nat
    BY DEF S
  <2> QED
    BY <1>1, <1>2, <1>3, <2>1, SetInduction
<1>5. PICK g : Upto(Cardinality(D), g)
  BY <1>4
<1>6. Small(D, Cardinality(D)) = SUBSET D
  <2>1. \A s \in SUBSET D : Cardinality(s) <= Cardinality(D)
    BY FS_Subset
  <2> QED
    BY <2>1 DEF Small
<1>7. Adds(f, D, g)
  BY <1>5, <1>6, Zenon DEF Adds
<1> QED
  BY <1>7

\* A statement about the subsets of a finite set that holds for those with
\* no member, and for those with n + 1 members if it does for those with n.
LEMMA BySize ==
  ASSUME NEW D, IsFiniteSet(D), NEW Good \in SUBSET SUBSET D, {} \in Good,
         \A s \in SUBSET D : s # {} /\ (\A x \in s : s \ {x} \in Good) => s \in Good
  PROVE  \A s \in SUBSET D : s \in Good
<1> DEFINE S == {n \in Nat : \A s \in SUBSET D : Cardinality(s) = n => s \in Good}
<1>1. 0 \in S
  <2>1. ASSUME NEW s \in SUBSET D, Cardinality(s) = 0
        PROVE  s \in Good
    <3>1. IsFiniteSet(s)
      BY Smaller
    <3>2. s = {}
      BY <2>1, <3>1, FS_EmptySet
    <3> QED
      BY <3>2
  <2> QED
    BY <2>1
<1>2. ASSUME NEW n \in S
      PROVE  n + 1 \in S
  <2>1. ASSUME NEW s \in SUBSET D, Cardinality(s) = n + 1
        PROVE  s \in Good
    <3>1. s # {}
      BY <2>1, FS_EmptySet
    <3>2. ASSUME NEW x \in s
          PROVE  s \ {x} \in Good
      <4>1. s \ {x} \in SUBSET D /\ Cardinality(s \ {x}) = n
        BY <2>1, Smaller
      <4> QED
        BY <4>1
    <3> QED
      BY <3>1, <3>2
  <2> QED
    BY <2>1
<1>3. S \in SUBSET Nat
  OBVIOUS
<1>4. \A s \in SUBSET D : Cardinality(s) \in Nat
  BY Smaller
<1>5. \A n \in Nat : n \in S
  <2> HIDE DEF S
  <2> QED
    BY <1>1, <1>2, <1>3, SetInduction
<1> QED
  BY <1>4, <1>5

LEMMA AddsAt ==
  ASSUME NEW f, NEW D, NEW g, Adds(f, D, g), NEW s \in SUBSET D
  PROVE  g[s] = IF s = {} THEN 0 ELSE f[Pick(s)] + g[s \ {Pick(s)}]
  BY Zenon DEF Adds

LEMMA AddsType ==
  ASSUME NEW f, NEW D, IsFiniteSet(D), \A x \in D : f[x] \in Int,
         NEW g, Adds(f, D, g)
  PROVE  \A s \in SUBSET D : g[s] \in Int
<1> DEFINE Good == {s \in SUBSET D : g[s] \in Int}
<1>1. {} \in Good
  <2>1. {} \in SUBSET D /\ g[{}] = 0
    BY AddsAt
  <2> QED
    BY <2>1
<1>2. ASSUME NEW s \in SUBSET D, s # {}, \A x \in s : s \ {x} \in Good
      PROVE  s \in Good
  <2>1. Pick(s) \in s
    BY <1>2 DEF Pick
  <2>2. g[s \ {Pick(s)}] \in Int /\ f[Pick(s)] \in Int
    BY <1>2, <2>1
  <2>3. g[s] = f[Pick(s)] + g[s \ {Pick(s)}]
    BY <1>2, AddsAt
  <2> QED
    BY <2>2, <2>3
<1>3. Good \in SUBSET SUBSET D
  OBVIOUS
<1>4. \A s \in SUBSET D : s \in Good
  <2> HIDE DEF Good
  <2> QED
    BY <1>1, <1>2, <1>3, BySize
<1> QED
  BY <1>4

\* Any member may be taken first.
LEMMA AddsAnyOrder ==
  ASSUME NEW f, NEW D, IsFiniteSet(D), \A x \in D : f[x] \in Int,
         NEW g, Adds(f, D, g)
  PROVE  \A s \in SUBSET D : \A x \in s : g[s] = f[x] + g[s \ {x}]
<1>0. \A s \in SUBSET D : g[s] \in Int
  BY AddsType
<1> DEFINE Good == {s \in SUBSET D : \A x \in s : g[s] = f[x] + g[s \ {x}]}
<1>1. {} \in Good
  OBVIOUS
<1>2. ASSUME NEW s \in SUBSET D, s # {}, \A x \in s : s \ {x} \in Good
      PROVE  s \in Good
  <2> DEFINE c == Pick(s)
  <2>1. c \in s
    BY <1>2 DEF Pick
  <2>2. g[s] = f[c] + g[s \ {c}]
    BY <1>2, AddsAt
  <2> HIDE DEF c
  <2>3. ASSUME NEW x \in s, x # c
        PROVE  g[s] = f[x] + g[s \ {x}]
    <3>1. g[s \ {c}] = f[x] + g[(s \ {c}) \ {x}]
      BY <1>2, <2>1, <2>3
    <3>2. g[s \ {x}] = f[c] + g[(s \ {x}) \ {c}]
      BY <1>2, <2>1, <2>3
    <3>3. (s \ {c}) \ {x} = (s \ {x}) \ {c}
      OBVIOUS
    <3>4. f[x] \in Int /\ f[c] \in Int
      BY <2>1
    <3>5. g[(s \ {x}) \ {c}] \in Int
      <4>1. (s \ {x}) \ {c} \in SUBSET D
        OBVIOUS
      <4> QED
        BY <1>0, <4>1
    <3> DEFINE rest == g[(s \ {x}) \ {c}]
               a == f[x]
               b == f[c]
    <3>6. /\ g[s] = b + (a + rest) /\ g[s \ {x}] = b + rest
          /\ a \in Int /\ b \in Int /\ rest \in Int
      BY <2>2, <3>1, <3>2, <3>3, <3>4, <3>5, Zenon
    <3>7. b + (a + rest) = a + (b + rest)
      <4> HIDE DEF rest, a, b
      <4> QED
        BY <3>6
    <3> QED
      BY <3>6, <3>7, Zenon
  <2> QED
    BY <2>2, <2>3
<1>3. Good \in SUBSET SUBSET D
  OBVIOUS
<1>4. \A s \in SUBSET D : s \in Good
  <2> HIDE DEF Good
  <2> QED
    BY <1>1, <1>2, <1>3, BySize
<1> QED
  BY <1>4

\* Functions that agree have the same sums.
LEMMA AddsAgree ==
  ASSUME NEW f, NEW D, IsFiniteSet(D), NEW g, Adds(f, D, g),
         NEW h, NEW E, D \subseteq E, NEW k, Adds(h, E, k),
         \A x \in D : f[x] = h[x]
  PROVE  \A s \in SUBSET D : g[s] = k[s]
<1>0. \A s \in SUBSET E :
        k[s] = IF s = {} THEN 0 ELSE h[Pick(s)] + k[s \ {Pick(s)}]
  BY AddsAt
<1> DEFINE Good == {s \in SUBSET D : g[s] = k[s]}
<1>1. {} \in Good
  <2>1. g[{}] = 0
    BY AddsAt
  <2>2. k[{}] = 0
    BY AddsAt
  <2> QED
    BY <2>1, <2>2
<1>2. ASSUME NEW s \in SUBSET D, s # {}, \A x \in s : s \ {x} \in Good
      PROVE  s \in Good
  <2>1. Pick(s) \in s
    BY <1>2 DEF Pick
  <2>2. g[s \ {Pick(s)}] = k[s \ {Pick(s)}] /\ f[Pick(s)] = h[Pick(s)]
    BY <1>2, <2>1
  <2>3. g[s] = f[Pick(s)] + g[s \ {Pick(s)}]
    BY <1>2, AddsAt
  <2>4. s \in SUBSET E
    OBVIOUS
  <2>5. k[s] = h[Pick(s)] + k[s \ {Pick(s)}]
    BY <1>0, <1>2, <2>4
  <2> QED
    BY <2>2, <2>3, <2>5
<1>3. Good \in SUBSET SUBSET D
  OBVIOUS
<1>4. \A s \in SUBSET D : s \in Good
  <2> HIDE DEF Good
  <2> QED
    BY <1>1, <1>2, <1>3, BySize
<1> QED
  BY <1>4

\* The sums over the subsets, from the function Sum chooses.
LEMMA SumAdds ==
  ASSUME NEW f, IsFiniteSet(DOMAIN f)
  PROVE  \E g : Adds(f, DOMAIN f, g) /\ Sum(f) = g[DOMAIN f]
<1>1. \E g : Adds(f, DOMAIN f, g)
  BY AddsExists
<1> DEFINE g == CHOOSE g : Adds(f, DOMAIN f, g)
<1>2. Adds(f, DOMAIN f, g)
  BY <1>1, Zenon
<1>3. Sum(f) = g[DOMAIN f]
  BY SumUnfolded, Zenon
<1> HIDE DEF g
<1> QED
  BY <1>2, <1>3

LEMMA SumEmpty ==
  ASSUME NEW f, DOMAIN f = {}
  PROVE  Sum(f) = 0
<1>1. PICK g : Adds(f, {}, g) /\ Sum(f) = g[{}]
  BY SumAdds, FS_EmptySet
<1>2. g[{}] = 0
  BY <1>1, AddsAt
<1> QED
  BY <1>1, <1>2

\* A function with one more argument has that value more.
LEMMA SumOneMore ==
  ASSUME NEW f, NEW h, NEW x, IsFiniteSet(DOMAIN f), x \notin DOMAIN f,
         DOMAIN h = DOMAIN f \cup {x},
         \A d \in DOMAIN f : h[d] = f[d],
         \A d \in DOMAIN h : h[d] \in Int
  PROVE  Sum(h) = Sum(f) + h[x] /\ Sum(f) \in Int
<1> DEFINE D == DOMAIN f
           E == DOMAIN h
<1>1. IsFiniteSet(E)
  BY FS_AddElement
<1>2. PICK g : Adds(f, D, g) /\ Sum(f) = g[D]
  BY SumAdds
<1>3. PICK k : Adds(h, E, k) /\ Sum(h) = k[E]
  BY <1>1, SumAdds
<1>4. \A d \in D : f[d] \in Int
  OBVIOUS
<1>5. x \in E /\ E \ {x} = D /\ D \subseteq E
  OBVIOUS
<1>6. g[D] = k[D]
  BY <1>2, <1>3, <1>5, AddsAgree
<1>7. k[E] = h[x] + k[D]
  <2>1. k[E] = h[x] + k[E \ {x}]
    BY <1>1, <1>3, <1>5, AddsAnyOrder
  <2> QED
    BY <1>5, <2>1
<1>8. g[D] \in Int
  BY <1>2, <1>4, AddsType
<1> QED
  BY <1>2, <1>3, <1>5, <1>6, <1>7, <1>8

-----------------------------------------------------------------------------
(* The books balance.  A transaction of a claim that has none is a new      *)
(* member of the set, a payout a new place of the sequence, so each raises  *)
(* the sum by its amount, as the code raises or lowers the counter.         *)

BooksInv == IsFiniteSet(transactions) /\ BooksBalance

Credits(T, p) == [t \in {t \in T : t.partner = p} |-> t.amount]

LEMMA BooksInit == Init => BooksInv
<1> SUFFICES ASSUME Init
             PROVE  BooksInv
  OBVIOUS
<1>1. ASSUME NEW p \in Partners
      PROVE  CreditedTo(p) = 0 /\ Sum(payouts[p]) = 0
  <2>1. DOMAIN Credits({}, p) = {} /\ DOMAIN payouts[p] = {}
    BY DEF Init, Credits
  <2>2. Sum(Credits({}, p)) = 0 /\ Sum(payouts[p]) = 0
    BY <2>1, SumEmpty
  <2>3. CreditedTo(p) = Sum(Credits({}, p))
    BY Zenon DEF Init, CreditedTo, Credits
  <2> QED
    BY <2>2, <2>3
<1>2. BooksBalance
  BY <1>1 DEF Init, BooksBalance
<1> QED
  BY <1>2, FS_EmptySet DEF Init, BooksInv

\* One more transaction raises what its partner was credited, and nobody
\* else's.
LEMMA CreditOne ==
  ASSUME NEW T, IsFiniteSet(T), NEW t, t \notin T,
         \A u \in T \cup {t} : u.amount \in Int, NEW p
  PROVE  Sum(Credits(T \cup {t}, p)) =
           IF t.partner = p THEN Sum(Credits(T, p)) + t.amount
           ELSE Sum(Credits(T, p))
<1> DEFINE f == Credits(T, p)
           h == Credits(T \cup {t}, p)
<1>1. CASE t.partner = p
  <2>1. /\ DOMAIN f = {u \in T : u.partner = p}
        /\ DOMAIN h = DOMAIN f \cup {t}
        /\ \A d \in DOMAIN f : h[d] = f[d]
        /\ \A d \in DOMAIN h : h[d] \in Int
        /\ h[t] = t.amount
        /\ t \notin DOMAIN f
    BY <1>1 DEF Credits
  <2>2. IsFiniteSet(DOMAIN f)
    BY <2>1, FS_Subset
  <2> HIDE DEF f, h
  <2>3. Sum(h) = Sum(f) + h[t]
    BY <2>1, <2>2, SumOneMore
  <2> QED
    BY <1>1, <2>1, <2>3 DEF f, h
<1>2. CASE t.partner # p
  <2>1. {u \in T \cup {t} : u.partner = p} = {u \in T : u.partner = p}
    BY <1>2
  <2>2. h = f
    BY <2>1, Zenon DEF Credits
  <2> QED
    BY <1>2, <2>2, Zenon
<1> QED
  BY <1>1, <1>2

\* One more payout raises the sum of the payouts by its amount.
LEMMA PayOne ==
  ASSUME NEW s \in Seq(Amounts), NEW a \in Amounts
  PROVE  Sum(Append(s, a)) = Sum(s) + a /\ Sum(s) \in Int
<1> DEFINE h == Append(s, a)
           n == Len(s)
<1>1. n \in Nat /\ DOMAIN s = 1..n
  OBVIOUS
<1>2. DOMAIN h = 1..(n + 1) /\ h[n + 1] = a /\ \A i \in 1..n : h[i] = s[i]
  OBVIOUS
<1>3. \A i \in 1..n : s[i] \in Amounts
  OBVIOUS
<1>4. Amounts \subseteq Int
  BY PartnerAssumption
<1> HIDE DEF h, n
<1>5. 1..(n + 1) = 1..n \cup {n + 1} /\ n + 1 \notin 1..n
  BY <1>1
<1>6. DOMAIN h = DOMAIN s \cup {n + 1} /\ n + 1 \notin DOMAIN s
  BY <1>1, <1>2, <1>5
<1>7. \A i \in DOMAIN h : h[i] \in Int
  BY <1>1, <1>2, <1>3, <1>4, <1>6
<1>8. IsFiniteSet(DOMAIN s)
  BY <1>1, FS_Interval
<1>9. Sum(h) = Sum(s) + h[n + 1] /\ Sum(s) \in Int
  BY <1>1, <1>2, <1>6, <1>7, <1>8, SumOneMore
<1> QED
  BY <1>2, <1>9 DEF h

LEMMA AmountsWhole ==
  Amounts \subseteq Int /\ (TypeOK => \A t \in transactions : t.amount \in Int)
<1>1. Amounts \subseteq Int
  BY PartnerAssumption
<1>2. TypeOK => \A t \in transactions : t.amount \in Amounts
  BY DEF TypeOK
<1> QED
  BY <1>1, <1>2

LEMMA CreditedInt ==
  ASSUME TypeOK, IsFiniteSet(transactions), NEW p
  PROVE  CreditedTo(p) \in Int
<1> DEFINE f == Credits(transactions, p)
<1>1. IsFiniteSet(DOMAIN f) /\ \A d \in DOMAIN f : f[d] \in Int
  <2>1. DOMAIN f = {u \in transactions : u.partner = p}
    BY DEF Credits
  <2>2. \A d \in DOMAIN f : f[d] \in Int
    BY AmountsWhole DEF Credits
  <2> QED
    BY <2>1, <2>2, FS_Subset
<1>2. CreditedTo(p) = Sum(f)
  BY Zenon DEF CreditedTo, Credits
<1> HIDE DEF f
<1>3. PICK g : Adds(f, DOMAIN f, g) /\ Sum(f) = g[DOMAIN f]
  BY <1>1, SumAdds
<1>4. \A s \in SUBSET DOMAIN f : g[s] \in Int
  BY <1>1, <1>3, AddsType
<1> QED
  BY <1>2, <1>3, <1>4

LEMMA BooksCredit ==
  ASSUME TypeOK, JobInv, BooksInv, MakeTransaction
  PROVE  BooksInv'
<1>1. CASE Claim \in Rewarded \/ Claim \notin alive
  BY <1>1 DEF MakeTransaction, books, BooksInv, BooksBalance, CreditedTo
<1>2. CASE ~(Claim \in Rewarded \/ Claim \notin alive)
  <2> DEFINE q == ReferredBy[Claim]
             a == work.amount
             t == [claim |-> Claim, partner |-> q, amount |-> a]
  <2>1. /\ transactions' = transactions \cup {t}
        /\ balance' = [balance EXCEPT ![q] = @ + a]
        /\ totalEarnings' = [totalEarnings EXCEPT ![q] = @ + a]
        /\ payouts' = payouts
    BY <1>2 DEF MakeTransaction
  <2>2. work # Rest /\ work.step = "credit"
    BY RestStep DEF MakeTransaction, At
  <2>3. a \in Amounts /\ a \in Int
    <3>1. a \in Amounts
      BY <2>2 DEF JobInv
    <3> QED
      BY <3>1, AmountsWhole
  <2>4. t.claim = Claim /\ t.partner = q /\ t.amount = a
    OBVIOUS
  <2> HIDE DEF q, a, t
  <2>5. t \notin transactions
    BY <1>2, <2>4 DEF Rewarded
  <2>6. \A u \in transactions \cup {t} : u.amount \in Int
    BY <2>3, <2>4, AmountsWhole
  <2>7. IsFiniteSet(transactions')
    BY <2>1, FS_AddElement DEF BooksInv
  <2>8. ASSUME NEW p \in Partners
        PROVE  /\ totalEarnings'[p] = CreditedTo(p)'
               /\ balance'[p] = CreditedTo(p)' - Sum(payouts'[p])
    <3>1. /\ CreditedTo(p) = Sum(Credits(transactions, p))
          /\ CreditedTo(p)' = Sum(Credits(transactions', p))
      BY Zenon DEF CreditedTo, Credits
    <3>2. CreditedTo(p)' = IF q = p THEN CreditedTo(p) + a ELSE CreditedTo(p)
      BY <2>1, <2>4, <2>5, <2>6, <3>1, CreditOne DEF BooksInv
    <3>3. /\ totalEarnings[p] = CreditedTo(p)
          /\ balance[p] = CreditedTo(p) - Sum(payouts[p])
      BY DEF BooksInv, BooksBalance
    <3>4. CreditedTo(p) \in Int
      BY CreditedInt DEF BooksInv
    <3>5. Sum(payouts[p]) \in Int
      <4>1. payouts[p] \in Seq(Amounts)
        BY DEF TypeOK
      <4> QED
        BY <2>3, <4>1, PayOne
    <3>6. /\ totalEarnings'[p] = IF q = p THEN totalEarnings[p] + a
                                 ELSE totalEarnings[p]
          /\ balance'[p] = IF q = p THEN balance[p] + a ELSE balance[p]
      BY <2>1 DEF TypeOK
    <3> DEFINE credited == CreditedTo(p)
               paid == Sum(payouts[p])
               later == CreditedTo(p)'
    <3>7. /\ credited \in Int /\ paid \in Int
          /\ later = IF q = p THEN credited + a ELSE credited
          /\ totalEarnings[p] = credited /\ balance[p] = credited - paid
          /\ Sum(payouts'[p]) = paid
      BY <2>1, <3>2, <3>3, <3>4, <3>5, Zenon
    <3> HIDE DEF credited, paid, later
    <3>8. totalEarnings'[p] = later /\ balance'[p] = later - paid
      BY <2>3, <3>6, <3>7
    <3> QED
      BY <3>7, <3>8 DEF later
  <2> QED
    BY <2>7, <2>8 DEF BooksInv, BooksBalance
<1> QED
  BY <1>1, <1>2

LEMMA BooksPay ==
  ASSUME TypeOK, BooksInv, NEW h \in Office, MakePayout(h)
  PROVE  BooksInv'
<1> DEFINE q == task[h].partner
           a == task[h].amount
<1>1. q \in Partners /\ a \in Amounts /\ a \in Int
  <2>1. task[h] \in Tasks /\ task[h].step = "pay"
    BY DEF MakePayout, TypeOK
  <2> QED
    BY <2>1, TaskFields, AmountsWhole
<1>2. /\ payouts' = [payouts EXCEPT ![q] = Append(@, a)]
      /\ balance' = [balance EXCEPT ![q] = @ - a]
      /\ UNCHANGED <<transactions, totalEarnings>>
  BY DEF MakePayout
<1> HIDE DEF q, a
<1>3. ASSUME NEW p \in Partners
      PROVE  /\ totalEarnings'[p] = CreditedTo(p)'
             /\ balance'[p] = CreditedTo(p)' - Sum(payouts'[p])
  <2>1. CreditedTo(p)' = CreditedTo(p)
    BY <1>2 DEF CreditedTo
  <2>2. /\ totalEarnings[p] = CreditedTo(p)
        /\ balance[p] = CreditedTo(p) - Sum(payouts[p])
    BY DEF BooksInv, BooksBalance
  <2>3. CreditedTo(p) \in Int
    BY CreditedInt DEF BooksInv
  <2>4. payouts[p] \in Seq(Amounts)
    BY DEF TypeOK
  <2>5. /\ Sum(payouts[p]) \in Int
        /\ Sum(Append(payouts[p], a)) = Sum(payouts[p]) + a
    BY <1>1, <2>4, PayOne
  <2>6. /\ payouts'[p] = IF q = p THEN Append(payouts[p], a) ELSE payouts[p]
        /\ balance'[p] = IF q = p THEN balance[p] - a ELSE balance[p]
    BY <1>2 DEF TypeOK
  <2> DEFINE credited == CreditedTo(p)
             paid == Sum(payouts[p])
             later == Sum(payouts'[p])
  <2>7. /\ credited \in Int /\ paid \in Int
        /\ later = IF q = p THEN paid + a ELSE paid
        /\ balance[p] = credited - paid
    BY <2>2, <2>3, <2>5, <2>6, Zenon
  <2>8. totalEarnings'[p] = credited
    BY <1>2, <2>2
  <2> HIDE DEF credited, paid, later
  <2>9. balance'[p] = credited - later
    BY <1>1, <2>6, <2>7
  <2> QED
    BY <2>1, <2>8, <2>9, Zenon DEF credited, later
<1> QED
  BY <1>2, <1>3 DEF BooksInv, BooksBalance

LEMMA BooksNext ==
  TypeOK /\ JobInv /\ BooksInv /\ [Next]_vars => BooksInv'
<1> SUFFICES ASSUME TypeOK, JobInv, BooksInv, [Next]_vars
             PROVE  BooksInv'
  OBVIOUS
<1>1. \/ MakeTransaction
      \/ \E h \in Office : MakePayout(h)
      \/ UNCHANGED books
  BY DEF Next, vars, WorkerStep, OfficeRequest, OfficeStep, TakeJob, JobThrows,
       MinutePasses, DeleteClaim, EditClaim, Crash, PayoutRollsBack,
       ReadProgress, ReadLatest, ReadClaim, FindTransaction, SendLetter,
       BeginStep, BeginDelete, BeginPayout, SaveStep, EnqueueJob, DeleteStep,
       books
<1>2. CASE UNCHANGED books
  BY <1>2 DEF books, BooksInv, BooksBalance, CreditedTo
<1> QED
  BY <1>1, <1>2, BooksCredit, BooksPay

-----------------------------------------------------------------------------
(* The check of the balance is only undone by another payout.  Inductively *)
(* the payouts of a partner only grow in number, so that a request which   *)
(* sees the number it saw at the check knows that none was made since.     *)

PayoutInv ==
  \A h \in Office : task[h].step = "pay" =>
    /\ task[h].seen <= Len(payouts[task[h].partner])
    /\ task[h].seen = Len(payouts[task[h].partner]) =>
         task[h].amount <= balance[task[h].partner]

LEMMA PayFields ==
  ASSUME NEW t \in Tasks, t.step = "pay"
  PROVE  t.partner \in Partners /\ t.amount \in Amounts /\ t.seen \in Nat
  BY DEF Tasks, Rest

LEMMA PayoutInit == Init => PayoutInv
  BY RestStep DEF Init, PayoutInv

\* Steps that begin and make no payout, and take nothing from a balance.
LEMMA PayoutFrame ==
  ASSUME TypeOK, TypeOK', PayoutInv, payouts' = payouts,
         \A p \in Partners : balance'[p] >= balance[p],
         \A h \in Office : task'[h] = task[h] \/ task'[h].step # "pay"
  PROVE  PayoutInv'
<1> SUFFICES ASSUME NEW h \in Office, task'[h].step = "pay"
             PROVE  /\ task'[h].seen <= Len(payouts'[task'[h].partner])
                    /\ task'[h].seen = Len(payouts'[task'[h].partner]) =>
                         task'[h].amount <= balance'[task'[h].partner]
  BY DEF PayoutInv
<1>1. task'[h] = task[h]
  OBVIOUS
<1>2. task[h] \in Tasks
  BY DEF TypeOK
<1>3. task[h].partner \in Partners /\ task[h].amount \in Amounts
  BY <1>1, <1>2, PayFields
<1>4. task[h].amount \in Int
  BY <1>3, AmountsWhole
<1>5. /\ balance[task[h].partner] \in Int
      /\ balance'[task[h].partner] \in Int
      /\ balance'[task[h].partner] >= balance[task[h].partner]
  BY <1>3 DEF TypeOK
<1> QED
  BY <1>1, <1>4, <1>5 DEF PayoutInv

LEMMA PayoutPaid ==
  ASSUME TypeOK, PayoutInv, NEW h \in Office, MakePayout(h)
  PROVE  PayoutInv'
<1> SUFFICES ASSUME NEW k \in Office, task'[k].step = "pay"
             PROVE  /\ task'[k].seen <= Len(payouts'[task'[k].partner])
                    /\ task'[k].seen = Len(payouts'[task'[k].partner]) =>
                         task'[k].amount <= balance'[task'[k].partner]
  BY DEF PayoutInv
<1>1. k # h /\ task'[k] = task[k]
  BY RestStep DEF MakePayout, TypeOK
<1>2. task[h] \in Tasks /\ task[k] \in Tasks /\ task[h].step = "pay"
  BY DEF MakePayout, TypeOK
<1> DEFINE q == task[h].partner
           p == task[k].partner
           a == task[h].amount
<1>3. q \in Partners /\ p \in Partners /\ a \in Amounts /\ task[k].seen \in Nat
  BY <1>1, <1>2, PayFields
<1>4. /\ payouts' = [payouts EXCEPT ![q] = Append(@, a)]
      /\ balance' = [balance EXCEPT ![q] = @ - a]
  BY DEF MakePayout
<1>5. /\ task[k].seen <= Len(payouts[p])
      /\ task[k].seen = Len(payouts[p]) => task[k].amount <= balance[p]
  BY <1>1 DEF PayoutInv
<1> HIDE DEF q, p, a
<1>6. CASE p = q
  <2>1. payouts[p] \in Seq(Amounts)
    BY <1>3 DEF TypeOK
  <2>2. payouts'[p] = Append(payouts[p], a)
    BY <1>3, <1>4, <1>6 DEF TypeOK
  <2>3. Len(payouts'[p]) = Len(payouts[p]) + 1 /\ Len(payouts[p]) \in Nat
    BY <1>3, <2>1, <2>2
  <2> QED
    BY <1>1, <1>3, <1>5, <2>3 DEF p
<1>7. CASE p # q
  <2>1. payouts'[p] = payouts[p] /\ balance'[p] = balance[p]
    BY <1>3, <1>4, <1>7 DEF TypeOK
  <2> QED
    BY <1>1, <1>5, <2>1 DEF p
<1> QED
  BY <1>6, <1>7

LEMMA PayoutNext ==
  TypeOK /\ TypeOK' /\ JobInv /\ PayoutInv /\ [Next]_vars => PayoutInv'
<1> SUFFICES ASSUME TypeOK, TypeOK', JobInv, PayoutInv, [Next]_vars
             PROVE  PayoutInv'
  OBVIOUS
<1>0. \A p \in Partners : balance[p] \in Int
  BY DEF TypeOK
<1>1. ASSUME NEW h \in Office, NEW p \in Partners, NEW amount \in Amounts,
             BeginPayout(h, p, amount)
      PROVE  PayoutInv'
  <2> DEFINE t == [step |-> "pay", partner |-> p, amount |-> amount,
                   seen |-> Len(payouts[p])]
  <2>1. /\ task' = [task EXCEPT ![h] = t] /\ amount <= balance[p]
        /\ payouts' = payouts /\ balance' = balance
    BY <1>1 DEF BeginPayout, books
  <2>2. t.partner = p /\ t.amount = amount /\ t.seen = Len(payouts[p])
    OBVIOUS
  <2> HIDE DEF t
  <2>3. task'[h] = t /\ \A k \in Office \ {h} : task'[k] = task[k]
    BY <2>1 DEF TypeOK
  <2>4. Len(payouts[p]) \in Nat
    BY DEF TypeOK
  <2> QED
    BY <2>1, <2>2, <2>3, <2>4 DEF PayoutInv
<1>2. CASE MakeTransaction
  <2>1. payouts' = payouts /\ task' = task
    BY <1>2 DEF MakeTransaction, books
  <2>2. \A p \in Partners : balance'[p] >= balance[p]
    <3>1. CASE Claim \in Rewarded \/ Claim \notin alive
      BY <1>0, <1>2, <3>1 DEF MakeTransaction, books
    <3>2. CASE ~(Claim \in Rewarded \/ Claim \notin alive)
      <4> DEFINE q == ReferredBy[Claim]
                 a == work.amount
      <4>1. balance' = [balance EXCEPT ![q] = @ + a]
        BY <1>2, <3>2 DEF MakeTransaction
      <4>2. work # Rest /\ work.step = "credit"
        BY <1>2, RestStep DEF MakeTransaction, At
      <4>3. a \in Amounts
        BY <4>2 DEF JobInv
      <4>4. a \in Nat
        BY <4>3, PartnerAssumption
      <4> HIDE DEF q, a
      <4>5. \A p \in Partners : balance'[p] = IF p = q THEN balance[p] + a
                                              ELSE balance[p]
        BY <4>1 DEF TypeOK
      <4> QED
        BY <1>0, <4>4, <4>5
    <3> QED
      BY <3>1, <3>2
  <2> QED
    BY <2>1, <2>2, PayoutFrame
<1>3. CASE /\ UNCHANGED books
           /\ \A h \in Office : task'[h] = task[h] \/ task'[h].step # "pay"
  <2>1. payouts' = payouts /\ \A p \in Partners : balance'[p] >= balance[p]
    BY <1>0, <1>3 DEF books
  <2> QED
    BY <1>3, <2>1, PayoutFrame
<1>4. ASSUME NEW h \in Office, OfficeStep(h) \/ PayoutRollsBack(h)
      PROVE  PayoutInv'
  <2>1. CASE MakePayout(h)
    BY <2>1, PayoutPaid
  <2>2. CASE SaveStep(h)
    <3>1. PICK t : task' = [task EXCEPT ![h] = t] /\ t.step # "pay"
      <4>1. CASE task[h].claim \notin alive
        BY <2>2, <4>1, RestStep DEF SaveStep
      <4>2. CASE task[h].claim \in alive
        <5>1. PICK r \in RowIds :
                task' = [task EXCEPT ![h] = [step |-> "enqueue", row |-> r]]
          BY <2>2, <4>2 DEF SaveStep
        <5>2. [step |-> "enqueue", row |-> r].step = "enqueue"
          OBVIOUS
        <5> QED
          BY <5>1, <5>2
      <4> QED
        BY <4>1, <4>2
    <3>2. UNCHANGED books
      BY <2>2 DEF SaveStep
    <3> QED
      BY <1>3, <3>1, <3>2 DEF TypeOK
  <2>3. CASE EnqueueJob(h) \/ DeleteStep(h) \/ PayoutRollsBack(h)
    BY <1>3, <2>3, RestStep DEF EnqueueJob, DeleteStep, PayoutRollsBack, TypeOK
  <2> QED
    BY <1>4, <2>1, <2>2, <2>3 DEF OfficeStep
<1>5. ASSUME NEW h \in Office, OfficeRequest(h)
      PROVE  PayoutInv'
  BY <1>1, <1>3, <1>5 DEF OfficeRequest, BeginStep, BeginDelete, TypeOK
<1>6. CASE Crash
  BY <1>3, <1>6, RestStep DEF Crash
<1>7. \/ MakeTransaction
      \/ \E h \in Office : OfficeRequest(h) \/ OfficeStep(h) \/ PayoutRollsBack(h)
      \/ Crash
      \/ UNCHANGED books /\ task' = task
  BY DEF Next, vars, WorkerStep, TakeJob, JobThrows, MinutePasses, DeleteClaim,
       EditClaim, ReadProgress, ReadLatest, ReadClaim, FindTransaction,
       SendLetter, books
<1> QED
  BY <1>2, <1>3, <1>4, <1>5, <1>6, <1>7

-----------------------------------------------------------------------------
(* No commission is forgotten.  PaidAccounted is not inductive: the worker  *)
(* may drop a job because a later step outranks its own, because the claim  *)
(* has gone or because it sends the letter, and only the three other parts  *)
(* say that in each case the commission is not owed any more.               *)

Owed(r) == Kept(r) /\ rows[r].paid /\ ReferredBy[rows[r].claim] # NoPartner

Accounted(r) ==
  \/ rows[r].claim \in Rewarded
  \/ \E j \in jobs : j.row = r
  \/ work # Rest /\ work.job.row = r
  \/ \E h \in Office : task[h] = [step |-> "enqueue", row |-> r]
  \/ r \in outranked \cup failed \cup orphaned

RowsLive == \A r \in RowIds : Kept(r) => rows[r].claim \in alive

LaterOutrank ==
  \A q, r \in RowIds :
    (/\ Kept(q) /\ Kept(r) /\ rows[q].claim = rows[r].claim
     /\ rows[r].order < rows[q].order)
    => r \in outranked

LetterAfterMoney ==
  (/\ work.step = "letter" /\ rows[work.job.row].paid
   /\ ReferredBy[Claim] # NoPartner)
  => Claim \in Rewarded

PaidInv == PaidAccounted /\ RowsLive /\ LaterOutrank /\ LetterAfterMoney

LEMMA PaidInit == Init => PaidInv
<1>1. Init => \A r \in RowIds : rows[r].life = "unborn"
  BY DEF Init, NoRow
<1> QED
  BY <1>1, RestStep DEF Init, PaidInv, PaidAccounted, RowsLive, LaterOutrank,
     LetterAfterMoney, Kept

\* What is never taken back.
LEMMA HistoryGrows ==
  ASSUME TypeOK, [Next]_vars
  PROVE  /\ Rewarded \subseteq Rewarded'
         /\ outranked \subseteq outranked' /\ failed \subseteq failed'
         /\ orphaned \subseteq orphaned'
<1>1. transactions \subseteq transactions'
  <2>1. MakeTransaction \/ transactions' = transactions
    BY DEF Next, vars, WorkerStep, OfficeRequest, OfficeStep, TakeJob, JobThrows,
       MinutePasses, DeleteClaim, EditClaim, Crash, PayoutRollsBack,
       ReadProgress, ReadLatest, ReadClaim, FindTransaction, SendLetter,
       BeginStep, BeginDelete, BeginPayout, SaveStep, EnqueueJob, DeleteStep,
       MakePayout, books
  <2> QED
    BY <2>1 DEF MakeTransaction, books
<1>2. outranked \subseteq outranked'
  <2>1. (\E h \in Office : SaveStep(h)) \/ outranked' = outranked
    BY DEF Next, vars, WorkerStep, OfficeRequest, OfficeStep, TakeJob, JobThrows,
       MinutePasses, DeleteClaim, EditClaim, Crash, PayoutRollsBack,
       ReadProgress, ReadLatest, ReadClaim, FindTransaction, SendLetter,
       MakeTransaction, BeginStep, BeginDelete, BeginPayout, EnqueueJob,
       DeleteStep, MakePayout, steps
  <2> QED
    BY <2>1 DEF SaveStep
<1>3. failed \subseteq failed'
  <2>1. MakeTransaction \/ JobThrows \/ Crash \/ failed' = failed
    BY DEF Next, vars, WorkerStep, OfficeRequest, OfficeStep, TakeJob,
       MinutePasses, DeleteClaim, EditClaim, PayoutRollsBack,
       ReadProgress, ReadLatest, ReadClaim, FindTransaction, SendLetter,
       BeginStep, BeginDelete, BeginPayout, SaveStep, EnqueueJob, DeleteStep,
       MakePayout
  <2> QED
    BY <2>1 DEF MakeTransaction, JobThrows, Crash, Retry
<1>4. orphaned \subseteq orphaned'
  <2>1. Crash \/ orphaned' = orphaned
    BY DEF Next, vars, WorkerStep, OfficeRequest, OfficeStep, TakeJob, JobThrows,
       MinutePasses, DeleteClaim, EditClaim, PayoutRollsBack,
       ReadProgress, ReadLatest, ReadClaim, FindTransaction, SendLetter,
       MakeTransaction, BeginStep, BeginDelete, BeginPayout, SaveStep,
       EnqueueJob, DeleteStep, MakePayout, steps
  <2> QED
    BY <2>1 DEF Crash
<1> QED
  BY <1>1, <1>2, <1>3, <1>4 DEF Rewarded

\* Only the save of a step makes a kept row.
LEMMA RowsShape ==
  ASSUME TypeOK, [Next]_vars
  PROVE  \/ \E h \in Office : SaveStep(h) /\ task[h].claim \in alive
         \/ /\ \A r \in RowIds : Kept(r)' => rows'[r] = rows[r]
            /\ outranked' = outranked
<1>1. ASSUME NEW h \in Office, SaveStep(h), task[h].claim \notin alive
      PROVE  rows' = rows /\ outranked' = outranked
  BY <1>1 DEF SaveStep
<1>2. ASSUME NEW h \in Office, DeleteStep(h)
      PROVE  /\ \A r \in RowIds : Kept(r)' => rows'[r] = rows[r]
             /\ outranked' = outranked
  <2>1. \A r \in RowIds : rows[r] \in Rows
    BY DEF TypeOK
  <2>2. \A r \in RowIds : [rows[r] EXCEPT !.life = "deleted"].life = "deleted"
    BY <2>1 DEF Rows
  <2>3. \A r \in RowIds : \/ rows'[r] = rows[r]
                          \/ rows'[r] = [rows[r] EXCEPT !.life = "deleted"]
    BY <1>2 DEF DeleteStep, TypeOK
  <2> QED
    BY <1>2, <2>2, <2>3 DEF DeleteStep, Kept
<1>3. ASSUME NEW c \in Claims, DeleteClaim(c)
      PROVE  /\ \A r \in RowIds : Kept(r)' => rows'[r] = rows[r]
             /\ outranked' = outranked
  <2>1. \A r \in RowIds : rows[r] \in Rows
    BY DEF TypeOK
  <2>2. \A r \in RowIds : [rows[r] EXCEPT !.life = "deleted"].life = "deleted"
    BY <2>1 DEF Rows
  <2>3. \A r \in RowIds : \/ rows'[r] = rows[r]
                          \/ rows'[r] = [rows[r] EXCEPT !.life = "deleted"]
    BY <1>3 DEF DeleteClaim
  <2> QED
    BY <1>3, <2>2, <2>3 DEF DeleteClaim, Kept
<1>4. \/ \E h \in Office : SaveStep(h) \/ DeleteStep(h)
      \/ \E c \in Claims : DeleteClaim(c)
      \/ rows' = rows /\ outranked' = outranked
  BY DEF Next, vars, WorkerStep, OfficeRequest, OfficeStep, TakeJob, JobThrows,
       MinutePasses, EditClaim, Crash, PayoutRollsBack, ReadProgress, ReadLatest,
       ReadClaim, FindTransaction, MakeTransaction, SendLetter, BeginStep,
       BeginDelete, BeginPayout, EnqueueJob, MakePayout, steps
<1> QED
  BY <1>1, <1>2, <1>3, <1>4

LEMMA SavedStep ==
  ASSUME TypeOK, NEW h \in Office, SaveStep(h), task[h].claim \in alive
  PROVE  \E r \in RowIds :
           /\ rows[r].life = "unborn"
           /\ rows'[r].life = "kept" /\ rows'[r].claim = task[h].claim
           /\ rows'[r].order = task[h].order /\ task[h].order \in Nat
           /\ \A q \in RowIds \ {r} : rows'[q] = rows[q]
           /\ \A q \in KeptOf(task[h].claim) :
                /\ rows[q].order < task[h].order => q \in outranked'
                /\ rows[q].order > task[h].order => r \in outranked'
           /\ task'[h] = [step |-> "enqueue", row |-> r]
<1> DEFINE row == [life |-> "kept", claim |-> task[h].claim,
                   order |-> task[h].order, paid |-> task[h].paid]
<1>1. row.life = "kept" /\ row.claim = task[h].claim /\ row.order = task[h].order
  OBVIOUS
<1>2. PICK r \in RowIds :
        /\ rows[r].life = "unborn"
        /\ rows' = [rows EXCEPT ![r] = row]
        /\ outranked' = outranked
             \cup {q \in KeptOf(task[h].claim) : rows[q].order < task[h].order}
             \cup {q \in {r} : \E k \in KeptOf(task[h].claim) :
                                 rows[k].order > task[h].order}
        /\ task' = [task EXCEPT ![h] = [step |-> "enqueue", row |-> r]]
  BY DEF SaveStep
<1> HIDE DEF row
<1>3. rows'[r] = row /\ \A q \in RowIds \ {r} : rows'[q] = rows[q]
  BY <1>2 DEF TypeOK
<1>4. task'[h] = [step |-> "enqueue", row |-> r]
  BY <1>2 DEF TypeOK
<1>5. \A q \in KeptOf(task[h].claim) :
        /\ rows[q].order < task[h].order => q \in outranked'
        /\ rows[q].order > task[h].order => r \in outranked'
  BY <1>2
<1>6. task[h] \in Tasks /\ task[h].step = "save"
  BY DEF SaveStep, TypeOK
<1>7. task[h].order \in Nat
  BY <1>6, TaskFields, StepAssumption
<1> QED
  BY <1>1, <1>2, <1>3, <1>4, <1>5, <1>7

LEMMA RowsLiveNext ==
  ASSUME TypeOK, RowsLive, [Next]_vars
  PROVE  RowsLive'
<1>1. CASE \E h \in Office : SaveStep(h) /\ task[h].claim \in alive
  <2>1. PICK h \in Office : SaveStep(h) /\ task[h].claim \in alive
    BY <1>1
  <2>2. PICK r \in RowIds :
          /\ rows'[r].claim = task[h].claim
          /\ \A q \in RowIds \ {r} : rows'[q] = rows[q]
    BY <2>1, SavedStep
  <2>3. alive' = alive
    BY <2>1 DEF SaveStep, claims
  <2> QED
    BY <2>1, <2>2, <2>3 DEF RowsLive, Kept
<1>2. CASE \A r \in RowIds : Kept(r)' => rows'[r] = rows[r]
  <2>1. ASSUME NEW c \in Claims, DeleteClaim(c)
        PROVE  RowsLive'
    <3>1. \A r \in RowIds : rows[r] \in Rows
      BY DEF TypeOK
    <3>2. \A r \in RowIds : [rows[r] EXCEPT !.life = "deleted"].life = "deleted"
      BY <3>1 DEF Rows
    <3>3. \A r \in KeptOf(c) : ~Kept(r)'
      BY <2>1, <3>2 DEF DeleteClaim, KeptOf, Kept
    <3>4. alive' = alive \ {c}
      BY <2>1 DEF DeleteClaim
    <3> QED
      BY <1>2, <3>3, <3>4 DEF RowsLive, Kept, KeptOf
  <2>2. (\E c \in Claims : DeleteClaim(c)) \/ alive' = alive
    BY DEF Next, vars, WorkerStep, OfficeRequest, OfficeStep, TakeJob, JobThrows,
       MinutePasses, EditClaim, Crash, PayoutRollsBack, ReadProgress, ReadLatest,
       ReadClaim, FindTransaction, MakeTransaction, SendLetter, SaveStep,
       BeginStep, BeginDelete, BeginPayout, EnqueueJob, DeleteStep, MakePayout,
       claims
  <2>3. CASE alive' = alive
    BY <1>2, <2>3 DEF RowsLive, Kept
  <2> QED
    BY <2>1, <2>2, <2>3
<1> QED
  BY <1>1, <1>2, RowsShape

LEMMA LaterOutrankNext ==
  ASSUME TypeOK, LaterOutrank, [Next]_vars
  PROVE  LaterOutrank'
<1>1. outranked \subseteq outranked'
  BY HistoryGrows
<1>2. CASE \E h \in Office : SaveStep(h) /\ task[h].claim \in alive
  <2>1. PICK h \in Office : SaveStep(h) /\ task[h].claim \in alive
    BY <1>2
  <2> DEFINE c == task[h].claim
             o == task[h].order
  <2>2. PICK s \in RowIds :
          /\ rows'[s].life = "kept" /\ rows'[s].claim = c
          /\ rows'[s].order = o /\ o \in Nat
          /\ \A q \in RowIds \ {s} : rows'[q] = rows[q]
          /\ \A q \in KeptOf(c) : /\ rows[q].order < o => q \in outranked'
                                  /\ rows[q].order > o => s \in outranked'
    BY <2>1, SavedStep
  <2> HIDE DEF c, o
  <2> SUFFICES ASSUME NEW q \in RowIds, NEW r \in RowIds,
                      Kept(q)', Kept(r)', rows'[q].claim = rows'[r].claim,
                      rows'[r].order < rows'[q].order
               PROVE  r \in outranked'
    BY DEF LaterOutrank
  <2>3. CASE q # s /\ r # s
    BY <1>1, <2>2, <2>3 DEF LaterOutrank, Kept
  <2>4. CASE q = s /\ r # s
    BY <2>2, <2>4 DEF KeptOf, Kept
  <2>5. CASE q # s /\ r = s
    <3>1. q \in KeptOf(c)
      BY <2>2, <2>5 DEF KeptOf, Kept
    <3>2. rows[q].order \in Nat
      BY DEF TypeOK, Rows
    <3> QED
      BY <2>2, <2>5, <3>1, <3>2
  <2>6. CASE q = s /\ r = s
    BY <2>2, <2>6
  <2> QED
    BY <2>3, <2>4, <2>5, <2>6
<1>3. CASE \A r \in RowIds : Kept(r)' => rows'[r] = rows[r]
  BY <1>1, <1>3 DEF LaterOutrank, Kept
<1> QED
  BY <1>2, <1>3, RowsShape

LEMMA LetterNext ==
  ASSUME TypeOK, JobInv, LetterAfterMoney, [Next]_vars
  PROVE  LetterAfterMoney'
<1>0. work # Rest /\ rows[work.job.row].life # "unborn" => work.job.row \in RowIds
  BY WorkFields DEF TypeOK
<1>1. work # Rest => /\ rows'[work.job.row].paid = rows[work.job.row].paid
                     /\ rows'[work.job.row].claim = rows[work.job.row].claim
  BY <1>0, RowsLast DEF JobInv
<1>2. Rewarded \subseteq Rewarded'
  BY HistoryGrows
<1>3. work.step # "rest" => work # Rest
  BY RestStep
<1>4. CASE work' = work
  BY <1>1, <1>2, <1>3, <1>4 DEF LetterAfterMoney, Claim
<1>5. CASE work' = Rest
  BY <1>5, RestStep DEF LetterAfterMoney
<1>6. ASSUME NEW j \in jobs, TakeJob(j)
      PROVE  LetterAfterMoney'
  <2>1. work' = [step |-> "progress", job |-> j, amount |-> 0]
    BY <1>6 DEF TakeJob
  <2>2. work'.step = "progress"
    BY <2>1
  <2> QED
    BY <2>2 DEF LetterAfterMoney
<1>7. CASE WorkerStep
  <2>1. work # Rest /\ rows' = rows
    BY <1>7, RestStep DEF WorkerStep, ReadProgress, ReadLatest, ReadClaim,
         FindTransaction, MakeTransaction, SendLetter, At, steps
  <2>2. work \in [step : {"progress", "latest", "claim", "find", "credit",
                          "letter"}, job : Jobs, amount : Amounts \cup {0}]
    BY <2>1, WorkFields DEF TypeOK
  <2>3. ASSUME NEW step, Continue(step)
        PROVE  work'.step = step /\ work'.job = work.job
    BY <2>2, <2>3 DEF Continue
  <2>4. CASE ReadProgress \/ ReadLatest
    BY <1>5, <2>3, <2>4 DEF ReadProgress, ReadLatest, Finish, LetterAfterMoney
  <2>5. CASE ReadClaim
    <3>1. CASE Claim \notin alive
      BY <1>5, <2>5, <3>1 DEF ReadClaim, Finish
    <3>2. CASE Claim \in alive
      <4>1. PICK step : /\ work' = [work EXCEPT !.amount = worth[Claim], !.step = step]
                        /\ step = "letter" => ~(/\ rows[work.job.row].paid
                                                /\ ReferredBy[Claim] # NoPartner)
        BY <2>5, <3>2 DEF ReadClaim
      <4>2. work'.step = step /\ work'.job = work.job
        BY <2>2, <4>1
      <4> QED
        BY <2>1, <4>1, <4>2 DEF LetterAfterMoney, Claim
    <3> QED
      BY <3>1, <3>2
  <2>6. CASE FindTransaction
    <3>1. work'.job = work.job /\ (work'.step = "letter" => Claim \in Rewarded)
      BY <2>3, <2>6 DEF FindTransaction
    <3> QED
      BY <1>2, <2>1, <3>1 DEF LetterAfterMoney, Claim
  <2>7. CASE MakeTransaction
    <3>1. CASE Claim \in Rewarded \/ Claim \notin alive
      BY <1>5, <2>7, <3>1 DEF MakeTransaction, Retry
    <3>2. CASE ~(Claim \in Rewarded \/ Claim \notin alive)
      <4> DEFINE t == [claim |-> Claim, partner |-> ReferredBy[Claim],
                       amount |-> work.amount]
      <4>1. transactions' = transactions \cup {t} /\ t.claim = Claim
        BY <2>7, <3>2 DEF MakeTransaction
      <4>2. work'.job = work.job
        BY <2>3, <2>7, <3>2 DEF MakeTransaction
      <4> HIDE DEF t
      <4>3. Claim \in Rewarded'
        BY <4>1 DEF Rewarded
      <4> QED
        BY <2>1, <4>2, <4>3 DEF LetterAfterMoney, Claim
    <3> QED
      BY <3>1, <3>2
  <2>8. CASE SendLetter
    BY <1>5, <2>8 DEF SendLetter, Finish
  <2> QED
    BY <1>7, <2>4, <2>5, <2>6, <2>7, <2>8 DEF WorkerStep
<1>8. \/ WorkerStep
      \/ \E j \in jobs : TakeJob(j)
      \/ work' = Rest
      \/ work' = work
  BY DEF Next, vars, OfficeRequest, OfficeStep, JobThrows, Retry,
       MinutePasses, DeleteClaim, EditClaim, Crash, PayoutRollsBack, SaveStep,
       BeginStep, BeginDelete, BeginPayout, EnqueueJob, DeleteStep, MakePayout
<1> QED
  BY <1>4, <1>5, <1>6, <1>7, <1>8

\* Whatever happens, a job stays on its way until the worker takes it.
LEMMA JobsWait ==
  ASSUME TypeOK, [Next]_vars, NEW j \in jobs
  PROVE  j \in jobs' \/ (work' # Rest /\ work'.job = j)
<1>1. ASSUME NEW i \in jobs, TakeJob(i)
      PROVE  j \in jobs' \/ (work' # Rest /\ work'.job = j)
  <2>1. /\ jobs' = jobs \ {i}
        /\ work' = [step |-> "progress", job |-> i, amount |-> 0]
    BY <1>1 DEF TakeJob
  <2>2. work'.step = "progress" /\ work'.job = i
    BY <2>1
  <2> QED
    BY <2>1, <2>2, RestStep
<1>2. (\E i \in jobs : TakeJob(i)) \/ jobs \subseteq jobs'
  BY DEF Next, vars, WorkerStep, OfficeRequest, OfficeStep, JobThrows, Retry,
       MinutePasses, DeleteClaim, EditClaim, Crash, PayoutRollsBack,
       ReadProgress, ReadLatest, ReadClaim, FindTransaction, SendLetter,
       MakeTransaction, BeginStep, BeginDelete, BeginPayout, SaveStep,
       EnqueueJob, DeleteStep, MakePayout
<1> QED
  BY <1>1, <1>2

\* A request that saved a step adds its job, unless the process stops.
LEMMA RequestsEnqueue ==
  ASSUME TypeOK, [Next]_vars, NEW h \in Office, NEW r \in RowIds,
         task[h] = [step |-> "enqueue", row |-> r]
  PROVE  \/ task'[h] = task[h]
         \/ \E j \in jobs' : j.row = r
         \/ r \in orphaned'
<1>1. task[h].step = "enqueue" /\ task[h].row = r /\ task[h] # Rest
  BY RestStep
<1>2. CASE Crash
  BY <1>2 DEF Crash
<1>3. ASSUME NEW k \in Office, OfficeRequest(k) \/ OfficeStep(k) \/ PayoutRollsBack(k)
      PROVE  \/ task'[h] = task[h]
             \/ \E j \in jobs' : j.row = r
  <2>1. CASE k # h
    BY <1>3, <2>1 DEF OfficeRequest, OfficeStep, PayoutRollsBack, BeginStep,
       BeginDelete, BeginPayout, SaveStep, EnqueueJob, DeleteStep, MakePayout,
       TypeOK
  <2>2. CASE k = h
    <3>1. EnqueueJob(h)
      BY <1>1, <1>3, <2>2 DEF OfficeRequest, OfficeStep, PayoutRollsBack,
         BeginStep, BeginDelete, BeginPayout, SaveStep, DeleteStep, MakePayout
    <3> DEFINE j == [row |-> task[h].row, left |-> Attempts]
    <3>2. j \in jobs' /\ j.row = r
      BY <1>1, <3>1 DEF EnqueueJob
    <3> QED
      BY <3>2
  <2> QED
    BY <2>1, <2>2
<1>4. \/ Crash
      \/ \E k \in Office : OfficeRequest(k) \/ OfficeStep(k) \/ PayoutRollsBack(k)
      \/ task' = task
  BY DEF Next, vars, WorkerStep, TakeJob, JobThrows, MinutePasses, DeleteClaim,
       EditClaim, ReadProgress, ReadLatest, ReadClaim, FindTransaction,
       MakeTransaction, SendLetter
<1> QED
  BY <1>2, <1>3, <1>4

\* The worker does not leave the job of a commission that is owed without an
\* account of it.
LEMMA WorkerAccounts ==
  ASSUME TypeOK, JobInv, RowsLive, LaterOutrank, LetterAfterMoney, [Next]_vars,
         NEW r \in RowIds, Owed(r), work # Rest, work.job.row = r
  PROVE  \/ rows[r].claim \in Rewarded'
         \/ \E j \in jobs' : j.row = r
         \/ work' # Rest /\ work'.job.row = r
         \/ r \in outranked' \cup failed'
<1>0. Claim = rows[r].claim /\ Kept(r) /\ rows[r].paid
      /\ ReferredBy[Claim] # NoPartner
  BY DEF Claim, Owed
<1>1. Rewarded \subseteq Rewarded' /\ outranked \subseteq outranked'
  BY HistoryGrows
<1>2. work \in [step : {"progress", "latest", "claim", "find", "credit",
                        "letter"}, job : Jobs, amount : Amounts \cup {0}]
  BY WorkFields DEF TypeOK
<1>3. CASE Retry
  <2>1. work.job \in Jobs
    BY <1>2
  <2>2. [work.job EXCEPT !.left = work.job.left - 1].row = r
    BY <2>1 DEF Jobs
  <2> QED
    BY <1>3, <2>2 DEF Retry
<1>4. ASSUME NEW step \in {"latest", "claim", "find", "credit", "letter"},
             Continue(step)
      PROVE  work' # Rest /\ work'.job.row = r
  <2>1. work'.step = step /\ work'.job = work.job
    BY <1>2, <1>4 DEF Continue
  <2> QED
    BY <2>1, RestStep
<1>5. CASE WorkerStep
  <2>1. CASE ReadProgress
    BY <1>0, <1>4, <2>1 DEF ReadProgress
  <2>2. CASE ReadLatest
    <3>1. CASE Continue("claim")
      BY <1>4, <3>1
    <3>2. CASE ~Continue("claim")
      <4>1. r \in KeptOf(Claim)
        BY <1>0 DEF KeptOf
      <4>2. PICK q \in KeptOf(Claim) : ~(rows[q].order <= rows[r].order)
        BY <2>2, <3>2, <4>1 DEF ReadLatest
      <4>3. rows[q].order \in Nat /\ rows[r].order \in Nat
        BY <4>2 DEF KeptOf, TypeOK, Rows
      <4>4. rows[r].order < rows[q].order
        BY <4>2, <4>3
      <4>5. r \in outranked
        BY <1>0, <4>2, <4>4 DEF LaterOutrank, KeptOf
      <4> QED
        BY <1>1, <4>5
    <3> QED
      BY <3>1, <3>2
  <2>3. CASE ReadClaim
    <3>1. Claim \in alive
      BY <1>0 DEF RowsLive
    <3>2. PICK step \in {"find", "letter"} :
            work' = [work EXCEPT !.amount = worth[Claim], !.step = step]
      BY <2>3, <3>1 DEF ReadClaim
    <3>3. work'.step = step /\ work'.job = work.job
      BY <1>2, <3>2
    <3> QED
      BY <3>3, RestStep
  <2>4. CASE FindTransaction
    BY <1>4, <2>4 DEF FindTransaction
  <2>5. CASE MakeTransaction
    BY <1>3, <1>4, <2>5 DEF MakeTransaction
  <2>6. CASE SendLetter
    BY <1>0, <1>1, <2>6 DEF SendLetter, At, LetterAfterMoney
  <2> QED
    BY <1>5, <2>1, <2>2, <2>3, <2>4, <2>5, <2>6 DEF WorkerStep
<1>6. CASE JobThrows
  BY <1>3, <1>6 DEF JobThrows
<1>7. CASE Crash
  BY <1>7 DEF Crash
<1>8. WorkerStep \/ JobThrows \/ Crash \/ work' = work
  BY DEF Next, vars, OfficeRequest, OfficeStep, TakeJob,
       MinutePasses, DeleteClaim, EditClaim, PayoutRollsBack, SaveStep,
       BeginStep, BeginDelete, BeginPayout, EnqueueJob, DeleteStep, MakePayout
<1> QED
  BY <1>5, <1>6, <1>7, <1>8

LEMMA PaidNext ==
  TypeOK /\ JobInv /\ PaidInv /\ [Next]_vars => PaidInv'
<1> SUFFICES ASSUME TypeOK, JobInv, PaidInv, [Next]_vars
             PROVE  PaidInv'
  OBVIOUS
<1>1. RowsLive' /\ LaterOutrank' /\ LetterAfterMoney'
  BY RowsLiveNext, LaterOutrankNext, LetterNext DEF PaidInv
<1>2. ASSUME NEW r \in RowIds, Owed(r), rows'[r] = rows[r]
      PROVE  Accounted(r)'
  <2>1. Accounted(r)
    BY <1>2 DEF PaidInv, PaidAccounted, Owed, Accounted
  <2>2. CASE rows[r].claim \in Rewarded \/ r \in outranked \cup failed \cup orphaned
    BY <1>2, <2>2, HistoryGrows DEF Accounted
  <2>3. ASSUME NEW j \in jobs, j.row = r
        PROVE  Accounted(r)'
    BY <2>3, JobsWait DEF Accounted
  <2>4. CASE work # Rest /\ work.job.row = r
    BY <1>2, <2>4, WorkerAccounts DEF Accounted, PaidInv
  <2>5. ASSUME NEW h \in Office, task[h] = [step |-> "enqueue", row |-> r]
        PROVE  Accounted(r)'
    BY <2>5, RequestsEnqueue DEF Accounted
  <2> QED
    BY <2>1, <2>2, <2>3, <2>4, <2>5 DEF Accounted
<1>3. ASSUME NEW r \in RowIds, Owed(r)'
      PROVE  Accounted(r)'
  <2>1. CASE \E h \in Office : SaveStep(h) /\ task[h].claim \in alive
    <3>1. PICK h \in Office : SaveStep(h) /\ task[h].claim \in alive
      BY <2>1
    <3>2. PICK s \in RowIds :
            /\ \A q \in RowIds \ {s} : rows'[q] = rows[q]
            /\ task'[h] = [step |-> "enqueue", row |-> s]
      BY <3>1, SavedStep
    <3>3. CASE r = s
      BY <3>2, <3>3 DEF Accounted
    <3>4. CASE r # s
      <4>1. rows'[r] = rows[r]
        BY <3>2, <3>4
      <4> QED
        BY <1>2, <1>3, <4>1 DEF Owed, Kept
    <3> QED
      BY <3>3, <3>4
  <2>2. CASE \A q \in RowIds : Kept(q)' => rows'[q] = rows[q]
    <3>1. rows'[r] = rows[r]
      BY <1>3, <2>2 DEF Owed
    <3> QED
      BY <1>2, <1>3, <3>1 DEF Owed, Kept
  <2> QED
    BY <2>1, <2>2, RowsShape
<1>4. PaidAccounted'
  BY <1>3 DEF PaidAccounted, Owed, Accounted
<1> QED
  BY <1>1, <1>4 DEF PaidInv

-----------------------------------------------------------------------------
\* The counters of a partner are the sums of the rows behind them, a payout
\* that passed the check is covered unless another one came between, and every
\* PAID step of a referred claim has an account of its commission, after every
\* interleaving of the requests, the worker, its retries and the crashes.
THEOREM MoneyIsAccounted == Spec => []MoneyAccounted
<1>1. BooksInv /\ PayoutInv /\ PaidInv /\ TypeOK => MoneyAccounted
  BY DEF BooksInv, PayoutInv, PaidInv, MoneyAccounted,
     PayoutCoveredUnlessOverlapped
<1> QED
  BY <1>1, InitType, NextType, JobInit, JobNext, BooksInit, BooksNext,
     PayoutInit, PayoutNext, PaidInit, PaidNext, PTL DEF Spec

=============================================================================
