------------------------ MODULE ClaimDocumentsProofs ------------------------
(***************************************************************************)
(* Theorems about ClaimDocuments, for every set of passengers, groups,     *)
(* handlers and requests and every bound on the events.                    *)
(***************************************************************************)
EXTENDS ClaimDocuments, FiniteSetTheorems, TLAPS

\* The variables of the ensure job are always spoken of one by one.
USE DEF ensure

LEMMA FreeType == Free \in Contexts
  BY ClaimAssumption DEF Free, Contexts, Ops, ProgressKinds

LEMMA HandlerNames ==
  /\ Assigner \in Handlers /\ Office \in Handlers /\ Http \subseteq Handlers
  /\ Assigner \notin Http /\ Office \notin Http /\ Assigner # Office
  BY HandlerAssumption DEF Handlers

LEMMA LastOrderType ==
  ASSUME progress \in Seq(Rows)
  PROVE  LastOrder \in Nat
<1> DEFINE orders == {progress[i].order : i \in 1..Len(progress)}
           latest == {o \in orders : \A q \in orders : q <= o}
<1>1. \A i \in 1..Len(progress) : progress[i].order \in Nat
  <2>1. \A i \in 1..Len(progress) : progress[i] \in Rows
    OBVIOUS
  <2> QED
    BY <2>1 DEF Rows
<1>2. latest \subseteq Nat
  BY <1>1
<1>3. LastOrder = IF latest = {} THEN 0 ELSE CHOOSE o \in latest : TRUE
  BY Zenon DEF LastOrder
<1> HIDE DEF latest
<1> QED
  BY <1>2, <1>3

LEMMA SpendType ==
  ASSUME spent \in [Events -> Nat], NEW event \in Events, Spend(event)
  PROVE  spent' \in [Events -> Nat]
  BY DEF Spend

LEMMA GotoType ==
  ASSUME TypeOK, NEW h \in Handlers, NEW step \in Steps, Goto(h, step)
  PROVE  pc' \in [Handlers -> Steps] /\ ctx' \in [Handlers -> Contexts]
  BY FreeType DEF Goto, TypeOK

LEMMA StartType ==
  ASSUME TypeOK, NEW h \in Handlers, NEW step \in Steps,
         NEW context \in Contexts, Start(h, step, context)
  PROVE  pc' \in [Handlers -> Steps] /\ ctx' \in [Handlers -> Contexts]
  BY DEF Start, TypeOK

LEMMA AfterType ==
  ASSUME NEW h
  PROVE  /\ AfterSave(h) \in Steps /\ AfterCheck(h) \in Steps
         /\ AfterClose(h) \in Steps /\ AfterEnqueue(h) \in Steps
  BY DEF AfterSave, AfterCheck, AfterClose, AfterEnqueue, Steps

-----------------------------------------------------------------------------
(* Type correctness.                                                       *)

LEMMA ClientRequestType ==
  ASSUME TypeOK, NEW h \in Http, ClientRequest(h)
  PROVE  TypeOK'
<1>1. h \in Handlers
  BY HandlerNames
<1>2. "client" \in Events /\ {"save", "enqueue", "close"} \subseteq Steps
  BY DEF Events, Steps
<1>3. SUFFICES ASSUME Spend("client"),
                      NEW step \in Steps, NEW context \in Contexts,
                      Start(h, step, context),
                      UNCHANGED <<docs, requests, status, progress, queue,
                                  signed, ever, lost, ensure>>
               PROVE  TypeOK'
  <2>1. CASE \E s \in Slots, r \in RequestIds \cup {NoRequest} :
               BeginUpload(h, s, r)
    <3>1. PICK s \in Slots, r \in RequestIds \cup {NoRequest} :
            BeginUpload(h, s, r)
      BY <2>1
    <3>2. [Free EXCEPT !.op = "upload", !.passenger = s[1], !.todo = {s[2]},
                       !.check = TRUE, !.request = r] \in Contexts
      BY FreeType DEF Contexts, Ops, Slots
    <3> QED
      BY <1>2, <1>3, <3>1, <3>2 DEF BeginUpload
  <2>2. CASE \E p \in Passengers \ {Customer}, groups \in Batches :
               BeginPassengerUpload(h, p, groups)
    <3>1. PICK p \in Passengers, groups \in Batches :
            BeginPassengerUpload(h, p, groups)
      BY <2>2
    <3>2. [Free EXCEPT !.op = "upload", !.passenger = p, !.todo = groups,
                       !.check = TRUE] \in Contexts
      BY FreeType, ClaimAssumption DEF Contexts, Ops
    <3> QED
      BY <1>2, <1>3, <3>1, <3>2 DEF BeginPassengerUpload
  <2>3. CASE \E p \in Passengers, groups \in Batches : FormUpload(h, p, groups)
    <3>1. PICK p \in Passengers, groups \in Batches : FormUpload(h, p, groups)
      BY <2>3
    <3>2. [Free EXCEPT !.op = "upload", !.passenger = p, !.todo = groups]
            \in Contexts
      BY FreeType, ClaimAssumption DEF Contexts, Ops
    <3> QED
      BY <1>2, <1>3, <3>1, <3>2 DEF FormUpload
  <2>4. \A p \in Passengers : SignRequests(p) \subseteq RequestIds \cup {NoRequest}
    BY DEF SignRequests
  <2>5. CASE \E r \in SignRequests(Customer) : BeginCustomerSign(h, r)
    <3>1. PICK r \in RequestIds \cup {NoRequest} : BeginCustomerSign(h, r)
      BY <2>4, <2>5, ClaimAssumption
    <3>2. [Free EXCEPT !.op = "customerSign", !.passenger = Customer,
                       !.check = TRUE, !.request = r] \in Contexts
      BY FreeType, ClaimAssumption DEF Contexts, Ops
    <3> QED
      BY <1>2, <1>3, <3>1, <3>2 DEF BeginCustomerSign
  <2>6. CASE \E p \in Passengers \ {Customer} : \E r \in SignRequests(p) :
               BeginPassengerSign(h, p, r)
    <3>1. PICK p \in Passengers, r \in RequestIds \cup {NoRequest} :
            BeginPassengerSign(h, p, r)
      BY <2>4, <2>6
    <3>2. [Free EXCEPT !.op = "passengerSign", !.passenger = p,
                       !.check = TRUE, !.request = r] \in Contexts
      BY FreeType DEF Contexts, Ops
    <3> QED
      BY <1>2, <1>3, <3>1, <3>2 DEF BeginPassengerSign
  <2>7. CASE BeginFormSign(h)
    <3>1. [Free EXCEPT !.op = "formSign", !.passenger = Customer] \in Contexts
      BY FreeType, ClaimAssumption DEF Contexts, Ops
    <3> QED
      BY <1>2, <1>3, <2>7, <3>1 DEF BeginFormSign
  <2> QED
    BY <2>1, <2>2, <2>3, <2>5, <2>6, <2>7 DEF ClientRequest
<1>4. pc' \in [Handlers -> Steps] /\ ctx' \in [Handlers -> Contexts]
  BY <1>1, <1>3, StartType
<1>5. spent' \in [Events -> Nat]
  BY <1>2, <1>3, SpendType DEF TypeOK
<1> QED
  BY <1>3, <1>4, <1>5 DEF TypeOK

LEMMA HandlerStepType ==
  ASSUME TypeOK, NEW h \in Http \cup {Assigner}, HandlerStep(h)
  PROVE  TypeOK'
<1>1. h \in Handlers
  BY HandlerNames
<1>2. ctx[h] \in Contexts
  BY <1>1 DEF TypeOK
<1>3. {"idle", "requests", "advance"} \subseteq Steps
  BY DEF Steps
<1>4. CASE SaveDocument(h)
  <2>1. PICK g \in ctx[h].todo :
          LET slot == <<ctx[h].passenger, g>>
              left == ctx[h].todo \ {g}
          IN  /\ docs' = [docs EXCEPT ![slot] = @ + 1]
              /\ ever' = ever \cup {slot}
              /\ IF left = {} THEN Goto(h, AfterSave(h))
                 ELSE /\ ctx' = [ctx EXCEPT ![h].todo = left]
                      /\ pc' = pc
    BY <1>4 DEF SaveDocument
  <2>2. <<ctx[h].passenger, g>> \in Slots
    BY <1>2 DEF Contexts, Slots
  <2> DEFINE slot == <<ctx[h].passenger, g>>
  <2>3. docs' \in [Slots -> Nat] /\ ever' \in SUBSET Slots
    <3>1. docs' = [docs EXCEPT ![slot] = @ + 1] /\ ever' = ever \cup {slot}
      BY <2>1
    <3>2. slot \in Slots
      BY <2>2
    <3> HIDE DEF slot
    <3> QED
      BY <3>1, <3>2 DEF TypeOK
  <2>4. [ctx[h] EXCEPT !.todo = ctx[h].todo \ {g}] \in Contexts
    BY <1>2 DEF Contexts
  <2>5. pc' \in [Handlers -> Steps] /\ ctx' \in [Handlers -> Contexts]
    <3>1. CASE ctx[h].todo \ {g} = {}
      BY <1>1, <2>1, <3>1, AfterType, GotoType
    <3>2. CASE ctx[h].todo \ {g} # {}
      BY <1>1, <2>1, <2>4, <3>2 DEF TypeOK
    <3> QED
      BY <3>1, <3>2
  <2> QED
    BY <1>4, <2>3, <2>5 DEF TypeOK, SaveDocument
<1>5. CASE ReadClaim(h)
  <2>1. [ctx[h] EXCEPT !.order = LastOrder, !.epoch = spent["staff"]]
          \in Contexts
    BY <1>2, LastOrderType DEF Contexts, TypeOK, Events
  <2>2. PICK step \in Steps :
          /\ pc' = [pc EXCEPT ![h] = step]
          /\ ctx' = [ctx EXCEPT ![h] = IF step = "idle" THEN Free
                       ELSE [@ EXCEPT !.order = LastOrder,
                                      !.epoch = spent["staff"]]]
    BY <1>3, <1>5, AfterType DEF ReadClaim
  <2>3. pc' \in [Handlers -> Steps]
    BY <2>2 DEF TypeOK
  <2>4. ctx' \in [Handlers -> Contexts]
    <3>1. CASE step = "idle"
      BY <2>2, <3>1, FreeType DEF TypeOK
    <3>2. CASE step # "idle"
      BY <1>1, <2>1, <2>2, <3>2 DEF TypeOK
    <3> QED
      BY <3>1, <3>2
  <2> QED
    BY <1>5, <2>3, <2>4 DEF TypeOK, ReadClaim
<1>6. CASE ReadRequests(h)
  <2>1. \E step \in Steps : Goto(h, step)
    BY <1>3, <1>6, AfterType DEF ReadRequests
  <2>2. pc' \in [Handlers -> Steps] /\ ctx' \in [Handlers -> Contexts]
    BY <1>1, <2>1, GotoType
  <2> QED
    BY <1>6, <2>2 DEF TypeOK, ReadRequests
<1>7. CASE Advance(h)
  <2>1. \E step \in Steps : Goto(h, step)
    BY <1>3, <1>7, AfterType DEF Advance
  <2>2. pc' \in [Handlers -> Steps] /\ ctx' \in [Handlers -> Contexts]
    BY <1>1, <2>1, GotoType
  <2>3. [order |-> ctx[h].order + 1, kind |-> "docsReceived", auto |-> TRUE]
          \in Rows
    BY <1>2 DEF Rows, Contexts, ProgressKinds
  <2>4. progress' \in Seq(Rows) /\ status' \in Statuses
    <3>1. CASE ctx[h].order = 0
      BY <1>7, <3>1 DEF Advance, TypeOK
    <3>2. CASE ctx[h].order # 0
      <4> DEFINE row == [order |-> ctx[h].order + 1, kind |-> "docsReceived",
                         auto |-> TRUE]
      <4>1. progress' = Append(progress, row) /\ status' = "CLAIM_RECEIVED"
        BY <1>7, <3>2 DEF Advance
      <4>2. row \in Rows
        BY <2>3
      <4> HIDE DEF row
      <4> QED
        BY <4>1, <4>2 DEF TypeOK, Statuses
    <3> QED
      BY <3>1, <3>2
  <2> QED
    BY <1>7, <2>2, <2>4 DEF TypeOK, Advance
<1>8. CASE CloseRequest(h)
  <2>1. pc' \in [Handlers -> Steps] /\ ctx' \in [Handlers -> Contexts]
    BY <1>1, <1>8, AfterType, GotoType DEF CloseRequest
  <2>2. requests' \in [RequestIds -> {"NONE", "ACTIVE", "INACTIVE"}]
    BY <1>8 DEF CloseRequest, TypeOK
  <2> QED
    BY <1>8, <2>1, <2>2 DEF TypeOK, CloseRequest
<1>9. CASE Enqueue(h)
  <2>1. pc' \in [Handlers -> Steps] /\ ctx' \in [Handlers -> Contexts]
    BY <1>1, <1>9, AfterType, GotoType DEF Enqueue
  <2>2. [passenger |-> ctx[h].passenger, check |-> ctx[h].check] \in Jobs
    BY <1>2 DEF Jobs, Contexts
  <2>3. queue' \in Seq(Jobs)
    BY <1>9, <2>2 DEF Enqueue, TypeOK
  <2> QED
    BY <1>9, <2>1, <2>3 DEF TypeOK, Enqueue
<1>10. CASE Sign(h)
  <2>1. pc' \in [Handlers -> Steps] /\ ctx' \in [Handlers -> Contexts]
    BY <1>1, <1>3, <1>10, GotoType DEF Sign
  <2>2. signed' \in SUBSET Passengers
    BY <1>2, <1>10 DEF Sign, TypeOK, Contexts
  <2> QED
    BY <1>10, <2>1, <2>2 DEF TypeOK, Sign
<1> QED
  BY <1>4, <1>5, <1>6, <1>7, <1>8, <1>9, <1>10 DEF HandlerStep

LEMMA HandlerThrowsType ==
  ASSUME TypeOK, NEW h \in Http, HandlerThrows(h)
  PROVE  TypeOK'
<1>1. h \in Handlers /\ "idle" \in Steps
  BY HandlerNames DEF Steps
<1>2. pc' \in [Handlers -> Steps] /\ ctx' \in [Handlers -> Contexts]
  BY <1>1, GotoType DEF HandlerThrows
<1>3. spent' \in [Events -> Nat]
  BY SpendType DEF HandlerThrows, TypeOK, Events
<1> QED
  BY <1>2, <1>3 DEF TypeOK, HandlerThrows

LEMMA WorkerType ==
  ASSUME TypeOK, TakeJob \/ JobThrows \/ Crash
  PROVE  TypeOK'
<1>1. Assigner \in Handlers /\ ctx[Assigner] \in Contexts
  BY HandlerNames DEF TypeOK
<1>2. {"idle", "save"} \subseteq Steps
  BY DEF Steps
<1>3. CASE TakeJob
  <2>1. Head(queue) \in Jobs /\ Tail(queue) \in Seq(Jobs)
    BY <1>3 DEF TakeJob, TypeOK
  <2>2. [Free EXCEPT !.op = "job", !.passenger = Head(queue).passenger,
                     !.todo = {"Assignment"}, !.check = Head(queue).check]
          \in Contexts
    BY <2>1, FreeType, ClaimAssumption DEF Contexts, Jobs, Ops
  <2>3. pc' \in [Handlers -> Steps] /\ ctx' \in [Handlers -> Contexts]
    BY <1>1, <1>2, <1>3, <2>2, StartType DEF TakeJob
  <2> QED
    BY <1>3, <2>1, <2>3 DEF TypeOK, TakeJob
<1>4. CASE JobThrows
  <2>1. pc' \in [Handlers -> Steps] /\ ctx' \in [Handlers -> Contexts]
    BY <1>1, <1>2, <1>4, GotoType DEF JobThrows
  <2>2. lost' \in SUBSET Passengers
    BY <1>1, <1>4 DEF JobThrows, TypeOK, Contexts
  <2>3. spent' \in [Events -> Nat]
    BY <1>4, SpendType DEF JobThrows, TypeOK, Events
  <2> QED
    BY <1>4, <2>1, <2>2, <2>3 DEF TypeOK, JobThrows
<1>5. CASE Crash
  <2>1. pc' \in [Handlers -> Steps] /\ ctx' \in [Handlers -> Contexts]
    BY <1>2, <1>5, FreeType DEF Crash
  <2>2. [passenger |-> ctx[Assigner].passenger, check |-> ctx[Assigner].check]
          \in Jobs
    BY <1>1 DEF Jobs, Contexts
  <2>3. queue' \in Seq(Jobs)
    <3> DEFINE job == [passenger |-> ctx[Assigner].passenger,
                       check |-> ctx[Assigner].check]
    <3>1. queue' = queue \/ queue' = <<job>> \o queue
      BY <1>5 DEF Crash
    <3>2. job \in Jobs /\ queue \in Seq(Jobs)
      BY <2>2 DEF TypeOK
    <3> HIDE DEF job
    <3>3. <<job>> \in Seq(Jobs)
      BY <3>2
    <3>4. <<job>> \o queue \in Seq(Jobs)
      BY <3>2, <3>3
    <3> QED
      BY <3>1, <3>2, <3>4
  <2>4. spent' \in [Events -> Nat]
    BY <1>5, SpendType DEF Crash, TypeOK, Events
  <2>5. lost' \in SUBSET Passengers
    BY <1>1, <1>5 DEF Crash, TypeOK, Contexts
  <2>6. ensureJobs' \in Nat
    BY <1>5 DEF Crash, TypeOK
  <2>7. ensuring' \in [step : {"rest", "requests", "create"}, slots : SUBSET Slots]
    BY <1>5 DEF Crash, NoEnsure
  <2> QED
    BY <1>5, <2>1, <2>3, <2>4, <2>5, <2>6, <2>7 DEF TypeOK, Crash
<1> QED
  BY <1>3, <1>4, <1>5

LEMMA StaffType ==
  ASSUME TypeOK, StaffAction \/ StaffProgressRow
  PROVE  TypeOK'
<1>1. Office \in Handlers /\ ctx[Office] \in Contexts
  BY HandlerNames DEF TypeOK
<1>2. "staff" \in Events /\ {"row", "idle"} \subseteq Steps
  BY DEF Events, Steps
<1>3. ASSUME NEW s \in Slots, StaffUpload(s)
      PROVE  TypeOK'
  BY <1>2, <1>3, SpendType DEF StaffUpload, TypeOK
<1>4. ASSUME NEW s \in Slots, RemoveDocument(s)
      PROVE  TypeOK'
  BY <1>2, <1>4, SpendType DEF RemoveDocument, TypeOK
<1>5. ASSUME NEW s \in Slots, NEW t \in Slots, PatchDocument(s, t)
      PROVE  TypeOK'
  <2>1. docs[s] - 1 \in Nat /\ docs[t] + 1 \in Nat /\ s # t
    BY <1>5 DEF PatchDocument, TypeOK
  <2>2. docs' \in [Slots -> Nat]
    BY <1>5, <2>1 DEF PatchDocument, TypeOK
  <2> QED
    BY <1>2, <1>5, <2>2, SpendType DEF PatchDocument, TypeOK
<1>6. ASSUME NEW r \in RequestIds, CreateRequest(r) \/ DeleteRequest(r)
      PROVE  TypeOK'
  BY <1>2, <1>6, SpendType DEF CreateRequest, DeleteRequest, TypeOK
<1>7. ASSUME NEW st \in Statuses, NEW k \in ProgressKinds, NEW order \in Nat,
             NEW forCustomer \in BOOLEAN, StaffProgress(st, k, order, forCustomer)
      PROVE  TypeOK'
  <2>1. [Free EXCEPT !.op = "progress", !.order = order, !.kind = k]
          \in Contexts
    BY FreeType DEF Contexts, Ops
  <2>2. pc' \in [Handlers -> Steps] /\ ctx' \in [Handlers -> Contexts]
    BY <1>1, <1>2, <1>7, <2>1, StartType DEF StaffProgress
  <2> QED
    BY <1>2, <1>7, <2>2, SpendType DEF StaffProgress, TypeOK
<1>8. ASSUME NEW i \in 1..Len(progress), DeleteProgress(i)
      PROVE  TypeOK'
  <2>1. \A j \in 1..(Len(progress) - 1) :
          progress[j] \in Rows /\ progress[j + 1] \in Rows
    BY DEF TypeOK
  <2>2. Len(progress) - 1 \in Nat
    BY <1>8 DEF TypeOK
  <2>3. progress' \in [1..(Len(progress) - 1) -> Rows]
    BY <1>8, <2>1 DEF DeleteProgress
  <2>4. progress' \in Seq(Rows)
    BY <2>2, <2>3
  <2> QED
    BY <1>2, <1>8, <2>4, SpendType DEF DeleteProgress, TypeOK
<1>9. ASSUME NEW st \in Statuses, UpdateState(st)
      PROVE  TypeOK'
  BY <1>2, <1>9, SpendType DEF UpdateState, TypeOK
<1>10. ASSUME StaffProgressRow
       PROVE  TypeOK'
  <2>1. [order |-> ctx[Office].order, kind |-> ctx[Office].kind, auto |-> FALSE]
          \in Rows
    BY <1>1 DEF Contexts, Rows
  <2>2. pc' \in [Handlers -> Steps] /\ ctx' \in [Handlers -> Contexts]
    BY <1>1, <1>2, <1>10, GotoType DEF StaffProgressRow
  <2>3. progress' \in Seq(Rows)
    BY <1>10, <2>1 DEF StaffProgressRow, TypeOK
  <2> QED
    BY <1>10, <2>2, <2>3 DEF StaffProgressRow, TypeOK
<1>11. \A order \in Orders : order \in Nat
  BY ClaimAssumption
<1> QED
  BY <1>3, <1>4, <1>5, <1>6, <1>7, <1>8, <1>9, <1>10, <1>11 DEF StaffAction

\* What the ensure job leaves alone.
LEMMA EnsureLeaves ==
  ASSUME EnsureAction
  PROVE  UNCHANGED <<docs, status, progress, queue, signed, pc, ctx, ever, lost>>
  BY DEF EnsureAction, ScheduleEnsure, TakeEnsure, EnsureReadRequests,
         EnsureRequest, EnsureDone, EnsureThrows

LEMMA EnsureType ==
  ASSUME TypeOK, EnsureAction
  PROVE  TypeOK'
<1> DEFINE Runs == [step : {"rest", "requests", "create"}, slots : SUBSET Slots]
<1>1. {"ensure", "failure"} \subseteq Events
  BY DEF Events
<1>2. ensuring \in Runs /\ NoEnsure \in Runs
  BY DEF TypeOK, NoEnsure
<1>3. spent' \in [Events -> Nat]
  BY <1>1, SpendType DEF TypeOK, EnsureAction, ScheduleEnsure, TakeEnsure,
       EnsureReadRequests, EnsureRequest, EnsureDone, EnsureThrows
<1>4. ensureJobs' \in Nat
  BY DEF TypeOK, EnsureAction, ScheduleEnsure, TakeEnsure,
       EnsureReadRequests, EnsureRequest, EnsureDone, EnsureThrows
<1>5. /\ requests' \in [RequestIds -> {"NONE", "ACTIVE", "INACTIVE"}]
      /\ crossed' \in SUBSET Handlers
  BY DEF TypeOK, EnsureAction, ScheduleEnsure, TakeEnsure,
       EnsureReadRequests, EnsureRequest, EnsureDone, EnsureThrows
<1>6. ensuring' \in Runs
  <2>1. CASE TakeEnsure
    BY <2>1 DEF TakeEnsure, Missing
  <2>2. CASE EnsureReadRequests
    BY <1>2, <2>2 DEF EnsureReadRequests
  <2>3. ASSUME NEW r, EnsureRequest(r)
        PROVE  ensuring' \in Runs
    BY <1>2, <2>3 DEF EnsureRequest
  <2>4. CASE ScheduleEnsure \/ EnsureDone \/ EnsureThrows
    BY <1>2, <2>4 DEF ScheduleEnsure, EnsureDone, EnsureThrows
  <2> QED
    BY <2>1, <2>2, <2>3, <2>4 DEF EnsureAction
<1> QED
  BY <1>3, <1>4, <1>5, <1>6, EnsureLeaves DEF TypeOK

LEMMA InitType == Init => TypeOK
<1> SUFFICES ASSUME Init
             PROVE  TypeOK
  OBVIOUS
<1>1. [order |-> 1, kind |-> "received", auto |-> TRUE] \in Rows
  BY DEF Rows, ProgressKinds
<1>2. progress \in Seq(Rows)
  BY <1>1 DEF Init
<1> QED
  BY <1>2, FreeType, ClaimAssumption DEF Init, TypeOK, Statuses, Steps,
       NoEnsure

LEMMA NextType == TypeOK /\ [Next]_vars => TypeOK'
<1> SUFFICES ASSUME TypeOK, [Next]_vars
             PROVE  TypeOK'
  OBVIOUS
<1>1. CASE Next
  BY <1>1, ClientRequestType, HandlerStepType, HandlerThrowsType, WorkerType,
     StaffType, EnsureType DEF Next
<1>2. CASE UNCHANGED vars
  BY <1>2 DEF vars, TypeOK
<1> QED
  BY <1>1, <1>2

\* Every variable keeps the shape the code gives it, whatever clients, worker
\* and staff do and however many there are.
THEOREM TypeCorrect == Spec => []TypeOK
  BY InitType, NextType, PTL DEF Spec
-----------------------------------------------------------------------------
(* No announcement without every document.  The claim is judged from one    *)
(* read, so what has to be carried to the commit is that every slot had     *)
(* been filled by the time of that read.                                    *)

EverInv ==
  /\ \A s \in Slots : docs[s] > 0 => s \in ever
  /\ \A h \in Handlers : pc[h] \in {"requests", "advance"} => ever = Slots
  /\ AdvanceHadEveryDocument

LEMMA EverInit == Init => EverInv
  BY DEF Init, EverInv, AdvanceHadEveryDocument, AutoRows

\* What a step must do to keep EverInv, apart from the two that decide.
LEMMA EverFrame ==
  ASSUME TypeOK, TypeOK', EverInv,
         \A s \in Slots : docs'[s] > docs[s] => s \in ever',
         ever \subseteq ever',
         \A h \in Handlers : pc'[h] \in {"requests", "advance"} =>
                              pc[h] \in {"requests", "advance"},
         AutoRows' # {} => AutoRows # {}
  PROVE  EverInv'
<1>1. \A s \in Slots : docs'[s] > 0 => s \in ever'
  BY DEF TypeOK, EverInv
<1>2. ever = Slots => ever' = Slots
  BY DEF TypeOK
<1> QED
  BY <1>1, <1>2 DEF EverInv, AdvanceHadEveryDocument

LEMMA EverNext == TypeOK /\ TypeOK' /\ EverInv /\ [Next]_vars => EverInv'
<1> SUFFICES ASSUME TypeOK, TypeOK', EverInv, [Next]_vars
             PROVE  EverInv'
  OBVIOUS
<1>1. \A s \in Slots : docs[s] \in Nat
  BY DEF TypeOK
<1>2. ASSUME NEW h \in Http, ClientRequest(h)
      PROVE  EverInv'
  <2>1. PICK step \in {"save", "enqueue", "close"} :
          pc' = [pc EXCEPT ![h] = step]
    BY <1>2 DEF ClientRequest, BeginUpload, BeginPassengerUpload, FormUpload,
                BeginCustomerSign, BeginPassengerSign, BeginFormSign, Start
  <2>2. UNCHANGED <<docs, progress, ever>>
    BY <1>2 DEF ClientRequest, BeginUpload, BeginPassengerUpload, FormUpload,
                BeginCustomerSign, BeginPassengerSign, BeginFormSign
  <2> QED
    BY <1>1, <2>1, <2>2, EverFrame DEF AutoRows, TypeOK
<1>3. ASSUME NEW h \in Http \cup {Assigner}, HandlerStep(h)
      PROVE  EverInv'
  <2>1. h \in Handlers
    BY HandlerNames
  <2>2. /\ AfterSave(h) \notin {"requests", "advance"}
        /\ AfterCheck(h) \notin {"requests", "advance"}
        /\ AfterClose(h) \notin {"requests", "advance"}
        /\ AfterEnqueue(h) \notin {"requests", "advance"}
    BY DEF AfterSave, AfterCheck, AfterClose, AfterEnqueue
  <2>3. CASE SaveDocument(h)
    <3>1. PICK g \in ctx[h].todo :
            /\ docs' = [docs EXCEPT ![<<ctx[h].passenger, g>>] = @ + 1]
            /\ ever' = ever \cup {<<ctx[h].passenger, g>>}
            /\ pc' = pc \/ pc' = [pc EXCEPT ![h] = AfterSave(h)]
      BY <2>3 DEF SaveDocument, Goto
    <3> DEFINE slot == <<ctx[h].passenger, g>>
    <3>2. docs' = [docs EXCEPT ![slot] = @ + 1] /\ ever' = ever \cup {slot}
      BY <3>1
    <3>3. \A s \in Slots : docs'[s] > docs[s] => s \in ever'
      <4> HIDE DEF slot
      <4> QED
        BY <1>1, <3>2 DEF TypeOK
    <3>4. progress' = progress
      BY <2>3 DEF SaveDocument
    <3>5. \A k \in Handlers : pc'[k] \in {"requests", "advance"} =>
                              pc[k] \in {"requests", "advance"}
      BY <2>1, <2>2, <3>1 DEF TypeOK
    <3> QED
      BY <3>2, <3>3, <3>4, <3>5, EverFrame DEF AutoRows
  <2>4. CASE ReadClaim(h)
    <3>1. UNCHANGED <<docs, progress, ever>>
      BY <2>4 DEF ReadClaim
    <3>2. CASE AllDocumentsPresent
      <4>1. ever = Slots
        BY <3>2 DEF AllDocumentsPresent, EverInv, TypeOK
      <4> QED
        BY <3>1, <4>1 DEF EverInv, AdvanceHadEveryDocument
    <3>3. CASE ~AllDocumentsPresent
      <4>1. pc' = [pc EXCEPT ![h] = AfterCheck(h)]
        BY <2>4, <3>3 DEF ReadClaim
      <4> QED
        BY <1>1, <2>2, <3>1, <4>1, EverFrame DEF AutoRows, TypeOK
    <3> QED
      BY <3>2, <3>3
  <2>5. CASE ReadRequests(h)
    <3>1. UNCHANGED <<docs, progress, ever>>
      BY <2>5 DEF ReadRequests
    <3>2. \A k \in Handlers : pc'[k] \in {"requests", "advance"} =>
                              pc[k] \in {"requests", "advance"}
      BY <2>1, <2>2, <2>5 DEF ReadRequests, Goto, TypeOK
    <3> QED
      BY <1>1, <3>1, <3>2, EverFrame DEF AutoRows
  <2>6. CASE Advance(h)
    <3>1. ever = Slots /\ ever' = ever /\ docs' = docs
      BY <2>1, <2>6 DEF Advance, EverInv
    <3> QED
      BY <3>1 DEF EverInv, AdvanceHadEveryDocument
  <2>7. CASE CloseRequest(h) \/ Enqueue(h) \/ Sign(h)
    <3>1. UNCHANGED <<docs, progress, ever>>
      BY <2>7 DEF CloseRequest, Enqueue, Sign
    <3>2. \A k \in Handlers : pc'[k] \in {"requests", "advance"} =>
                              pc[k] \in {"requests", "advance"}
      BY <2>2, <2>7 DEF CloseRequest, Enqueue, Sign, Goto, TypeOK
    <3> QED
      BY <1>1, <3>1, <3>2, EverFrame DEF AutoRows
  <2> QED
    BY <1>3, <2>3, <2>4, <2>5, <2>6, <2>7 DEF HandlerStep
<1>4. CASE TakeJob \/ JobThrows \/ Crash \/ \E h \in Http : HandlerThrows(h)
  <2>1. UNCHANGED <<docs, progress, ever>>
    BY <1>4 DEF TakeJob, JobThrows, Crash, HandlerThrows
  <2>2. \A k \in Handlers : pc'[k] \in {"requests", "advance"} =>
                            pc[k] \in {"requests", "advance"}
    BY <1>4 DEF TakeJob, JobThrows, Crash, HandlerThrows, Start, Goto, TypeOK
  <2> QED
    BY <1>1, <2>1, <2>2, EverFrame DEF AutoRows
<1>5. CASE StaffAction \/ StaffProgressRow
  <2>1. \A s \in Slots : docs'[s] > docs[s] => s \in ever'
    <3>1. ASSUME NEW s \in Slots, StaffUpload(s) \/ RemoveDocument(s)
          PROVE  \A q \in Slots : docs'[q] > docs[q] => q \in ever'
      BY <1>1, <3>1 DEF StaffUpload, RemoveDocument, TypeOK
    <3>2. ASSUME NEW s \in Slots, NEW t \in Slots, PatchDocument(s, t)
          PROVE  \A q \in Slots : docs'[q] > docs[q] => q \in ever'
      <4> SUFFICES ASSUME NEW q \in Slots, q # t
                   PROVE  ~(docs'[q] > docs[q])
        BY <3>2 DEF PatchDocument
      <4>1. docs'[q] = docs[q] \/ docs'[q] = docs[q] - 1
        BY <3>2 DEF PatchDocument, TypeOK
      <4> QED
        BY <1>1, <4>1
    <3>3. CASE UNCHANGED docs
      BY <1>1, <3>3
    <3> QED
      BY <1>5, <3>1, <3>2, <3>3 DEF StaffAction, CreateRequest, DeleteRequest,
           StaffProgress, DeleteProgress, UpdateState, StaffProgressRow
  <2>2. ever \subseteq ever'
    BY <1>5 DEF StaffAction, StaffUpload, RemoveDocument, PatchDocument,
         CreateRequest, DeleteRequest, StaffProgress, DeleteProgress,
         UpdateState, StaffProgressRow
  <2>3. \A k \in Handlers : pc'[k] \in {"requests", "advance"} =>
                            pc[k] \in {"requests", "advance"}
    BY <1>5 DEF StaffAction, StaffUpload, RemoveDocument, PatchDocument,
         CreateRequest, DeleteRequest, StaffProgress, DeleteProgress,
         UpdateState, StaffProgressRow, Start, Goto, TypeOK
  <2>4. AutoRows' # {} => AutoRows # {}
    <3>1. CASE \E i \in 1..Len(progress) : DeleteProgress(i)
      <4>1. PICK i \in 1..Len(progress) : DeleteProgress(i)
        BY <3>1
      <4>2. ASSUME NEW j \in AutoRows'
            PROVE  AutoRows # {}
        <5>1. Len(progress') = Len(progress) - 1
          BY <4>1 DEF DeleteProgress, TypeOK
        <5>2. j \in 1..Len(progress) /\ j + 1 \in 1..Len(progress)
          BY <5>1 DEF AutoRows, TypeOK
        <5>3. progress'[j] = progress[j] \/ progress'[j] = progress[j + 1]
          BY <4>1, <4>2, <5>1 DEF DeleteProgress, AutoRows
        <5> QED
          BY <4>2, <5>2, <5>3 DEF AutoRows
      <4> QED
        BY <4>2
    <3>2. CASE StaffProgressRow
      <4> DEFINE row == [order |-> ctx[Office].order, kind |-> ctx[Office].kind,
                         auto |-> FALSE]
      <4>1. progress' = Append(progress, row) /\ row.auto = FALSE
        BY <3>2 DEF StaffProgressRow
      <4> HIDE DEF row
      <4>2. /\ Len(progress') = Len(progress) + 1
            /\ \A j \in 1..Len(progress) : progress'[j] = progress[j]
            /\ progress'[Len(progress) + 1] = row
        BY <4>1 DEF TypeOK
      <4>3. ASSUME NEW j \in AutoRows'
            PROVE  AutoRows # {}
        <5>1. j \in 1..(Len(progress) + 1) /\ j # Len(progress) + 1
          BY <4>1, <4>2, <4>3 DEF AutoRows
        <5>2. j \in 1..Len(progress)
          BY <5>1 DEF TypeOK
        <5> QED
          BY <4>2, <4>3, <5>2 DEF AutoRows
      <4> QED
        BY <4>3
    <3>3. CASE UNCHANGED progress
      BY <3>3 DEF AutoRows
    <3> QED
      BY <1>5, <3>1, <3>2, <3>3 DEF StaffAction, StaffUpload, RemoveDocument,
           PatchDocument, CreateRequest, DeleteRequest, StaffProgress,
           UpdateState
  <2> QED
    BY <2>1, <2>2, <2>3, <2>4, EverFrame
<1>6. CASE UNCHANGED vars
  BY <1>6 DEF vars, EverInv, AdvanceHadEveryDocument, AutoRows
<1>7. CASE EnsureAction
  BY <1>7, EnsureLeaves DEF EverInv, AdvanceHadEveryDocument, AutoRows
<1> QED
  BY <1>2, <1>3, <1>4, <1>5, <1>6, <1>7 DEF Next

\* The automatic progress row is only ever added to a claim in which every
\* passenger has at some time had a document in every group.
THEOREM AdvanceSound == Spec => []AdvanceHadEveryDocument
<1>1. EverInv => AdvanceHadEveryDocument
  BY DEF EverInv
<1> QED
  BY <1>1, InitType, NextType, EverInit, EverNext, PTL DEF Spec
-----------------------------------------------------------------------------
(* No signature is lost.  The mark comes last, so the assignment has to be  *)
(* accounted for from the step at which the mark becomes certain.           *)

Ready(h) == pc[h] = "sign" \/ (pc[h] = "close" /\ ctx[h].op = "customerSign")
Judging == {"save", "check", "requests", "advance"}

SignInv ==
  /\ SignatureAccounted
  /\ \A h \in Handlers : Ready(h) => Accounted(ctx[h].passenger)
  /\ \A h \in Handlers : pc[h] \in Judging => ctx[h].op \in {"upload", "job"}
  /\ pc[Assigner] = "save" => ctx[Assigner].todo = {"Assignment"}

LEMMA SignInit == Init => SignInv
  BY HandlerNames DEF Init, SignInv, SignatureAccounted, Ready, Judging

\* A step of handler h keeps SignInv when it keeps what is accounted for and
\* leaves h itself in order.
LEMMA SignFrame ==
  ASSUME TypeOK, TypeOK', SignInv, NEW h \in Handlers,
         \A k \in Handlers \ {h} : pc'[k] = pc[k] /\ ctx'[k] = ctx[k],
         \A p \in Passengers : Accounted(p) => Accounted(p)',
         \A p \in signed' \ signed : Accounted(p),
         Ready(h)' => Accounted(ctx[h].passenger)' /\ ctx'[h].passenger = ctx[h].passenger,
         pc'[h] \in Judging => ctx'[h].op \in {"upload", "job"},
         h = Assigner /\ pc'[h] = "save" => ctx'[h].todo = {"Assignment"}
  PROVE  SignInv'
<1>1. signed \subseteq Passengers /\ signed' \subseteq Passengers
  BY DEF TypeOK
<1>2. SignatureAccounted'
  BY <1>1 DEF SignInv, SignatureAccounted
<1>3. ASSUME NEW k \in Handlers, Ready(k)'
      PROVE  Accounted(ctx[k].passenger)' /\ ctx'[k].passenger = ctx[k].passenger
  <2>1. CASE k = h
    BY <1>3, <2>1
  <2>2. CASE k # h
    <3>1. Ready(k) /\ ctx'[k] = ctx[k]
      BY <1>3, <2>2 DEF Ready
    <3>2. ctx[k].passenger \in Passengers
      BY DEF TypeOK, Contexts
    <3> QED
      BY <3>1, <3>2 DEF SignInv
  <2> QED
    BY <2>1, <2>2
<1>4. \A k \in Handlers : Ready(k)' => Accounted(ctx[k].passenger)'
  BY <1>3
<1>5. \A k \in Handlers : pc'[k] \in Judging => ctx'[k].op \in {"upload", "job"}
  BY DEF SignInv
<1>6. pc'[Assigner] = "save" => ctx'[Assigner].todo = {"Assignment"}
  BY HandlerNames DEF SignInv
<1> QED
  BY <1>2, <1>4, <1>5, <1>6 DEF SignInv
\* What is accounted for stays so while nothing is taken away.
LEMMA AccountedKept ==
  ASSUME ever \subseteq ever', lost \subseteq lost', UNCHANGED queue,
         pc[Assigner] = "save" => /\ pc'[Assigner] = "save"
                                  /\ ctx'[Assigner] = ctx[Assigner]
  PROVE  \A p \in Passengers : Accounted(p) => Accounted(p)'
  BY DEF Accounted

LEMMA SignClient ==
  ASSUME TypeOK, TypeOK', SignInv, NEW h \in Http, ClientRequest(h)
  PROVE  SignInv'
<1>1. h \in Handlers /\ h # Assigner /\ Assigner \in Handlers
  BY HandlerNames
<1>2. UNCHANGED <<ever, lost, queue, signed>>
  BY DEF ClientRequest, BeginUpload, BeginPassengerUpload, FormUpload,
         BeginCustomerSign, BeginPassengerSign, BeginFormSign
<1>3. PICK step \in Steps, context \in Contexts :
        /\ Start(h, step, context)
        /\ \/ step = "save" /\ context.op = "upload"
           \/ step = "enqueue"
           \/ step = "close" /\ context.op = "passengerSign"
  <2>1. ctx'[h] \in Contexts /\ pc'[h] \in Steps
    BY <1>1 DEF TypeOK
  <2>2. /\ Start(h, pc'[h], ctx'[h])
        /\ \/ pc'[h] = "save" /\ ctx'[h].op = "upload"
           \/ pc'[h] = "enqueue"
           \/ pc'[h] = "close" /\ ctx'[h].op = "passengerSign"
    <3>0. pc \in [Handlers -> Steps] /\ ctx \in [Handlers -> Contexts]
      BY DEF TypeOK
    <3>1. ASSUME NEW s, NEW r, BeginUpload(h, s, r)
          PROVE  /\ Start(h, pc'[h], ctx'[h])
                 /\ pc'[h] = "save" /\ ctx'[h].op = "upload"
      BY <1>1, <3>0, <3>1 DEF BeginUpload, Start, Free
    <3>2. ASSUME NEW p, NEW groups,
                 BeginPassengerUpload(h, p, groups) \/ FormUpload(h, p, groups)
          PROVE  /\ Start(h, pc'[h], ctx'[h])
                 /\ pc'[h] = "save" /\ ctx'[h].op = "upload"
      BY <1>1, <3>0, <3>2 DEF BeginPassengerUpload, FormUpload, Start, Free
    <3>3. ASSUME NEW r, BeginCustomerSign(h, r) \/ BeginFormSign(h)
          PROVE  Start(h, pc'[h], ctx'[h]) /\ pc'[h] = "enqueue"
      BY <1>1, <3>0, <3>3 DEF BeginCustomerSign, BeginFormSign, Start
    <3>4. ASSUME NEW p, NEW r, BeginPassengerSign(h, p, r)
          PROVE  /\ Start(h, pc'[h], ctx'[h])
                 /\ \/ pc'[h] = "enqueue"
                    \/ pc'[h] = "close" /\ ctx'[h].op = "passengerSign"
      BY <1>1, <3>0, <3>4 DEF BeginPassengerSign, Start, Free
    <3> QED
      BY <3>1, <3>2, <3>3, <3>4 DEF ClientRequest
  <2> QED
    BY <2>1, <2>2
<1>4. /\ pc'[h] = step /\ ctx'[h] = context
      /\ \A k \in Handlers \ {h} : pc'[k] = pc[k] /\ ctx'[k] = ctx[k]
  BY <1>1, <1>3 DEF Start, TypeOK
<1>5. \A p \in Passengers : Accounted(p) => Accounted(p)'
  BY <1>1, <1>2, <1>4, AccountedKept
<1>6. ~Ready(h)' /\ (pc'[h] \in Judging => ctx'[h].op \in {"upload", "job"})
  BY <1>3, <1>4 DEF Ready, Judging
<1> QED
  BY <1>1, <1>2, <1>4, <1>5, <1>6, SignFrame

LEMMA SignHandler ==
  ASSUME TypeOK, TypeOK', SignInv, NEW h \in Http \cup {Assigner},
         HandlerStep(h)
  PROVE  SignInv'
<1>1. h \in Handlers /\ Assigner \in Handlers
  BY HandlerNames
<1>2. ctx[h] \in Contexts
  BY <1>1 DEF TypeOK
<1>3. ever \subseteq ever' /\ lost = lost'
  BY DEF HandlerStep, SaveDocument, ReadClaim, ReadRequests, Advance,
         CloseRequest, Enqueue, Sign
<1>0. pc \in [Handlers -> Steps] /\ ctx \in [Handlers -> Contexts]
  BY DEF TypeOK
<1>4. \A k \in Handlers \ {h} : pc'[k] = pc[k] /\ ctx'[k] = ctx[k]
  <2>1. CASE SaveDocument(h)
    BY <1>0, <1>1, <2>1 DEF SaveDocument, Goto
  <2>2. CASE ReadClaim(h)
    BY <1>0, <1>1, <2>2 DEF ReadClaim
  <2>3. CASE ReadRequests(h) \/ Advance(h) \/ CloseRequest(h) \/ Enqueue(h)
             \/ Sign(h)
    <3>1. \E step : Goto(h, step)
      BY <2>3 DEF ReadRequests, Advance, CloseRequest, Enqueue, Sign
    <3> QED
      BY <1>0, <1>1, <3>1 DEF Goto
  <2> QED
    BY <2>1, <2>2, <2>3 DEF HandlerStep
<1>5. CASE SaveDocument(h)
  <2>1. PICK g \in ctx[h].todo :
          /\ ever' = ever \cup {<<ctx[h].passenger, g>>}
          /\ IF ctx[h].todo \ {g} = {} THEN Goto(h, AfterSave(h))
             ELSE /\ ctx' = [ctx EXCEPT ![h].todo = ctx[h].todo \ {g}]
                  /\ pc' = pc
    BY <1>5 DEF SaveDocument
  <2>2. UNCHANGED <<queue, signed>> /\ pc[h] = "save"
    BY <1>5 DEF SaveDocument
  <2>3. pc'[h] \in {"save", "check", "idle"}
    BY <1>1, <2>1, <2>2 DEF Goto, AfterSave, TypeOK
  <2>4. pc'[h] # "idle" => ctx'[h].op = ctx[h].op
    <3>1. [ctx[h] EXCEPT !.todo = ctx[h].todo \ {g}].op = ctx[h].op
      BY <1>2 DEF Contexts
    <3> QED
      BY <1>0, <1>1, <2>1, <3>1 DEF Goto
  <2>5. h = Assigner => g = "Assignment" /\ pc'[h] # "save"
    <3>1. h = Assigner => ctx[h].todo = {"Assignment"}
      BY <2>2 DEF SignInv
    <3> QED
      BY <1>1, <2>1, <3>1 DEF Goto, AfterSave, TypeOK
  <2>6. \A p \in Passengers : Accounted(p) => Accounted(p)'
    <3>1. CASE h = Assigner
      BY <1>3, <2>1, <2>2, <2>5, <3>1 DEF Accounted
    <3>2. CASE h # Assigner
      BY <1>1, <1>3, <1>4, <2>2, <3>2, AccountedKept
    <3> QED
      BY <3>1, <3>2
  <2>7. pc'[h] \in Judging => ctx'[h].op \in {"upload", "job"}
    BY <1>1, <2>2, <2>3, <2>4 DEF SignInv, Judging
  <2>8. ~Ready(h)'
    BY <2>3 DEF Ready
  <2> QED
    BY <1>1, <1>4, <2>2, <2>5, <2>6, <2>7, <2>8, SignFrame
<1>6. CASE ReadClaim(h) \/ ReadRequests(h) \/ Advance(h)
  <2>1. UNCHANGED <<queue, signed>>
        /\ pc[h] \in {"check", "requests", "advance"}
    BY <1>6 DEF ReadClaim, ReadRequests, Advance
  <2>2. pc'[h] \in {"requests", "advance", "close", "idle"}
    BY <1>1, <1>6 DEF ReadClaim, ReadRequests, Advance, Goto, AfterCheck, TypeOK
  <2>3. pc'[h] # "idle" => ctx'[h].op = ctx[h].op
    <3>1. CASE ReadClaim(h)
      <4>1. \/ ctx'[h] = Free /\ pc'[h] = "idle"
            \/ ctx'[h] = [ctx[h] EXCEPT !.order = LastOrder,
                                        !.epoch = spent["staff"]]
        BY <1>1, <3>1 DEF ReadClaim, TypeOK
      <4> QED
        BY <1>2, <4>1 DEF Contexts
    <3>2. CASE ReadRequests(h) \/ Advance(h)
      <4>1. \E step : Goto(h, step)
        BY <3>2 DEF ReadRequests, Advance
      <4> QED
        BY <1>1, <4>1 DEF Goto, TypeOK
    <3> QED
      BY <1>6, <3>1, <3>2
  <2>4. ctx[h].op \in {"upload", "job"}
    BY <1>1, <2>1 DEF SignInv, Judging
  <2>5. ~Ready(h)' /\ pc'[h] # "save"
    BY <2>2, <2>3, <2>4 DEF Ready
  <2>6. \A p \in Passengers : Accounted(p) => Accounted(p)'
    BY <1>1, <1>3, <1>4, <2>1, AccountedKept
  <2>7. pc'[h] \in Judging => ctx'[h].op \in {"upload", "job"}
    BY <2>2, <2>3, <2>4 DEF Judging
  <2> QED
    BY <1>1, <1>4, <2>1, <2>5, <2>6, <2>7, SignFrame
<1>7. CASE CloseRequest(h)
  <2>1. UNCHANGED <<queue, signed>> /\ pc[h] = "close"
    BY <1>7 DEF CloseRequest
  <2>2. pc'[h] = AfterClose(h)
    BY <1>1, <1>7 DEF CloseRequest, Goto, TypeOK
  <2>3. pc'[h] # "idle" => ctx'[h] = ctx[h]
    BY <1>1, <1>7, <2>2 DEF CloseRequest, Goto, TypeOK
  <2>4. pc'[h] \in {"enqueue", "sign", "idle"}
        /\ (pc'[h] = "sign" => ctx[h].op = "customerSign")
    BY <2>2 DEF AfterClose
  <2>5. \A p \in Passengers : Accounted(p) => Accounted(p)'
    BY <1>1, <1>3, <1>4, <2>1, AccountedKept
  <2>6. Ready(h)' => Accounted(ctx[h].passenger)' /\ ctx'[h].passenger = ctx[h].passenger
    <3>1. Ready(h)' => Ready(h) /\ ctx'[h] = ctx[h]
      BY <2>1, <2>3, <2>4 DEF Ready
    <3>2. Ready(h) => Accounted(ctx[h].passenger)
      BY <1>1 DEF SignInv
    <3>3. ctx[h].passenger \in Passengers
      BY <1>2 DEF Contexts
    <3>4. Accounted(ctx[h].passenger) =>
            \A q \in Passengers : q = ctx[h].passenger => Accounted(q)'
      BY <2>5
    <3> QED
      BY <3>1, <3>2, <3>3, <3>4
  <2>7. pc'[h] \notin Judging
    BY <2>4 DEF Judging
  <2> QED
    BY <1>1, <1>4, <2>1, <2>4, <2>5, <2>6, <2>7, SignFrame
<1>8. CASE Enqueue(h)
  <2> DEFINE job == [passenger |-> ctx[h].passenger, check |-> ctx[h].check]
  <2>1. /\ UNCHANGED signed
        /\ pc[h] = "enqueue"
        /\ queue' = Append(queue, job)
    BY <1>8 DEF Enqueue
  <2>2. job.passenger = ctx[h].passenger
    OBVIOUS
  <2> HIDE DEF job
  <2>3. /\ Len(queue') = Len(queue) + 1
        /\ \A i \in 1..Len(queue) : queue'[i] = queue[i]
        /\ queue'[Len(queue) + 1] = job
        /\ Len(queue) \in Nat
    BY <2>1 DEF TypeOK
  <2>4. pc'[h] \in {"close", "sign"} /\ ctx' = ctx
    BY <1>1, <1>8 DEF Enqueue, Goto, AfterEnqueue, TypeOK
  <2>5. \A p \in Passengers : Accounted(p) => Accounted(p)'
    <3>1. \A p : (\E i \in 1..Len(queue) : queue[i].passenger = p) =>
                 (\E i \in 1..Len(queue') : queue'[i].passenger = p)
      BY <2>3
    <3>2. pc[Assigner] = "save" => pc'[Assigner] = "save"
      BY <1>1, <1>4, <2>1
    <3> QED
      BY <1>3, <2>4, <3>1, <3>2 DEF Accounted
  <2>6. Accounted(ctx[h].passenger)'
    <3>1. \E i \in 1..Len(queue') : queue'[i].passenger = ctx[h].passenger
      BY <2>2, <2>3
    <3> QED
      BY <2>4, <3>1 DEF Accounted
  <2>7. pc'[h] \notin Judging
    BY <2>4 DEF Judging
  <2> QED
    BY <1>1, <1>4, <2>1, <2>4, <2>5, <2>6, <2>7, SignFrame
<1>9. CASE Sign(h)
  <2>1. /\ UNCHANGED queue
        /\ pc[h] = "sign"
        /\ signed' = signed \cup {ctx[h].passenger}
    BY <1>9 DEF Sign
  <2>2. pc'[h] = "idle"
    BY <1>1, <1>9 DEF Sign, Goto, TypeOK
  <2>3. \A p \in Passengers : Accounted(p) => Accounted(p)'
    BY <1>1, <1>3, <1>4, <2>1, AccountedKept
  <2>4. \A p \in signed' \ signed : Accounted(p)
    BY <1>1, <2>1 DEF SignInv, Ready
  <2>5. ~Ready(h)' /\ pc'[h] \notin Judging
    BY <2>2 DEF Ready, Judging
  <2> QED
    BY <1>1, <1>4, <2>2, <2>3, <2>4, <2>5, SignFrame
<1> QED
  BY <1>5, <1>6, <1>7, <1>8, <1>9 DEF HandlerStep

LEMMA SignWorker ==
  ASSUME TypeOK, TypeOK', SignInv, TakeJob \/ JobThrows
  PROVE  SignInv'
<1>1. Assigner \in Handlers
  BY HandlerNames
<1>2. UNCHANGED <<ever, signed>>
  BY DEF TakeJob, JobThrows
<1>3. \A k \in Handlers \ {Assigner} : pc'[k] = pc[k] /\ ctx'[k] = ctx[k]
  BY <1>1 DEF TakeJob, JobThrows, Start, Goto, TypeOK
<1>4. CASE TakeJob
  <2> DEFINE context == [Free EXCEPT !.op = "job",
                           !.passenger = Head(queue).passenger,
                           !.todo = {"Assignment"}, !.check = Head(queue).check]
  <2>1. /\ queue # <<>> /\ queue' = Tail(queue) /\ lost' = lost
        /\ pc[Assigner] = "idle" /\ pc'[Assigner] = "save"
        /\ ctx'[Assigner] = context
    BY <1>1, <1>4 DEF TakeJob, Start, TypeOK
  <2>2. /\ context.op = "job" /\ context.todo = {"Assignment"}
        /\ context.passenger = Head(queue).passenger
    BY DEF Free
  <2> HIDE DEF context
  <2>3. \A i \in 1..Len(queue) : i = 1 \/ i - 1 \in 1..Len(queue')
    BY <2>1 DEF TypeOK
  <2>4. \A i \in 1..Len(queue) : i # 1 => queue'[i - 1] = queue[i]
    BY <2>1 DEF TypeOK
  <2>5. Head(queue) = queue[1]
    BY <2>1 DEF TypeOK
  <2>6. ASSUME NEW p \in Passengers, Accounted(p)
        PROVE  Accounted(p)'
    <3>1. CASE <<p, "Assignment">> \in ever \/ p \in lost
      BY <1>2, <2>1, <3>1 DEF Accounted
    <3>2. CASE \E i \in 1..Len(queue) : queue[i].passenger = p
      <4>1. PICK i \in 1..Len(queue) : queue[i].passenger = p
        BY <3>2
      <4>2. CASE i = 1
        BY <2>1, <2>2, <2>5, <4>1, <4>2 DEF Accounted
      <4>3. CASE i # 1
        BY <2>3, <2>4, <4>1, <4>3 DEF Accounted
      <4> QED
        BY <4>2, <4>3
    <3> QED
      BY <2>1, <2>6, <3>1, <3>2 DEF Accounted
  <2>7. ~Ready(Assigner)'
    BY <2>1 DEF Ready
  <2> QED
    BY <1>1, <1>2, <1>3, <2>1, <2>2, <2>6, <2>7, SignFrame
<1>5. CASE JobThrows
  <2>1. /\ pc'[Assigner] = "idle"
        /\ lost' = lost \cup {ctx[Assigner].passenger} /\ queue' = queue
    BY <1>1, <1>5 DEF JobThrows, Goto, TypeOK
  <2>2. \A p \in Passengers : Accounted(p) => Accounted(p)'
    BY <1>2, <2>1 DEF Accounted
  <2>3. ~Ready(Assigner)' /\ pc'[Assigner] \notin Judging
    BY <2>1 DEF Ready, Judging
  <2> QED
    BY <1>1, <1>2, <1>3, <2>1, <2>2, <2>3, SignFrame
<1> QED
  BY <1>4, <1>5

LEMMA SignThrows ==
  ASSUME TypeOK, TypeOK', SignInv, NEW h \in Http, HandlerThrows(h)
  PROVE  SignInv'
<1>1. h \in Handlers /\ h # Assigner /\ Assigner \in Handlers
  BY HandlerNames
<1>2. UNCHANGED <<ever, lost, queue, signed>>
  BY DEF HandlerThrows
<1>3. /\ pc'[h] = "idle"
      /\ \A k \in Handlers \ {h} : pc'[k] = pc[k] /\ ctx'[k] = ctx[k]
  BY <1>1 DEF HandlerThrows, Goto, TypeOK
<1>4. \A p \in Passengers : Accounted(p) => Accounted(p)'
  BY <1>1, <1>2, <1>3, AccountedKept
<1>5. ~Ready(h)' /\ pc'[h] \notin Judging
  BY <1>3 DEF Ready, Judging
<1> QED
  BY <1>1, <1>2, <1>3, <1>4, <1>5, SignFrame

LEMMA SignCrash ==
  ASSUME TypeOK, TypeOK', SignInv, Crash
  PROVE  SignInv'
<1>1. /\ \A h \in Handlers : pc'[h] = "idle"
      /\ UNCHANGED <<ever, signed>>
      /\ lost \subseteq lost'
  BY DEF Crash
<1> DEFINE job == [passenger |-> ctx[Assigner].passenger,
                   check |-> ctx[Assigner].check]
<1>2. \/ pc[Assigner] = "idle" /\ queue' = queue
      \/ pc[Assigner] # "idle" /\ queue' = <<job>> \o queue
      \/ ctx[Assigner].passenger \in lost' /\ queue' = queue
  BY DEF Crash
<1>3. job.passenger = ctx[Assigner].passenger
  OBVIOUS
<1>4. job \in Jobs
  BY HandlerNames DEF TypeOK, Contexts, Jobs
<1> HIDE DEF job
<1>5. \A p : (\E i \in 1..Len(queue) : queue[i].passenger = p) =>
             (\E i \in 1..Len(queue') : queue'[i].passenger = p)
  <2>1. CASE queue' = queue
    BY <2>1
  <2>2. CASE queue' = <<job>> \o queue
    <3>1. \A i \in 1..Len(queue) : /\ i + 1 \in 1..Len(queue')
                                   /\ queue'[i + 1] = queue[i]
      BY <1>4, <2>2 DEF TypeOK
    <3> QED
      BY <3>1
  <2> QED
    BY <1>2, <2>1, <2>2
<1>6. pc[Assigner] = "save" =>
        \/ \E i \in 1..Len(queue') : queue'[i].passenger = ctx[Assigner].passenger
        \/ ctx[Assigner].passenger \in lost'
  <2> SUFFICES ASSUME queue' = <<job>> \o queue
               PROVE  1 \in 1..Len(queue') /\ queue'[1] = job
    BY <1>2, <1>3
  <2> QED
    BY <1>4 DEF TypeOK
<1>7. \A p : Accounted(p) => Accounted(p)'
  BY <1>1, <1>5, <1>6 DEF Accounted
<1>8. SignatureAccounted'
  BY <1>1, <1>7 DEF SignInv, SignatureAccounted
<1> QED
  BY <1>1, <1>8, HandlerNames DEF SignInv, Ready, Judging

LEMMA SignStaff ==
  ASSUME TypeOK, TypeOK', SignInv, StaffAction \/ StaffProgressRow
  PROVE  SignInv'
<1>1. Office \in Handlers /\ Assigner \in Handlers /\ Assigner # Office
  BY HandlerNames
<1>2. ever \subseteq ever' /\ UNCHANGED <<lost, queue, signed>>
  BY DEF StaffAction, StaffUpload, RemoveDocument, PatchDocument,
         CreateRequest, DeleteRequest, StaffProgress, DeleteProgress,
         UpdateState, StaffProgressRow
<1>3. \/ pc' = pc /\ ctx' = ctx
      \/ /\ \A k \in Handlers \ {Office} : pc'[k] = pc[k] /\ ctx'[k] = ctx[k]
         /\ pc'[Office] \in {"row", "idle"}
  BY <1>1 DEF StaffAction, StaffUpload, RemoveDocument, PatchDocument,
         CreateRequest, DeleteRequest, StaffProgress, DeleteProgress,
         UpdateState, StaffProgressRow, Start, Goto, TypeOK
<1>4. \A k \in Handlers \ {Office} : pc'[k] = pc[k] /\ ctx'[k] = ctx[k]
  BY <1>3
<1>5. \A p \in Passengers : Accounted(p) => Accounted(p)'
  BY <1>1, <1>2, <1>4, AccountedKept
<1>6. CASE pc' = pc /\ ctx' = ctx
  <2>1. Ready(Office)' => Accounted(ctx[Office].passenger)' /\ ctx'[Office].passenger = ctx[Office].passenger
    <3>1. ctx[Office].passenger \in Passengers
      BY <1>1 DEF TypeOK, Contexts
    <3>2. Ready(Office)' => Ready(Office)
      BY <1>6 DEF Ready
    <3>3. Ready(Office) => Accounted(ctx[Office].passenger)
      BY <1>1 DEF SignInv
    <3>4. \A q \in Passengers : q = ctx'[Office].passenger /\ Accounted(q) => Accounted(q)'
      BY <1>5
    <3> QED
      BY <1>6, <3>1, <3>2, <3>3, <3>4
  <2>2. pc'[Office] \in Judging => ctx'[Office].op \in {"upload", "job"}
    BY <1>1, <1>6 DEF SignInv
  <2> QED
    BY <1>1, <1>2, <1>4, <1>5, <2>1, <2>2, SignFrame
<1>7. CASE pc'[Office] \in {"row", "idle"}
  <2>1. ~Ready(Office)' /\ pc'[Office] \notin Judging
    BY <1>7 DEF Ready, Judging
  <2> QED
    BY <1>1, <1>2, <1>4, <1>5, <2>1, SignFrame
<1> QED
  BY <1>3, <1>6, <1>7

LEMMA SignNext == TypeOK /\ TypeOK' /\ SignInv /\ [Next]_vars => SignInv'
<1> SUFFICES ASSUME TypeOK, TypeOK', SignInv, [Next]_vars
             PROVE  SignInv'
  OBVIOUS
<1>1. CASE Next /\ ~EnsureAction
  BY <1>1, SignClient, SignHandler, SignThrows, SignWorker, SignCrash,
     SignStaff DEF Next
<1>2. CASE EnsureAction
  BY <1>2, EnsureLeaves DEF SignInv, SignatureAccounted, Accounted, Ready
<1>3. CASE UNCHANGED vars
  BY <1>3 DEF vars, SignInv, SignatureAccounted, Accounted, Ready
<1> QED
  BY <1>1, <1>2, <1>3

\* A passenger shown as signed has an assignment that was stored, is on its
\* way, or was lost in one of two places: the processor that swallows an error,
\* or the queue that gives up a job which stalled twice.
THEOREM SignaturesKept == Spec => []SignatureAccounted
<1>1. SignInv => SignatureAccounted
  BY DEF SignInv
<1> QED
  BY <1>1, InitType, NextType, SignInit, SignNext, PTL DEF Spec
-----------------------------------------------------------------------------
(* An advance is right when it commits.  The epoch a check noted is the     *)
(* number of steps of the back office at its read.  While it is still the   *)
(* number, only clients, the workers and other checks have moved, and these *)
(* add documents, close requests and announce the advance themselves; the   *)
(* ensure job, which opens requests, marks every check it may have crossed. *)

Checkers == Http \cup {Assigner}
Deciding == {"requests", "advance"}
Welcome  == status \in Eligible \/ AlreadyAdvanced
Unasked(h) == OpenRequests = {} \/ h \in crossed

Judged(h) ==
  pc[h] \in Deciding =>
    /\ ctx[h].epoch <= spent["staff"]
    /\ ctx[h].epoch = spent["staff"] =>
         /\ AllDocumentsPresent
         /\ pc[h] = "advance" => Unasked(h)
         /\ Welcome

CommitInv == \A h \in Checkers : Judged(h)

\* No handler decides at first.
LEMMA CommitInit == Init => CommitInv
  BY HandlerNames DEF Init, CommitInv, Judged, Checkers, Deciding

\* Only the two reads of the check take a handler into a decision.
LEMMA StillDeciding ==
  ASSUME TypeOK, [Next]_vars, NEW k \in Checkers, pc'[k] \in Deciding,
         ~ReadClaim(k), ~ReadRequests(k)
  PROVE  pc'[k] = pc[k] /\ ctx'[k] = ctx[k]
<1>1. k \in Handlers /\ k # Office /\ Assigner \in Handlers
      /\ Office \in Handlers
  BY HandlerNames DEF Checkers
<1>2. ASSUME NEW h \in Http, ClientRequest(h)
      PROVE  pc'[k] = pc[k] /\ ctx'[k] = ctx[k]
  <2>1. PICK step \in {"save", "enqueue", "close"} :
          /\ pc' = [pc EXCEPT ![h] = step]
          /\ \E context : ctx' = [ctx EXCEPT ![h] = context]
    BY <1>2 DEF ClientRequest, BeginUpload, BeginPassengerUpload, FormUpload,
                BeginCustomerSign, BeginPassengerSign, BeginFormSign, Start
  <2> QED
    BY <1>1, <2>1, HandlerNames DEF TypeOK, Deciding
<1>3. ASSUME NEW h \in Checkers, HandlerStep(h)
      PROVE  pc'[k] = pc[k] /\ ctx'[k] = ctx[k]
  <2>1. h \in Handlers
    BY HandlerNames DEF Checkers
  <2>2. CASE h = k
    <3>1. pc'[k] \notin Deciding
      <4>1. CASE SaveDocument(k)
        <5>1. pc'[k] = "save" \/ pc'[k] = AfterSave(k)
          BY <1>1, <4>1 DEF SaveDocument, Goto, TypeOK
        <5> QED
          BY <5>1 DEF AfterSave, Deciding
      <4>2. CASE Advance(k) \/ CloseRequest(k) \/ Enqueue(k) \/ Sign(k)
        BY <1>1, <4>2 DEF Advance, CloseRequest, Enqueue, Sign, Goto, TypeOK,
             AfterCheck, AfterClose, AfterEnqueue, Deciding
      <4> QED
        BY <1>3, <2>2, <4>1, <4>2 DEF HandlerStep
    <3> QED
      BY <3>1
  <2>3. CASE h # k
    BY <1>1, <1>3, <2>1, <2>3 DEF TypeOK, HandlerStep, SaveDocument, ReadClaim,
         ReadRequests, Advance, CloseRequest, Enqueue, Sign, Goto
  <2> QED
    BY <2>2, <2>3
<1>4. ASSUME NEW h \in Http, HandlerThrows(h)
      PROVE  pc'[k] = pc[k] /\ ctx'[k] = ctx[k]
  BY <1>1, <1>4, HandlerNames DEF HandlerThrows, Goto, TypeOK, Deciding
<1>5. CASE TakeJob \/ JobThrows \/ Crash
  BY <1>1, <1>5 DEF TakeJob, JobThrows, Crash, Start, Goto, TypeOK, Deciding
<1>6. CASE StaffAction \/ StaffProgressRow
  BY <1>1, <1>6 DEF StaffAction, StaffUpload, RemoveDocument, PatchDocument,
       CreateRequest, DeleteRequest, StaffProgress, DeleteProgress,
       UpdateState, StaffProgressRow, Start, Goto, TypeOK
<1>7. CASE UNCHANGED vars
  BY <1>7 DEF vars
<1>8. CASE EnsureAction
  BY <1>8, EnsureLeaves
<1> QED
  BY <1>2, <1>3, <1>4, <1>5, <1>6, <1>7, <1>8 DEF Next, Checkers

\* Appending a row keeps the ones that are there.
LEMMA AppendRow ==
  ASSUME TypeOK, NEW row, progress' = Append(progress, row)
  PROVE  /\ Len(progress) \in Nat
         /\ Len(progress') = Len(progress) + 1
         /\ \A i \in 1..Len(progress) : progress'[i] = progress[i]
         /\ progress'[Len(progress) + 1] = row
         /\ AlreadyAdvanced => AlreadyAdvanced'
<1>1. /\ Len(progress) \in Nat
      /\ Len(progress') = Len(progress) + 1
      /\ \A i \in 1..Len(progress) : progress'[i] = progress[i]
      /\ progress'[Len(progress) + 1] = row
  BY DEF TypeOK
<1> QED
  BY <1>1 DEF AlreadyAdvanced

\* What the others leave of a claim a check has read.
Kinder ==
  /\ spent'["staff"] = spent["staff"]
  /\ AllDocumentsPresent => AllDocumentsPresent'
  /\ \A h \in Checkers : pc[h] = "advance" /\ Unasked(h) => Unasked(h)'
  /\ Welcome => Welcome'

\* An action of the back office is counted, any other step is kind.
LEMMA KindOrCounted ==
  ASSUME TypeOK, TypeOK', [Next]_vars
  PROVE  Kinder \/ spent'["staff"] = spent["staff"] + 1
<1>0. {"client", "staff", "ensure", "crash", "failure"} \subseteq Events
  BY DEF Events
<1>1. CASE StaffAction
  <2>1. Spend("staff")
    BY <1>1 DEF StaffAction, StaffUpload, RemoveDocument, PatchDocument,
         CreateRequest, DeleteRequest, StaffProgress, DeleteProgress,
         UpdateState
  <2> QED
    BY <1>0, <2>1 DEF Spend, TypeOK
<1>2. CASE \/ \E h \in Http : ClientRequest(h) \/ HandlerThrows(h)
           \/ TakeJob \/ JobThrows \/ Crash
  <2>1. UNCHANGED <<docs, requests, status, progress, crossed>>
    BY <1>2 DEF ClientRequest, BeginUpload, BeginPassengerUpload, FormUpload,
         BeginCustomerSign, BeginPassengerSign, BeginFormSign, HandlerThrows,
         TakeJob, JobThrows, Crash
  <2>2. \/ spent' = spent
        \/ Spend("client") \/ Spend("failure") \/ Spend("crash")
    BY <1>2 DEF ClientRequest, BeginUpload, BeginPassengerUpload, FormUpload,
         BeginCustomerSign, BeginPassengerSign, BeginFormSign, HandlerThrows,
         TakeJob, JobThrows, Crash
  <2>3. spent'["staff"] = spent["staff"]
    BY <1>0, <2>2 DEF Spend, TypeOK
  <2> QED
    BY <2>1, <2>3 DEF Kinder, AllDocumentsPresent, OpenRequests, Unasked,
         Welcome, AlreadyAdvanced
<1>3. CASE StaffProgressRow
  <2>1. /\ UNCHANGED <<docs, requests, status, spent, crossed>>
        /\ \E row : progress' = Append(progress, row)
    BY <1>3 DEF StaffProgressRow
  <2>2. AlreadyAdvanced => AlreadyAdvanced'
    BY <2>1, AppendRow
  <2> QED
    BY <2>1, <2>2 DEF Kinder, AllDocumentsPresent, OpenRequests, Unasked,
         Welcome
<1>4. ASSUME NEW h \in Checkers, HandlerStep(h)
      PROVE  Kinder
  <2>0. h \in Handlers /\ ctx[h] \in Contexts
    BY HandlerNames DEF Checkers, TypeOK
  <2>1. CASE SaveDocument(h)
    <3>1. UNCHANGED <<requests, status, progress, spent, crossed>>
      BY <2>1 DEF SaveDocument
    <3>2. PICK slot : docs' = [docs EXCEPT ![slot] = @ + 1]
      BY <2>1 DEF SaveDocument
    <3>3. AllDocumentsPresent => AllDocumentsPresent'
      BY <3>2 DEF AllDocumentsPresent, TypeOK
    <3> QED
      BY <3>1, <3>3 DEF Kinder, OpenRequests, Unasked, Welcome,
           AlreadyAdvanced
  <2>2. CASE Advance(h)
    <3>1. UNCHANGED <<docs, requests, spent, crossed>>
      BY <2>2 DEF Advance
    <3>2. Welcome => Welcome'
      <4>1. CASE ctx[h].order = 0
        BY <2>2, <4>1 DEF Advance, Welcome, AlreadyAdvanced
      <4>2. CASE ctx[h].order # 0
        <5> DEFINE row == [order |-> ctx[h].order + 1, kind |-> "docsReceived",
                           auto |-> TRUE]
        <5>1. progress' = Append(progress, row)
          BY <2>2, <4>2 DEF Advance
        <5>2. row.kind = "docsReceived"
          OBVIOUS
        <5> HIDE DEF row
        <5>3. /\ Len(progress) \in Nat
              /\ Len(progress') = Len(progress) + 1
              /\ progress'[Len(progress) + 1] = row
          BY <5>1, AppendRow
        <5>4. AlreadyAdvanced'
          BY <5>2, <5>3 DEF AlreadyAdvanced
        <5> QED
          BY <5>4 DEF Welcome
      <4> QED
        BY <4>1, <4>2
    <3> QED
      BY <3>1, <3>2 DEF Kinder, AllDocumentsPresent, OpenRequests, Unasked
  <2>3. CASE CloseRequest(h)
    <3>1. UNCHANGED <<docs, status, progress, spent, crossed>>
      BY <2>3 DEF CloseRequest
    <3>2. OpenRequests' \subseteq OpenRequests
      BY <2>3 DEF CloseRequest, OpenRequests, TypeOK
    <3> QED
      BY <3>1, <3>2 DEF Kinder, AllDocumentsPresent, Unasked, Welcome,
           AlreadyAdvanced
  <2>4. CASE ReadClaim(h) \/ ReadRequests(h) \/ Enqueue(h) \/ Sign(h)
    <3>1. UNCHANGED <<docs, requests, status, progress, spent>>
      BY <2>4 DEF ReadClaim, ReadRequests, Enqueue, Sign
    <3>2. \A k \in Checkers : pc[k] = "advance" /\ k \in crossed => k \in crossed'
      BY <2>4 DEF ReadClaim, ReadRequests, Enqueue, Sign
    <3> QED
      BY <3>1, <3>2 DEF Kinder, AllDocumentsPresent, OpenRequests, Unasked,
           Welcome, AlreadyAdvanced
  <2> QED
    BY <1>4, <2>1, <2>2, <2>3, <2>4 DEF HandlerStep
<1>5. CASE UNCHANGED vars
  BY <1>5 DEF vars, Kinder, AllDocumentsPresent, OpenRequests, Unasked,
       Welcome, AlreadyAdvanced
<1>6. CASE EnsureAction
  <2>1. spent'["staff"] = spent["staff"]
    <3>1. spent' = spent \/ Spend("ensure") \/ Spend("failure")
      BY <1>6 DEF EnsureAction, ScheduleEnsure, TakeEnsure,
           EnsureReadRequests, EnsureRequest, EnsureDone, EnsureThrows
    <3> QED
      BY <1>0, <3>1 DEF Spend, TypeOK
  <2>2. \A k \in Checkers : pc[k] = "advance" /\ Unasked(k) => Unasked(k)'
    <3>1. ASSUME NEW r, EnsureRequest(r), NEW k \in Checkers, pc[k] = "advance"
          PROVE  Unasked(k)'
      BY <3>1, HandlerNames DEF EnsureRequest, Unasked, Checkers
    <3>2. CASE ScheduleEnsure \/ TakeEnsure \/ EnsureReadRequests
               \/ EnsureDone \/ EnsureThrows
      <4>1. UNCHANGED <<requests, crossed>>
        BY <3>2 DEF ScheduleEnsure, TakeEnsure, EnsureReadRequests,
             EnsureDone, EnsureThrows
      <4> QED
        BY <4>1 DEF Unasked, OpenRequests
    <3> QED
      BY <1>6, <3>1, <3>2 DEF EnsureAction
  <2>3. UNCHANGED <<docs, status, progress>>
    BY <1>6, EnsureLeaves
  <2> QED
    BY <2>1, <2>2, <2>3 DEF Kinder, AllDocumentsPresent, Welcome,
         AlreadyAdvanced
<1> QED
  BY <1>1, <1>2, <1>3, <1>4, <1>5, <1>6 DEF Next, Checkers

LEMMA CommitNext == TypeOK /\ TypeOK' /\ CommitInv /\ [Next]_vars => CommitInv'
<1> SUFFICES ASSUME TypeOK, TypeOK', CommitInv, [Next]_vars, NEW k \in Checkers
             PROVE  Judged(k)'
  BY DEF CommitInv, Checkers
<1>1. k \in Handlers /\ ctx[k] \in Contexts /\ ctx'[k] \in Contexts
  BY HandlerNames DEF Checkers, TypeOK
<1>2. ctx[k].epoch \in Nat /\ spent["staff"] \in Nat
  BY <1>1 DEF Contexts, TypeOK, Events
<1>3. Judged(k)
  BY DEF CommitInv
<1>4. CASE ReadClaim(k)
  <2>1. UNCHANGED <<docs, requests, status, progress, spent>>
    BY <1>4 DEF ReadClaim
  <2>2. CASE pc'[k] \in Deciding
    <3>1. /\ pc'[k] = "requests" /\ AllDocumentsPresent
          /\ status \in Eligible
      BY <1>1, <1>4, <2>2 DEF ReadClaim, AfterCheck, Deciding, TypeOK
    <3>2. ctx'[k] = [ctx[k] EXCEPT !.order = LastOrder,
                                   !.epoch = spent["staff"]]
      BY <1>1, <1>4, <3>1 DEF ReadClaim, TypeOK
    <3>3. ctx'[k].epoch = spent["staff"]
      BY <1>1, <3>2 DEF Contexts
    <3>4. AllDocumentsPresent'
      BY <2>1, <3>1 DEF AllDocumentsPresent
    <3> QED
      BY <1>2, <2>1, <3>1, <3>3, <3>4 DEF Judged, Welcome
  <2> QED
    BY <2>2 DEF Judged
<1>5. CASE ReadRequests(k)
  <2>1. /\ UNCHANGED <<docs, requests, status, progress, spent>>
        /\ pc[k] = "requests"
    BY <1>5 DEF ReadRequests
  <2>2. CASE pc'[k] \in Deciding
    <3>1. pc'[k] = "advance" /\ OpenRequests = {} /\ ctx'[k] = ctx[k]
      BY <1>1, <1>5, <2>2 DEF ReadRequests, Goto, AfterCheck, Deciding, TypeOK
    <3>2. /\ AllDocumentsPresent' = AllDocumentsPresent
          /\ Unasked(k)' /\ Welcome' = Welcome
      BY <2>1, <3>1 DEF AllDocumentsPresent, OpenRequests, Unasked, Welcome,
           AlreadyAdvanced
    <3> QED
      BY <1>3, <2>1, <2>2, <3>1, <3>2 DEF Judged, Deciding
  <2> QED
    BY <2>2 DEF Judged
<1>6. CASE ~ReadClaim(k) /\ ~ReadRequests(k) /\ pc'[k] \in Deciding
  <2>1. pc'[k] = pc[k] /\ ctx'[k] = ctx[k]
    BY <1>6, StillDeciding
  <2>2. Kinder \/ spent'["staff"] = spent["staff"] + 1
    BY KindOrCounted
  <2>3. CASE Kinder
    BY <1>3, <1>6, <2>1, <2>3 DEF Kinder, Judged
  <2>4. CASE spent'["staff"] = spent["staff"] + 1
    BY <1>2, <1>3, <1>6, <2>1, <2>4 DEF Judged
  <2> QED
    BY <2>2, <2>3, <2>4
<1>7. CASE pc'[k] \notin Deciding
  BY <1>7 DEF Judged
<1> QED
  BY <1>4, <1>5, <1>6, <1>7

-----------------------------------------------------------------------------
(* How often the advance repeats.  A check starts to decide only while the  *)
(* list has no automatic row, when the handlers bound the checks; and a     *)
(* check that adds a row decides no more.                                   *)

\* The handlers that check documents are as many as the bound says.
LEMMA CheckersCount ==
  /\ IsFiniteSet(Checkers)
  /\ Cardinality(Checkers) = Cardinality(Http) + 1
  /\ Cardinality(Http) \in Nat
<1>1. IsFiniteSet(Http) /\ Assigner \notin Http
  BY HandlerAssumption
<1> QED
  BY <1>1, FS_AddElement, FS_CardinalityType DEF Checkers

\* Rows and checks that decide can be counted.
LEMMA Counts ==
  ASSUME TypeOK
  PROVE  /\ IsFiniteSet(AutoRows) /\ Cardinality(AutoRows) \in Nat
         /\ IsFiniteSet(Pending) /\ Cardinality(Pending) \in Nat
         /\ Cardinality(Pending) <= Cardinality(Http) + 1
<1>1. Len(progress) \in Nat
  BY DEF TypeOK
<1>2. IsFiniteSet(1..Len(progress))
  BY <1>1, FS_Interval
<1>3. AutoRows \in SUBSET (1..Len(progress))
  BY DEF AutoRows
<1>4. Pending \in SUBSET Checkers
  BY DEF Pending, Checkers
<1>5. IsFiniteSet(AutoRows)
  BY <1>2, <1>3, FS_Subset
<1>6. IsFiniteSet(Pending) /\ Cardinality(Pending) <= Cardinality(Checkers)
  BY <1>4, CheckersCount, FS_Subset
<1> QED
  BY <1>5, <1>6, CheckersCount, FS_CardinalityType

\* So can the automatic rows a step leaves.
LEMMA AutoRowsLater ==
  ASSUME TypeOK'
  PROVE  IsFiniteSet(AutoRows') /\ Cardinality(AutoRows') \in Nat
<1>1. Len(progress') \in Nat
  BY DEF TypeOK
<1>2. AutoRows' \in SUBSET (1..Len(progress'))
  BY DEF AutoRows
<1>3. IsFiniteSet(1..Len(progress'))
  BY <1>1, FS_Interval
<1>4. IsFiniteSet(AutoRows')
  BY <1>2, <1>3, FS_Subset
<1> QED
  BY <1>4, FS_CardinalityType

\* An appended row adds at most itself to the automatic ones, and a deleted
\* one leaves no more than there were.
LEMMA AppendedRows ==
  ASSUME TypeOK, TypeOK', NEW row, progress' = Append(progress, row)
  PROVE  /\ Cardinality(AutoRows') <= Cardinality(AutoRows) + 1
         /\ ~row.auto => AutoRows' = AutoRows
<1>1. /\ Len(progress) \in Nat
      /\ Len(progress') = Len(progress) + 1
      /\ \A i \in 1..Len(progress) : progress'[i] = progress[i]
      /\ progress'[Len(progress) + 1] = row
  BY AppendRow
<1> DEFINE n == Len(progress)
<1>2. n \in Nat /\ Len(progress') = n + 1
  BY <1>1
<1>3. \A i : i \in 1..Len(progress') <=> i \in 1..n \/ i = n + 1
  BY <1>2
<1>4. n + 1 \notin 1..n
  BY <1>2
<1>5. \A i \in 1..n : i \in AutoRows' <=> i \in AutoRows
  BY <1>1, <1>3 DEF AutoRows
<1>6. AutoRows \subseteq 1..n /\ AutoRows' \subseteq 1..Len(progress')
  BY DEF AutoRows
<1>7. AutoRows' \in SUBSET (AutoRows \cup {n + 1})
  BY <1>3, <1>5, <1>6
<1>8. IsFiniteSet(AutoRows) /\ Cardinality(AutoRows) \in Nat
  BY Counts
<1>9. /\ IsFiniteSet(AutoRows \cup {n + 1})
      /\ Cardinality(AutoRows \cup {n + 1}) <= Cardinality(AutoRows) + 1
  BY <1>8, FS_AddElement
<1>10. /\ IsFiniteSet(AutoRows')
       /\ Cardinality(AutoRows') <= Cardinality(AutoRows \cup {n + 1})
  BY <1>7, <1>9, FS_Subset
<1>11. Cardinality(AutoRows') \in Nat /\ Cardinality(AutoRows \cup {n + 1}) \in Nat
  BY <1>9, <1>10, FS_CardinalityType
<1>12. Cardinality(AutoRows') <= Cardinality(AutoRows) + 1
  BY <1>8, <1>9, <1>10, <1>11
<1>13. ASSUME ~row.auto
       PROVE  AutoRows' = AutoRows
  <2>1. n + 1 \notin AutoRows'
    BY <1>1, <1>13 DEF AutoRows
  <2> QED
    BY <1>5, <1>6, <1>7, <2>1
<1> QED
  BY <1>12, <1>13

LEMMA DeletedRows ==
  ASSUME TypeOK, TypeOK', NEW i \in 1..Len(progress), DeleteProgress(i)
  PROVE  Cardinality(AutoRows') <= Cardinality(AutoRows)
<1> DEFINE n == Len(progress)
           was == [j \in AutoRows' |-> IF j < i THEN j ELSE j + 1]
<1>1. n \in Nat /\ i \in 1..n
  BY DEF TypeOK
<1>2. /\ progress' = [j \in 1..(n - 1) |->
                        IF j < i THEN progress[j] ELSE progress[j + 1]]
      /\ n - 1 \in Nat
  BY <1>1 DEF DeleteProgress
<1>3. Len(progress') = n - 1
  BY <1>1, <1>2
<1>4. ASSUME NEW j \in AutoRows'
      PROVE  j \in Int /\ (IF j < i THEN j ELSE j + 1) \in AutoRows
  <2>1. j \in 1..(n - 1) /\ progress'[j].kind = "docsReceived"
        /\ progress'[j].auto
    BY <1>3 DEF AutoRows
  <2>2. progress'[j] = IF j < i THEN progress[j] ELSE progress[j + 1]
    BY <1>2, <2>1
  <2>3. j \in Int /\ j \in 1..n /\ j + 1 \in 1..n
    BY <1>1, <2>1
  <2> QED
    BY <2>1, <2>2, <2>3 DEF AutoRows
<1>5. was \in Injection(AutoRows', AutoRows)
  <2>1. was \in [AutoRows' -> AutoRows]
    BY <1>4
  <2>2. ASSUME NEW a \in AutoRows', NEW b \in AutoRows', was[a] = was[b]
        PROVE  a = b
    <3>1. a \in Int /\ b \in Int /\ i \in Int
      BY <1>1, <1>4
    <3>2. (IF a < i THEN a ELSE a + 1) = (IF b < i THEN b ELSE b + 1)
      BY <2>2
    <3> QED
      BY <3>1, <3>2
  <2> HIDE DEF was
  <2> QED
    BY <2>1, <2>2 DEF Injection, IsInjective
<1> QED
  BY <1>5, Counts, FS_Injection

LEMMA BoundInit == Init => AdvancesBoundedByOverlap
<1> SUFFICES ASSUME Init
             PROVE  AdvancesBoundedByOverlap
  OBVIOUS
<1>1. AutoRows = {} /\ Pending = {}
  BY HandlerNames DEF Init, AutoRows, Pending
<1> QED
  BY <1>1, FS_EmptySet, CheckersCount DEF AdvancesBoundedByOverlap

\* A step that adds no automatic row and starts no decision keeps the bound.
LEMMA BoundFrame ==
  ASSUME TypeOK, TypeOK', AdvancesBoundedByOverlap,
         Cardinality(AutoRows') <= Cardinality(AutoRows),
         Pending' \subseteq Pending
  PROVE  AdvancesBoundedByOverlap'
<1>1. Cardinality(Pending') <= Cardinality(Pending)
  BY Counts, FS_Subset
<1>2. /\ Cardinality(AutoRows) \in Nat /\ Cardinality(Pending) \in Nat
  BY Counts
<1>3. /\ Cardinality(AutoRows') \in Nat /\ Cardinality(Pending') \in Nat
  <2>1. IsFiniteSet(Pending')
    BY Counts, FS_Subset
  <2>2. IsFiniteSet(AutoRows')
    BY AutoRowsLater
  <2> QED
    BY <2>1, <2>2, FS_CardinalityType
<1> QED
  BY <1>1, <1>2, <1>3, CheckersCount DEF AdvancesBoundedByOverlap

LEMMA BoundNext ==
  TypeOK /\ TypeOK' /\ AdvancesBoundedByOverlap /\ [Next]_vars
    => AdvancesBoundedByOverlap'
<1> SUFFICES ASSUME TypeOK, TypeOK', AdvancesBoundedByOverlap, [Next]_vars
             PROVE  AdvancesBoundedByOverlap'
  OBVIOUS
<1>1. /\ Cardinality(AutoRows) \in Nat /\ Cardinality(Pending) \in Nat
      /\ IsFiniteSet(Pending)
  BY Counts
<1>2. ASSUME NEW k \in Checkers, ReadClaim(k)
      PROVE  AdvancesBoundedByOverlap'
  <2>1. k \in Handlers /\ progress' = progress
    BY <1>2, HandlerNames DEF Checkers, ReadClaim
  <2>2. AutoRows' = AutoRows
    BY <2>1 DEF AutoRows
  <2>3. CASE AlreadyAdvanced
    <3>1. pc' = [pc EXCEPT ![k] = AfterCheck(k)]
      BY <1>2, <2>3 DEF ReadClaim
    <3>2. Pending' \subseteq Pending
      BY <2>1, <3>1, HandlerNames DEF Pending, AfterCheck, TypeOK
    <3> QED
      BY <1>1, <2>2, <3>2, BoundFrame
  <2>4. CASE ~AlreadyAdvanced
    <3>1. AutoRows = {}
      BY <2>4 DEF AlreadyAdvanced, AutoRows
    <3>2. Pending' \in SUBSET Checkers
      BY DEF Pending, Checkers
    <3>3. IsFiniteSet(Pending') /\ Cardinality(Pending') <= Cardinality(Checkers)
      BY <3>2, CheckersCount, FS_Subset
    <3>4. Cardinality(Pending') \in Nat
      BY <3>3, FS_CardinalityType
    <3> QED
      BY <2>2, <3>1, <3>3, <3>4, CheckersCount, FS_EmptySet
         DEF AdvancesBoundedByOverlap
  <2> QED
    BY <2>3, <2>4
<1>3. ASSUME NEW k \in Checkers, Advance(k), ctx[k].order # 0
      PROVE  AdvancesBoundedByOverlap'
  <2>1. k \in Handlers
    BY HandlerNames DEF Checkers
  <2>2. Cardinality(AutoRows') <= Cardinality(AutoRows) + 1
    <3> DEFINE row == [order |-> ctx[k].order + 1, kind |-> "docsReceived",
                       auto |-> TRUE]
    <3>1. progress' = Append(progress, row)
      BY <1>3 DEF Advance
    <3> HIDE DEF row
    <3> QED
      BY <3>1, AppendedRows
  <2>3. k \in Pending
    BY <1>3 DEF Advance, Pending, Checkers
  <2>4. Pending' \in SUBSET (Pending \ {k})
    <3>1. pc' = [pc EXCEPT ![k] = AfterCheck(k)]
      BY <1>3 DEF Advance, Goto
    <3> QED
      BY <2>1, <3>1, HandlerNames DEF Pending, AfterCheck, TypeOK
  <2>5. /\ IsFiniteSet(Pending \ {k})
        /\ Cardinality(Pending \ {k}) = Cardinality(Pending) - 1
    BY <1>1, <2>3, FS_RemoveElement
  <2>6. /\ Cardinality(Pending') <= Cardinality(Pending \ {k})
        /\ IsFiniteSet(Pending')
    BY <2>4, <2>5, FS_Subset
  <2>7. Cardinality(Pending') \in Nat
    BY <2>6, FS_CardinalityType
  <2>8. Cardinality(AutoRows') \in Nat
    BY AutoRowsLater
  <2> QED
    BY <1>1, <2>2, <2>5, <2>6, <2>7, <2>8, CheckersCount
       DEF AdvancesBoundedByOverlap
<1>4. CASE /\ \A k \in Checkers : ~ReadClaim(k)
           /\ \A k \in Checkers : Advance(k) => ctx[k].order = 0
  <2>1. Pending' \subseteq Pending
    <3>1. ASSUME NEW k \in Checkers, pc'[k] \in Deciding
          PROVE  pc[k] \in Deciding
      <4>1. CASE ReadRequests(k)
        BY <4>1 DEF ReadRequests, Deciding
      <4>2. CASE ~ReadRequests(k)
        BY <1>4, <3>1, <4>2, StillDeciding
      <4> QED
        BY <4>1, <4>2
    <3> QED
      BY <3>1 DEF Pending, Checkers, Deciding
  <2>2. Cardinality(AutoRows') <= Cardinality(AutoRows)
    <3>1. CASE \E i \in 1..Len(progress) : DeleteProgress(i)
      BY <3>1, DeletedRows
    <3>2. CASE StaffProgressRow
      <4> DEFINE row == [order |-> ctx[Office].order, kind |-> ctx[Office].kind,
                         auto |-> FALSE]
      <4>1. progress' = Append(progress, row) /\ ~row.auto
        BY <3>2 DEF StaffProgressRow
      <4> HIDE DEF row
      <4>2. AutoRows' = AutoRows
        BY <4>1, AppendedRows
      <4> QED
        BY <1>1, <4>2
    <3>3. CASE UNCHANGED progress
      <4>1. AutoRows' = AutoRows
        BY <3>3 DEF AutoRows
      <4> QED
        BY <1>1, <4>1
    <3>4. \/ \E i \in 1..Len(progress) : DeleteProgress(i)
          \/ StaffProgressRow
          \/ UNCHANGED progress
      <4>1. CASE StaffAction
        BY <4>1 DEF StaffAction, StaffUpload, RemoveDocument, PatchDocument,
             CreateRequest, DeleteRequest, StaffProgress, UpdateState
      <4>2. ASSUME NEW h \in Checkers, HandlerStep(h)
            PROVE  UNCHANGED progress
        BY <1>4, <4>2 DEF HandlerStep, SaveDocument, ReadClaim, ReadRequests,
             Advance, CloseRequest, Enqueue, Sign
      <4>3. CASE \/ \E h \in Http : ClientRequest(h) \/ HandlerThrows(h)
                 \/ TakeJob \/ JobThrows \/ Crash \/ EnsureAction
                 \/ UNCHANGED vars
        BY <4>3, EnsureLeaves DEF ClientRequest, BeginUpload, BeginPassengerUpload,
             FormUpload, BeginCustomerSign, BeginPassengerSign, BeginFormSign,
             HandlerThrows, TakeJob, JobThrows, Crash, vars
      <4> QED
        BY <4>1, <4>2, <4>3 DEF Next, Checkers
    <3> QED
      BY <3>1, <3>2, <3>3, <3>4
  <2> QED
    BY <2>1, <2>2, BoundFrame
<1> QED
  BY <1>2, <1>3, <1>4

\* A check that is about to commit is right about the claim unless the back
\* office acted after its read, or the ensure job opened a request behind its
\* read of them; and the announcements checks repeat, and may still repeat,
\* are no more than the handlers that can overlap.
THEOREM AdvancesAreJustified == Spec => []AdvancesJustified
<1>1. CommitInv => CommitRightUnlessStaffActed
  BY DEF CommitInv, Judged, CommitRightUnlessStaffActed, Checkers, Deciding,
         Welcome, Unasked
<1>2. CommitRightUnlessStaffActed /\ AdvancesBoundedByOverlap
        => AdvancesJustified
  BY DEF AdvancesJustified
<1> QED
  BY <1>1, <1>2, InitType, NextType, CommitInit, CommitNext, BoundInit,
     BoundNext, PTL DEF Spec
=============================================================================
