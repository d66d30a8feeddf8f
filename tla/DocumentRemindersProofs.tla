----------------------- MODULE DocumentRemindersProofs -----------------------
(***************************************************************************)
(* Theorems about DocumentReminders, for any passengers, requests, delays  *)
(* and any bound on the events.                                            *)
(***************************************************************************)
EXTENDS DocumentReminders, TLAPS

LEMMA SpendType ==
  ASSUME spent \in [Events -> Nat], NEW event \in Events, Spend(event)
  PROVE  spent' \in [Events -> Nat]
  BY DEF Spend

LEMMA Days ==
  /\ LockDays \in Nat /\ LockDays > 0 /\ Horizon \in Nat /\ Night = 1
  /\ Horizon = LockDays + 1
  /\ Delays \subseteq 0..LockDays
  /\ \A d \in Delays, night \in 0..Night : d + night \in 0..Horizon
  BY DelayAssumption DEF Horizon, Night

\* The records the steps of a handler make of another one.
LEMMA TaskFields ==
  ASSUME NEW t \in Tasks, NEW d \in Delays
  PROVE  /\ t.step \in {"rest", "lock", "letters", "set"}
         /\ t.todo \in SUBSET Delays
         /\ Rest \in Tasks
         /\ [t EXCEPT !.step = "lock"] \in Tasks
         /\ [step |-> "letters", todo |-> Delays] \in Tasks
         /\ [t EXCEPT !.todo = @ \ {d},
                      !.step = IF t.todo = {d} THEN "set" ELSE @] \in Tasks
  BY DEF Tasks, Rest

-----------------------------------------------------------------------------
(* Type correctness.                                                       *)

LEMMA InitType == Init => TypeOK
<1> SUFFICES ASSUME Init
             PROVE  TypeOK
  OBVIOUS
<1>1. task \in [Handlers -> Tasks]
  BY DEF Init, Tasks, Rest
<1>2. letters \in [0..Horizon -> Nat] /\ spent \in [Events -> Nat]
  BY DEF Init
<1>3. ensureJobs \in [Runs -> Nat]
  BY DEF Init
<1>4. rows \in [RequestIds -> Row \cup {NoRow}] /\ filed \in SUBSET Slots
  BY ClaimAssumption DEF Init
<1> QED
  BY <1>1, <1>2, <1>3, <1>4 DEF Init, TypeOK, Idle, NoEnsure, Runs

LEMMA CreateType ==
  ASSUME TypeOK, NEW h \in Handlers, Create(h)
  PROVE  TypeOK'
<1>1. CASE CheckLock(h)
  <2>1. task' \in [Handlers -> Tasks]
    <3>1. Rest \in Tasks /\ [step |-> "letters", todo |-> Delays] \in Tasks
      BY DEF Tasks, Rest
    <3> QED
      BY <1>1, <3>1 DEF CheckLock, TypeOK
  <2>2. disturbed' \in BOOLEAN
    BY <1>1 DEF CheckLock, TypeOK
  <2> QED
    BY <1>1, <2>1, <2>2 DEF CheckLock, TypeOK, claim, series, ensure
<1>2. CASE SetLock(h)
  <2>1. task' \in [Handlers -> Tasks]
    BY <1>2 DEF SetLock, TypeOK, Tasks, Rest
  <2> QED
    BY <1>2, <2>1, Days DEF SetLock, TypeOK, claim, ensure
<1>3. ASSUME NEW d \in Delays, NEW night \in 0..Night, AddLetter(h, d, night)
      PROVE  TypeOK'
  <2>1. task' \in [Handlers -> Tasks]
    <3>1. task[h] \in Tasks
      BY DEF TypeOK
    <3>2. [task[h] EXCEPT !.todo = @ \ {d},
                          !.step = IF task[h].todo = {d} THEN "set" ELSE @]
            \in Tasks
      BY <3>1, TaskFields
    <3> QED
      BY <1>3, <3>1, <3>2 DEF AddLetter, TypeOK, Tasks
  <2>2. letters' \in [0..Horizon -> Nat]
    <3>1. d + night \in 0..Horizon
      BY Days
    <3>2. letters[d + night] + 1 \in Nat
      BY <3>1 DEF TypeOK
    <3> QED
      BY <1>3, <3>1, <3>2 DEF AddLetter, TypeOK
  <2> QED
    BY <1>3, <2>1, <2>2 DEF AddLetter, TypeOK, claim, ensure
<1> QED
  BY <1>1, <1>2, <1>3 DEF Create

LEMMA SaveType ==
  ASSUME TypeOK, NEW h \in Handlers, NEW r \in RequestIds, NEW slot \in Slots,
         SaveRequest(h, r, slot)
  PROVE  /\ rows' \in [RequestIds -> Row \cup {NoRow}]
         /\ task' \in [Handlers -> Tasks]
<1>1. [life |-> "ACTIVE", slot |-> slot, staff |-> h \in Http] \in Row
  BY DEF Row
<1>2. task' \in [Handlers -> Tasks]
  <2>1. [task[h] EXCEPT !.step = "lock"] \in Tasks
    BY DEF TypeOK, Tasks
  <2> QED
    BY <2>1 DEF SaveRequest, TypeOK
<1> QED
  BY <1>1, <1>2 DEF SaveRequest, TypeOK

LEMMA EnsureType ==
  ASSUME TypeOK, Ensure
  PROVE  TypeOK'
<1>1. ASSUME NEW run \in Runs, TakeEnsure(run)
      PROVE  TypeOK'
  <2>1. ensureJobs' \in [Runs -> Nat]
    BY <1>1 DEF TakeEnsure, TypeOK
  <2> QED
    BY <1>1, <2>1 DEF TakeEnsure, TypeOK, claim, series
<1>2. CASE ReadRequests
  BY <1>2 DEF ReadRequests, TypeOK, claim, series
<1>3. ASSUME NEW r \in RequestIds, NEW slot \in Slots, EnsureRequest(r, slot)
      PROVE  TypeOK'
  <2>1. Ensurer \in Handlers
    BY DEF Handlers
  <2>2. /\ rows' \in [RequestIds -> Row \cup {NoRow}]
        /\ task' \in [Handlers -> Tasks]
    BY <1>3, <2>1, SaveType DEF EnsureRequest
  <2> QED
    BY <1>3, <2>2 DEF EnsureRequest, TypeOK, series
<1>4. CASE EnsureDone
  BY <1>4 DEF EnsureDone, TypeOK, Runs, NoEnsure, claim, series
<1> QED
  BY <1>1, <1>2, <1>3, <1>4 DEF Ensure

LEMMA RemindType ==
  ASSUME TypeOK, Remind
  PROVE  TypeOK'
<1>1. ASSUME NEW run \in Runs, TakeLetter(run)
      PROVE  TypeOK'
  <2>1. letters' \in [0..Horizon -> Nat] /\ again' \in Nat
    <3>1. letters[0] \in Nat /\ again \in Nat
      BY Days DEF TypeOK
    <3>2. CASE run = "second"
      <4>1. again - 1 \in Nat
        BY <1>1, <3>1, <3>2 DEF TakeLetter
      <4> QED
        BY <1>1, <3>2, <4>1 DEF TakeLetter, TypeOK
    <3>3. CASE run # "second"
      <4>1. letters[0] - 1 \in Nat
        BY <1>1, <3>1, <3>3 DEF TakeLetter
      <4> QED
        BY <1>1, <3>1, <3>3, <4>1 DEF TakeLetter, TypeOK
    <3> QED
      BY <3>2, <3>3
  <2>2. worker' \in [step : {"rest", "claim", "send"},
                     asked : SUBSET RequestIds, run : Runs]
    BY <1>1 DEF TakeLetter, Active, Idle, Runs
  <2> QED
    BY <1>1, <2>1, <2>2 DEF TakeLetter, TypeOK, claim, ensure
<1>2. CASE ReadClaim
  BY <1>2 DEF ReadClaim, TypeOK, Runs, Idle, claim, ensure
<1>3. CASE SendLetters
  BY <1>3 DEF SendLetters, TypeOK, Runs, Idle, claim, ensure
<1> QED
  BY <1>1, <1>2, <1>3 DEF Remind

\* A row that is there keeps its shape when its status changes.
LEMMA LifeRow ==
  ASSUME TypeOK, NEW r \in RequestIds, rows[r].life # "NONE",
         NEW life \in {"ACTIVE", "INACTIVE", "DELETED"}
  PROVE  [rows[r] EXCEPT !.life = life] \in Row
<1>1. rows[r] \in Row
  BY DEF TypeOK, NoRow
<1> QED
  BY <1>1 DEF Row

LEMMA StaffType ==
  ASSUME TypeOK, Staff
  PROVE  TypeOK'
<1>1. ASSUME NEW h \in Http, NEW r \in RequestIds, NEW slot \in Slots,
             CreateRequest(h, r, slot)
      PROVE  TypeOK'
  <2>1. /\ rows' \in [RequestIds -> Row \cup {NoRow}]
        /\ task' \in [Handlers -> Tasks]
    BY <1>1, SaveType DEF CreateRequest, Handlers
  <2>2. spent' \in [Events -> Nat]
    BY <1>1, SpendType DEF CreateRequest, TypeOK, Events
  <2> QED
    BY <1>1, <2>1, <2>2 DEF CreateRequest, TypeOK, series, ensure
<1>2. ASSUME NEW r \in RequestIds, DeleteRequest(r)
      PROVE  TypeOK'
  <2>1. [rows[r] EXCEPT !.life = "DELETED"] \in Row
    BY <1>2, LifeRow DEF DeleteRequest, Live
  <2>3. rows' \in [RequestIds -> Row \cup {NoRow}]
    BY <1>2, <2>1 DEF DeleteRequest, TypeOK
  <2>2. spent' \in [Events -> Nat]
    BY <1>2, SpendType DEF DeleteRequest, TypeOK, Events
  <2> QED
    BY <1>2, <2>3, <2>2 DEF DeleteRequest, TypeOK, series, ensure
<1>3. CASE ArchiveClaim
  <2>1. spent' \in [Events -> Nat]
    BY <1>3, SpendType DEF ArchiveClaim, TypeOK, Events
  <2> QED
    BY <1>3, <2>1 DEF ArchiveClaim, TypeOK, series, ensure
<1> QED
  BY <1>1, <1>2, <1>3 DEF Staff

LEMMA ClientType ==
  ASSUME TypeOK, Client
  PROVE  TypeOK'
<1>1. CASE ScheduleEnsure
  <2>1. spent' \in [Events -> Nat]
    BY <1>1, SpendType DEF ScheduleEnsure, TypeOK, Events
  <2>3. ensureJobs' \in [Runs -> Nat]
    BY <1>1 DEF ScheduleEnsure, TypeOK, Runs
  <2> QED
    BY <1>1, <2>1, <2>3 DEF ScheduleEnsure, TypeOK, claim, series
<1>2. ASSUME NEW slot \in Slots, FileDocument(slot)
      PROVE  TypeOK'
  <2>1. spent' \in [Events -> Nat]
    BY <1>2, SpendType DEF FileDocument, TypeOK, Events
  <2> QED
    BY <1>2, <2>1 DEF FileDocument, TypeOK, series, ensure
<1>3. ASSUME NEW r \in RequestIds, CloseRequest(r)
      PROVE  TypeOK'
  <2>1. [rows[r] EXCEPT !.life = "INACTIVE"] \in Row
    BY <1>3, LifeRow DEF CloseRequest
  <2>3. rows' \in [RequestIds -> Row \cup {NoRow}]
    BY <1>3, <2>1 DEF CloseRequest, TypeOK
  <2>2. spent' \in [Events -> Nat]
    BY <1>3, SpendType DEF CloseRequest, TypeOK, Events
  <2> QED
    BY <1>3, <2>3, <2>2 DEF CloseRequest, TypeOK, series, ensure
<1> QED
  BY <1>1, <1>2, <1>3 DEF Client

LEMMA TroubleType ==
  ASSUME TypeOK, Trouble
  PROVE  TypeOK'
<1>1. ASSUME NEW h \in Handlers, HandlerThrows(h)
      PROVE  TypeOK'
  <2>1. spent' \in [Events -> Nat]
    BY <1>1, SpendType DEF HandlerThrows, TypeOK, Events
  <2>2. task' \in [Handlers -> Tasks] /\ disturbed' \in BOOLEAN
    BY <1>1 DEF HandlerThrows, TypeOK, Tasks, Rest
  <2>3. /\ interrupted' \in BOOLEAN
        /\ ensuring' = NoEnsure \/ ensuring' = ensuring
    BY <1>1 DEF HandlerThrows, TypeOK
  <2>4. /\ UNCHANGED <<claim, series, ensureJobs, ensured, mentioned>>
    BY <1>1 DEF HandlerThrows
  <2> QED
    BY <2>1, <2>2, <2>3, <2>4 DEF TypeOK, Runs, NoEnsure, claim, series
<1>2. ASSUME NEW sent \in SUBSET Special, LetterThrows(sent)
      PROVE  TypeOK'
  <2>1. spent' \in [Events -> Nat]
    BY <1>2, SpendType DEF LetterThrows, TypeOK, Events
  <2>2. mentioned' \in SUBSET RequestIds
    BY <1>2, ClaimAssumption DEF LetterThrows, TypeOK
  <2> QED
    BY <1>2, <2>1, <2>2 DEF LetterThrows, TypeOK, Runs, Idle, claim, ensure
<1>3. CASE Crash
  <2>1. spent' \in [Events -> Nat]
    BY <1>3, SpendType DEF Crash, TypeOK, Events
  <2>2. task' \in [Handlers -> Tasks]
    BY <1>3 DEF Crash, Tasks, Rest
  <2>6. ensureJobs' \in [Runs -> Nat]
    BY <1>3 DEF Crash, TypeOK, Runs
  <2>3. again' \in Nat
    BY <1>3 DEF Crash, TypeOK
  <2>4. disturbed' \in BOOLEAN /\ interrupted' \in BOOLEAN
    BY <1>3 DEF Crash, TypeOK
  <2> QED
    BY <1>3, <2>1, <2>2, <2>3, <2>4, <2>6
       DEF Crash, TypeOK, Runs, NoEnsure, Idle, claim
<1> QED
  BY <1>1, <1>2, <1>3 DEF Trouble

LEMMA TickType ==
  ASSUME TypeOK, Tick
  PROVE  TypeOK'
<1>1. lock' \in Nat
  BY DEF Tick, TypeOK
<1>2. letters' \in [0..Horizon -> Nat]
  BY Days DEF Tick, TypeOK
<1> QED
  BY <1>1, <1>2 DEF Tick, TypeOK, claim, ensure

LEMMA NextType == TypeOK /\ [Next]_vars => TypeOK'
<1>1. CASE UNCHANGED vars
  BY <1>1 DEF vars, TypeOK, claim, series, ensure
<1> QED
  BY <1>1, CreateType, EnsureType, RemindType, StaffType, ClientType,
     TroubleType, TickType DEF Next

\* The types hold, for any number of passengers, requests and handlers.
THEOREM TypeCorrect == Spec => []TypeOK
  BY InitType, NextType, PTL DEF Spec

-----------------------------------------------------------------------------
(* The lock means that a letter is ahead.  The letter with the longest     *)
(* delay is added last, and the lock after it.                             *)

LockInv ==
  /\ LockMeansLetter
  /\ \A h \in Handlers :
       /\ task[h].step = "letters" => LockDays \in task[h].todo
       /\ task[h].step = "set" => \E d \in LockDays..Horizon : letters[d] > 0

LEMMA InitLock == Init => LockInv
  BY DEF Init, LockInv, LockMeansLetter, Rest

\* Nothing but a handler of create, a letter or a day touches these.
LEMMA OtherLock ==
  ASSUME TypeOK, LockInv, lock' = lock, letters' = letters,
         \A h \in Handlers : \/ task'[h] = task[h]
                             \/ task'[h].step \in {"rest", "lock"}
  PROVE  LockInv'
  BY DEF LockInv, LockMeansLetter

LEMMA SaveTask ==
  ASSUME TypeOK, NEW k \in Handlers, NEW r \in RequestIds, NEW slot \in Slots,
         SaveRequest(k, r, slot)
  PROVE  \A h \in Handlers : \/ task'[h] = task[h]
                             \/ task'[h].step \in {"rest", "lock"}
<1>1. [task[k] EXCEPT !.step = "lock"].step = "lock"
  BY DEF TypeOK, Tasks
<1> QED
  BY <1>1 DEF SaveRequest, TypeOK

\* What AddLetter makes of the handler.
LEMMA AddedTask ==
  ASSUME TypeOK, NEW h \in Handlers, NEW d \in Delays, NEW night \in 0..Night,
         AddLetter(h, d, night)
  PROVE  /\ task'[h].todo = task[h].todo \ {d}
         /\ task[h].todo = {d} => task'[h].step = "set"
         /\ task[h].todo # {d} => task'[h].step = "letters"
         /\ \A k \in Handlers \ {h} : task'[k] = task[k]
         /\ d + night \in 0..Horizon
         /\ letters'[d + night] = letters[d + night] + 1
         /\ \A e \in 0..Horizon : e # d + night => letters'[e] = letters[e]
<1>1. task[h] \in Tasks /\ task[h].step = "letters"
  BY DEF AddLetter, TypeOK
<1> DEFINE t == [task[h] EXCEPT !.todo = @ \ {d},
                 !.step = IF task[h].todo = {d} THEN "set" ELSE @]
<1>2. /\ t.todo = task[h].todo \ {d}
      /\ t.step = IF task[h].todo = {d} THEN "set" ELSE "letters"
  BY <1>1 DEF Tasks
<1>3. task' = [task EXCEPT ![h] = t]
  BY DEF AddLetter
<1> HIDE DEF t
<1>4. d + night \in 0..Horizon
  BY Days
<1> QED
  BY <1>2, <1>3, <1>4 DEF AddLetter, TypeOK

LEMMA CreateLock ==
  ASSUME TypeOK, LockInv, NEW h \in Handlers, Create(h)
  PROVE  LockInv'
<1>1. CASE CheckLock(h)
  <2>1. /\ lock' = lock /\ letters' = letters
        /\ \A k \in Handlers : \/ task'[k] = task[k]
                               \/ task'[k].step = "rest"
                               \/ task'[k] = [step |-> "letters",
                                              todo |-> Delays]
    BY <1>1 DEF CheckLock, TypeOK, Rest, series
  <2> QED
    BY <2>1, DelayAssumption DEF LockInv, LockMeansLetter
<1>2. CASE SetLock(h)
  <2>1. /\ lock' = LockDays /\ letters' = letters
        /\ \E d \in LockDays..Horizon : letters[d] > 0
        /\ \A k \in Handlers : \/ task'[k] = task[k]
                               \/ task'[k].step = "rest"
    BY <1>2 DEF SetLock, TypeOK, Rest, LockInv
  <2> QED
    BY <2>1 DEF LockInv, LockMeansLetter
<1>3. ASSUME NEW d \in Delays, NEW night \in 0..Night, AddLetter(h, d, night)
      PROVE  LockInv'
  <2>1. \A e \in 0..Horizon : letters[e] \in Nat /\ letters[e] <= letters'[e]
    BY <1>3, AddedTask DEF TypeOK
  <2>2. lock' = lock /\ lock \in Nat
    BY <1>3 DEF AddLetter, TypeOK
  <2>7. \A e \in 0..Horizon : letters'[e] \in Nat
    BY CreateType DEF TypeOK
  <2>3. LockMeansLetter'
    <3>1. ASSUME lock > 0
          PROVE  \E e \in lock..Horizon : letters'[e] > 0
      <4>1. PICK e \in lock..Horizon : letters[e] > 0
        BY <3>1 DEF LockInv, LockMeansLetter
      <4>2. e \in 0..Horizon
        BY <2>2, Days
      <4>3. letters'[e] > 0
        BY <2>1, <2>7, <4>1, <4>2
      <4> QED
        BY <4>3
    <3> QED
      BY <2>2, <3>1 DEF LockMeansLetter
  <2>4. task[h].step = "letters" /\ d \in task[h].todo
        /\ \A e \in task[h].todo : d <= e
    BY <1>3 DEF AddLetter
  <2>5. LockDays \in task[h].todo
    BY <2>4 DEF LockInv
  <2>6. ASSUME NEW k \in Handlers
        PROVE  /\ task'[k].step = "letters" => LockDays \in task'[k].todo
               /\ task'[k].step = "set"
                    => \E e \in LockDays..Horizon : letters'[e] > 0
    <3>1. CASE k # h
      <4>1. task'[k] = task[k]
        BY <1>3, <3>1, AddedTask
      <4>2. ASSUME task[k].step = "set"
            PROVE  \E e \in LockDays..Horizon : letters'[e] > 0
        <5>1. PICK e \in LockDays..Horizon : letters[e] > 0
          BY <4>2 DEF LockInv
        <5>2. e \in 0..Horizon
          BY Days
        <5> QED
          BY <5>1, <5>2, <2>1, <2>7
      <4> QED
        BY <4>1, <4>2 DEF LockInv
    <3>2. CASE k = h /\ task[h].todo = {d}
      <4>1. d = LockDays
        BY <3>2, <2>5
      <4>2. task'[h].step = "set" /\ letters'[d + night] > 0
        <5>1. /\ task'[h].step = "set" /\ d + night \in 0..Horizon
              /\ letters'[d + night] = letters[d + night] + 1
          BY <1>3, <3>2, AddedTask
        <5>2. letters[d + night] \in Nat
          BY <5>1 DEF TypeOK
        <5> QED
          BY <5>1, <5>2
      <4>3. d + night \in LockDays..Horizon
        BY <4>1, Days
      <4> QED
        BY <3>2, <4>2, <4>3
    <3>3. CASE k = h /\ task[h].todo # {d}
      <4>1. task'[h].step = "letters" /\ task'[h].todo = task[h].todo \ {d}
        BY <1>3, <3>3, AddedTask
      <4>2. task[h].todo \subseteq Delays
        BY DEF TypeOK, Tasks
      <4>3. d # LockDays
        <5>1. PICK e \in task[h].todo : e # d
          BY <2>4, <3>3
        <5>2. e <= LockDays /\ d <= e /\ e \in Nat /\ d \in Nat
          BY <2>4, <4>2, <5>1, DelayAssumption
        <5> QED
          BY <5>1, <5>2, Days
      <4> QED
        BY <3>3, <4>1, <4>3, <2>5
    <3> QED
      BY <3>1, <3>2, <3>3
  <2> QED
    BY <2>3, <2>6 DEF LockInv
<1> QED
  BY <1>1, <1>2, <1>3 DEF Create

LEMMA TickLock ==
  ASSUME TypeOK, LockInv, Tick
  PROVE  LockInv'
<1>1. \A h \in Handlers : task'[h].step = "rest"
  BY DEF Tick
<1>2. ASSUME lock' > 0
      PROVE  \E d \in lock'..Horizon : letters'[d] > 0
  <2>1. lock \in Nat /\ lock > 1 /\ lock' = lock - 1
    BY <1>2 DEF Tick, TypeOK
  <2>2. PICK d \in lock..Horizon : letters[d] > 0
    BY <2>1 DEF LockInv, LockMeansLetter
  <2>3. d - 1 \in lock'..Horizon /\ d - 1 # 0 /\ d - 1 # Horizon
        /\ d - 1 \in 0..Horizon /\ (d - 1) + 1 = d
    BY <2>1, <2>2, Days
  <2>4. letters'[d - 1] = letters[d]
    BY <2>3 DEF Tick
  <2> QED
    BY <2>2, <2>3, <2>4
<1> QED
  BY <1>1, <1>2 DEF LockInv, LockMeansLetter

LEMMA TakeLock ==
  ASSUME TypeOK, LockInv, NEW run \in Runs, TakeLetter(run)
  PROVE  LockInv'
<1>1. /\ lock' = lock /\ task' = task
      /\ \A d \in 0..Horizon : d > 0 => letters'[d] = letters[d]
  BY Days DEF TakeLetter, TypeOK
<1>2. lock \in Nat
  BY DEF TypeOK
<1>3. LockMeansLetter'
  BY <1>1, <1>2, Days DEF LockInv, LockMeansLetter
<1>4. ASSUME NEW h \in Handlers, task[h].step = "set"
      PROVE  \E d \in LockDays..Horizon : letters'[d] > 0
  BY <1>1, <1>4, Days DEF LockInv
<1> QED
  BY <1>1, <1>3, <1>4 DEF LockInv

\* The steps that touch neither the lock nor the letters, and no series.
LEMMA OtherSteps ==
  ASSUME TypeOK,
         \/ Staff \/ Client \/ Ensure \/ ReadClaim \/ SendLetters \/ Trouble
         \/ UNCHANGED vars
  PROVE  /\ lock' = lock /\ letters' = letters
         /\ \A h \in Handlers : \/ task'[h] = task[h]
                                \/ task'[h].step \in {"rest", "lock"}
<1>1. CASE Staff
  <2>1. ASSUME NEW k \in Http, NEW r \in RequestIds, NEW slot \in Slots,
               CreateRequest(k, r, slot)
        PROVE  /\ lock' = lock /\ letters' = letters
               /\ \A h \in Handlers : \/ task'[h] = task[h]
                                      \/ task'[h].step \in {"rest", "lock"}
    BY <2>1, SaveTask DEF CreateRequest, Handlers, series
  <2> QED
    BY <1>1, <2>1 DEF Staff, DeleteRequest, ArchiveClaim, series
<1>2. CASE Client
  BY <1>2 DEF Client, ScheduleEnsure, FileDocument, CloseRequest, series
<1>3. CASE Ensure
  <2>1. ASSUME NEW r \in RequestIds, NEW slot \in Slots, EnsureRequest(r, slot)
        PROVE  /\ lock' = lock /\ letters' = letters
               /\ \A h \in Handlers : \/ task'[h] = task[h]
                                      \/ task'[h].step \in {"rest", "lock"}
    BY <2>1, SaveTask DEF EnsureRequest, Handlers, series
  <2> QED
    BY <1>3, <2>1 DEF Ensure, TakeEnsure, ReadRequests, EnsureDone, series
<1>4. CASE ReadClaim \/ SendLetters
  BY <1>4 DEF ReadClaim, SendLetters
<1>5. CASE Trouble
  <2>1. ASSUME NEW k \in Handlers, HandlerThrows(k)
        PROVE  /\ lock' = lock /\ letters' = letters
               /\ \A h \in Handlers : \/ task'[h] = task[h]
                                      \/ task'[h].step \in {"rest", "lock"}
    BY <2>1 DEF HandlerThrows, TypeOK, Rest, series
  <2>2. CASE \E sent \in SUBSET Special : LetterThrows(sent)
    BY <2>2 DEF LetterThrows
  <2>3. CASE Crash
    BY <2>3 DEF Crash, Rest
  <2> QED
    BY <1>5, <2>1, <2>2, <2>3 DEF Trouble
<1>6. CASE UNCHANGED vars
  BY <1>6 DEF vars, series
<1> QED
  BY <1>1, <1>2, <1>3, <1>4, <1>5, <1>6

LEMMA NextLock == TypeOK /\ LockInv /\ [Next]_vars => LockInv'
<1> SUFFICES ASSUME TypeOK, LockInv, [Next]_vars
             PROVE  LockInv'
  OBVIOUS
<1>1. CASE \/ Staff \/ Client \/ Ensure \/ ReadClaim \/ SendLetters
           \/ Trouble \/ UNCHANGED vars
  BY <1>1, OtherSteps, OtherLock
<1>2. CASE \E h \in Handlers : Create(h)
  BY <1>2, CreateLock
<1>3. CASE \E run \in Runs : TakeLetter(run)
  BY <1>3, TakeLock
<1>4. CASE Tick
  BY <1>4, TickLock
<1> QED
  BY <1>1, <1>2, <1>3, <1>4 DEF Next, Remind

\* While the lock is held a letter is due no sooner than it expires, so a
\* request that relies on the lock is not left without a letter, whatever
\* fails or overlaps.
THEOREM LockKept == Spec => []LockMeansLetter
<1>1. LockInv => LockMeansLetter
  BY DEF LockInv
<1> QED
  BY <1>1, InitType, NextType, InitLock, NextLock, PTL DEF Spec

-----------------------------------------------------------------------------
(* One series.  While nothing was disturbed, at most one handler adds      *)
(* letters, it does so without the lock, and the days it has still to      *)
(* fill are free; no letter is due more than a night after the lock.       *)

Later == (Night + 1)..Horizon

SeriesInv ==
  disturbed \/
  /\ OneSeries
  /\ \A h, k \in Handlers : Scheduling(h) /\ Scheduling(k) => h = k
  /\ \A h \in Handlers : Scheduling(h) => lock = 0
  /\ (\A h \in Handlers : ~Scheduling(h))
       => \A d \in Later : d > lock + Night => letters[d] = 0
  /\ \A h \in Handlers : Scheduling(h) =>
       \A e \in task[h].todo, night \in 0..Night :
         e + night \in Later => letters[e + night] = 0

LEMMA InitSeries == Init => SeriesInv
  BY Days DEF Init, SeriesInv, OneSeries, Scheduling, Rest, Later

\* A task that adds no letters and is not about to set the lock.
Apart(t) == t.step \notin {"letters", "set"}

\* The other steps leave a series that is being added alone, or disturb it.
LEMMA OtherStepsSeries ==
  ASSUME TypeOK,
         \/ Staff \/ Client \/ Ensure \/ ReadClaim \/ SendLetters \/ Trouble
         \/ UNCHANGED vars
  PROVE  \/ disturbed' = TRUE
         \/ /\ disturbed' = disturbed
            /\ \A h \in Handlers : \/ task'[h] = task[h]
                                   \/ Apart(task[h]) /\ Apart(task'[h])
<1>1. ASSUME NEW k \in Handlers, NEW r \in RequestIds, NEW slot \in Slots,
             SaveRequest(k, r, slot)
      PROVE  \A h \in Handlers : \/ task'[h] = task[h]
                                 \/ Apart(task[h]) /\ Apart(task'[h])
  <2>1. [task[k] EXCEPT !.step = "lock"].step = "lock"
    BY DEF TypeOK, Tasks
  <2> QED
    BY <1>1, <2>1 DEF SaveRequest, TypeOK, Apart
<1>2. CASE Staff
  BY <1>1, <1>2
     DEF Staff, CreateRequest, DeleteRequest, ArchiveClaim, Handlers
<1>3. CASE Client
  BY <1>3 DEF Client, ScheduleEnsure, FileDocument, CloseRequest
<1>4. CASE Ensure
  BY <1>1, <1>4
     DEF Ensure, EnsureRequest, TakeEnsure, ReadRequests, EnsureDone, Handlers
<1>5. CASE ReadClaim \/ SendLetters
  BY <1>5 DEF ReadClaim, SendLetters
<1>6. CASE Trouble
  <2>1. ASSUME NEW k \in Handlers, HandlerThrows(k)
        PROVE  \/ disturbed' = TRUE
               \/ /\ disturbed' = disturbed
                  /\ \A h \in Handlers : \/ task'[h] = task[h]
                                         \/ Apart(task[h]) /\ Apart(task'[h])
    <3>1. CASE Scheduling(k)
      BY <2>1, <3>1 DEF HandlerThrows
    <3>2. CASE ~Scheduling(k)
      <4>1. disturbed' = disturbed
        BY <2>1, <3>2 DEF HandlerThrows, TypeOK
      <4>2. task'[k] = Rest /\ \A h \in Handlers \ {k} : task'[h] = task[h]
        BY <2>1 DEF HandlerThrows, TypeOK
      <4> QED
        BY <3>2, <4>1, <4>2 DEF Scheduling, Apart, Rest
    <3> QED
      BY <3>1, <3>2
  <2>2. CASE \E sent \in SUBSET Special : LetterThrows(sent)
    BY <2>2 DEF LetterThrows
  <2>3. CASE Crash
    <3>1. CASE \E h \in Handlers : Scheduling(h)
      BY <2>3, <3>1 DEF Crash
    <3>2. CASE ~\E h \in Handlers : Scheduling(h)
      <4>1. disturbed' = disturbed
        BY <2>3, <3>2 DEF Crash, TypeOK
      <4> QED
        BY <2>3, <3>2, <4>1 DEF Crash, Scheduling, Apart, Rest
    <3> QED
      BY <3>1, <3>2
  <2> QED
    BY <1>6, <2>1, <2>2, <2>3 DEF Trouble
<1>7. CASE UNCHANGED vars
  BY <1>7 DEF vars
<1> QED
  BY <1>2, <1>3, <1>4, <1>5, <1>6, <1>7

LEMMA KeptSeries ==
  ASSUME TypeOK, SeriesInv, lock' = lock, disturbed' = disturbed,
         \A d \in Later : letters'[d] = letters[d],
         \A h \in Handlers : \/ task'[h] = task[h]
                             \/ Apart(task[h]) /\ Apart(task'[h])
  PROVE  SeriesInv'
<1>1. \A h \in Handlers : Scheduling(h)' => Scheduling(h) /\ task'[h] = task[h]
  BY DEF Scheduling, Apart
<1>2. \A h \in Handlers : Scheduling(h) => Scheduling(h)'
  BY DEF Scheduling, Apart
<1> QED
  BY <1>1, <1>2 DEF SeriesInv, OneSeries, Later

LEMMA CheckSeries ==
  ASSUME TypeOK, SeriesInv, NEW h \in Handlers, CheckLock(h)
  PROVE  SeriesInv'
<1> SUFFICES ASSUME ~disturbed'
             PROVE  SeriesInv'
  BY DEF SeriesInv
<1>1. ~disturbed /\ disturbed' = disturbed
  BY DEF CheckLock, TypeOK
<1>2. lock' = lock /\ letters' = letters /\ ~Scheduling(h)
  BY DEF CheckLock, series, Scheduling
<1>3. CASE lock > 0
  <2>1. task'[h] = Rest /\ \A k \in Handlers \ {h} : task'[k] = task[k]
    BY <1>3 DEF CheckLock, TypeOK
  <2>2. \A k \in Handlers : \/ task'[k] = task[k]
                            \/ Apart(task[k]) /\ Apart(task'[k])
    BY <1>2, <2>1 DEF Scheduling, Apart, Rest
  <2> QED
    BY <1>1, <1>2, <2>2, KeptSeries
<1>4. CASE ~(lock > 0)
  <2>1. \A k \in Handlers : ~Scheduling(k)
    BY <1>1, <1>4 DEF CheckLock
  <2>2. /\ task'[h] = [step |-> "letters", todo |-> Delays]
        /\ \A k \in Handlers \ {h} : task'[k] = task[k]
    BY <1>4 DEF CheckLock, TypeOK
  <2>3. \A k \in Handlers : Scheduling(k)' => k = h
    BY <2>1, <2>2 DEF Scheduling
  <2>4. lock = 0 /\ \A d \in Later : letters[d] = 0
    <3>1. lock = 0
      BY <1>4 DEF TypeOK
    <3>2. \A d \in Later : d > lock + Night
      BY <3>1, Days DEF Later
    <3> QED
      BY <1>1, <2>1, <3>1, <3>2 DEF SeriesInv
  <2>5. OneSeries'
    BY <1>1, <1>2 DEF SeriesInv, OneSeries
  <2>6. Scheduling(h)'
    BY <2>2 DEF Scheduling
  <2> QED
    BY <1>2, <2>3, <2>4, <2>5, <2>6 DEF SeriesInv, Later
<1> QED
  BY <1>3, <1>4

LEMMA SetSeries ==
  ASSUME TypeOK, SeriesInv, NEW h \in Handlers, SetLock(h)
  PROVE  SeriesInv'
<1> SUFFICES ASSUME ~disturbed
             PROVE  SeriesInv'
  BY DEF SetLock, SeriesInv
<1>1. /\ lock' = LockDays /\ letters' = letters /\ disturbed' = disturbed
      /\ Scheduling(h)
  BY DEF SetLock, Scheduling
<1>2. task'[h] = Rest /\ \A k \in Handlers \ {h} : task'[k] = task[k]
  BY DEF SetLock, TypeOK
<1>3. \A k \in Handlers : ~Scheduling(k)'
  BY <1>1, <1>2 DEF SeriesInv, Scheduling, Rest
<1>4. \A d \in Later : ~(d > LockDays + Night)
  BY Days DEF Later
<1>5. OneSeries'
  BY <1>1 DEF SeriesInv, OneSeries
<1> QED
  BY <1>1, <1>3, <1>4, <1>5 DEF SeriesInv, Later

LEMMA AddSeries ==
  ASSUME TypeOK, SeriesInv, NEW h \in Handlers, NEW d \in Delays,
         NEW night \in 0..Night, AddLetter(h, d, night)
  PROVE  SeriesInv'
<1> SUFFICES ASSUME ~disturbed
             PROVE  SeriesInv'
  BY DEF AddLetter, SeriesInv
<1>1. lock' = lock /\ disturbed' = disturbed /\ Scheduling(h)
  BY DEF AddLetter, Scheduling
<1>2. \A k \in Handlers \ {h} : task'[k] = task[k]
  BY AddedTask
<1>3. Scheduling(h)' /\ task'[h].todo = task[h].todo \ {d}
  BY AddedTask DEF Scheduling
<1>4. \A k \in Handlers : Scheduling(k)' => k = h
  BY <1>1, <1>2 DEF SeriesInv, Scheduling
<1>5. lock = 0
  BY <1>1 DEF SeriesInv
<1>6. /\ d \in task[h].todo /\ task[h].todo \subseteq Delays
      /\ \A e \in task[h].todo : d <= e
  BY DEF AddLetter, TypeOK, Tasks
<1>7. \A e \in Later : letters[e] \in Nat /\ letters[e] <= 1
  <2>1. letters \in [0..Horizon -> Nat]
    BY DEF TypeOK
  <2>2. OneSeries
    BY DEF SeriesInv
  <2>3. \A e \in Later : e \in 0..Horizon /\ e \in (Night + 1)..Horizon
    BY Days DEF Later
  <2> QED
    BY <2>1, <2>2, <2>3 DEF OneSeries
<1>8. \A e \in Later : letters'[e] <= 1
  <2>1. d + night \in Later => letters[d + night] = 0
    BY <1>1, <1>6 DEF SeriesInv
  <2> QED
    BY <1>7, <2>1, AddedTask, Days DEF Later
<1>9. ASSUME NEW e \in task[h].todo \ {d}, NEW n \in 0..Night, e + n \in Later
      PROVE  letters'[e + n] = 0
  <2>1. d < e /\ d + Night < e
    BY <1>6, DelayAssumption
  <2>2. e + n # d + night /\ e + n \in 0..Horizon
    BY <2>1, <1>6, Days
  <2>3. letters'[e + n] = letters[e + n]
    BY <2>2, AddedTask
  <2>4. letters[e + n] = 0
    BY <1>1, <1>9 DEF SeriesInv
  <2> QED
    BY <2>3, <2>4
<1> QED
  BY <1>1, <1>3, <1>4, <1>5, <1>8, <1>9 DEF SeriesInv, OneSeries, Later

LEMMA TickSeries ==
  ASSUME TypeOK, SeriesInv, Tick
  PROVE  SeriesInv'
<1> SUFFICES ASSUME ~disturbed
             PROVE  SeriesInv'
  BY DEF Tick, SeriesInv
<1>1. /\ disturbed' = disturbed /\ task' = task
      /\ \A h \in Handlers : ~Scheduling(h) /\ ~Scheduling(h)'
  BY DEF Tick, Scheduling
<1>2. lock \in Nat /\ lock' = IF lock = 0 THEN 0 ELSE lock - 1
  BY DEF Tick, TypeOK
<1>3. \A d \in Later : letters'[d] = IF d = Horizon THEN 0 ELSE letters[d + 1]
  BY Days DEF Tick, Later
<1>4. ASSUME NEW d \in Later
      PROVE  letters'[d] <= 1
  BY <1>3, Days DEF SeriesInv, OneSeries, Later
<1>5. ASSUME NEW d \in Later, d > lock' + Night
      PROVE  letters'[d] = 0
  <2>1. CASE d = Horizon
    BY <1>3, <2>1
  <2>2. CASE d # Horizon
    <3>1. d + 1 \in Later /\ d + 1 > lock + Night
      BY <1>2, <1>5, <2>2, Days DEF Later
    <3>2. letters[d + 1] = 0
      BY <1>1, <3>1 DEF SeriesInv
    <3> QED
      BY <1>3, <2>2, <3>2
  <2> QED
    BY <2>1, <2>2
<1> QED
  BY <1>1, <1>4, <1>5 DEF SeriesInv, OneSeries, Later

LEMMA NextSeries == TypeOK /\ SeriesInv /\ [Next]_vars => SeriesInv'
<1> SUFFICES ASSUME TypeOK, SeriesInv, [Next]_vars
             PROVE  SeriesInv'
  OBVIOUS
<1>1. CASE \/ Staff \/ Client \/ Ensure \/ ReadClaim \/ SendLetters
           \/ Trouble \/ UNCHANGED vars
  <2>1. lock' = lock /\ letters' = letters
    BY <1>1, OtherSteps
  <2>2. CASE disturbed' = TRUE
    BY <2>2 DEF SeriesInv
  <2>3. CASE disturbed' # TRUE
    BY <1>1, <2>1, <2>3, OtherStepsSeries, KeptSeries
  <2> QED
    BY <2>2, <2>3
<1>2. CASE \E h \in Handlers : Create(h)
  BY <1>2, CheckSeries, SetSeries, AddSeries DEF Create
<1>3. CASE \E run \in Runs : TakeLetter(run)
  <2>1. /\ lock' = lock /\ task' = task /\ disturbed' = disturbed
        /\ \A d \in Later : letters'[d] = letters[d]
    BY <1>3, Days DEF TakeLetter, TypeOK, Later
  <2> QED
    BY <2>1, KeptSeries DEF Apart
<1>4. CASE Tick
  BY <1>4, TickSeries
<1> QED
  BY <1>1, <1>2, <1>3, <1>4 DEF Next, Remind

\* The customer is not sent two series of letters, unless two requests looked
\* for the lock together or one of them broke off before it set the lock.
THEOREM SeriesSingle == Spec => []OneSeries
<1>1. SeriesInv => OneSeries
  BY DEF SeriesInv, OneSeries
<1> QED
  BY <1>1, InitType, NextType, InitSeries, NextSeries, PTL DEF Spec

-----------------------------------------------------------------------------
(* Gaps.  While no ensure job broke off, a job that runs its loop leaves no *)
(* slot behind that is not covered, and once a job made a request and came  *)
(* to rest every slot is.  So a later job that skips a slot, because some   *)
(* passenger has a live request of the type, skips a covered one.           *)

Requested(slot) ==
  \E r \in RequestIds : /\ rows[r] # NoRow
                        /\ \/ rows[r].slot = slot
                           \/ rows[r].staff /\ rows[r].slot[2] = slot[2]
Covered(slot) == slot \in filed \/ Requested(slot)

\* The requests a job of the Ensurer made.
EnsurerRows == {r \in RequestIds : rows[r] # NoRow /\ ~rows[r].staff}

GapInv ==
  \/ interrupted
  \/ /\ ensured \/ (ensuring.step # "loop" /\ EnsurerRows # {}) =>
          \A slot \in Slots : Covered(slot)
     /\ ensuring.step = "requests" => Slots \ ensuring.slots \subseteq filed
     /\ ensuring.step = "loop" =>
          \A slot \in Slots \ ensuring.slots : Covered(slot)

\* Nothing is there at first.
LEMMA InitGaps == Init => GapInv
  BY DEF Init, GapInv, EnsurerRows, NoRow, NoEnsure

\* No step takes a row or a document away, or changes whose it is.
LEMMA CoveredKept ==
  ASSUME NEW slot, filed \subseteq filed',
         \A r \in RequestIds : rows[r] # NoRow =>
           /\ rows'[r] # NoRow /\ rows'[r].slot = rows[r].slot
           /\ rows'[r].staff = rows[r].staff,
         Covered(slot)
  PROVE  Covered(slot)'
  BY DEF Covered, Requested

\* Steps outside the Ensurer only add documents and rows of the staff.
LEMMA GapFrame ==
  ASSUME TypeOK, GapInv, filed \subseteq filed',
         \A r \in RequestIds : rows[r] # NoRow =>
           /\ rows'[r] # NoRow /\ rows'[r].slot = rows[r].slot
           /\ rows'[r].staff = rows[r].staff,
         \A r \in RequestIds : rows[r] = NoRow =>
           rows'[r] = NoRow \/ rows'[r].staff = TRUE,
         UNCHANGED <<ensuring, ensured, interrupted>>
  PROVE  GapInv'
<1>1. \A slot \in Slots : Covered(slot) => Covered(slot)'
  BY CoveredKept
<1>2. EnsurerRows' \subseteq EnsurerRows
  BY DEF EnsurerRows
<1> QED
  BY <1>1, <1>2 DEF GapInv

\* What a handler saves is a row of its own.
LEMMA SavedRow ==
  ASSUME TypeOK, NEW h \in Handlers, NEW r \in RequestIds, NEW slot \in Slots,
         SaveRequest(h, r, slot)
  PROVE  /\ rows'[r] # NoRow /\ rows'[r].slot = slot
         /\ rows'[r].staff = (h \in Http)
         /\ rows[r] = NoRow
         /\ \A q \in RequestIds \ {r} : rows'[q] = rows[q]
<1>1. rows'[r] = [life |-> "ACTIVE", slot |-> slot, staff |-> h \in Http]
  BY DEF SaveRequest, TypeOK
<1>2. rows'[r].life = "ACTIVE" /\ NoRow.life = "NONE"
  BY <1>1 DEF NoRow
<1> QED
  BY <1>1, <1>2 DEF SaveRequest, TypeOK

\* Closing or deleting a request keeps the rest of its row.
LEMMA LifeChange ==
  ASSUME TypeOK, NEW r \in RequestIds, rows[r].life # "NONE",
         NEW life \in {"ACTIVE", "INACTIVE", "DELETED"},
         rows' = [rows EXCEPT ![r].life = life]
  PROVE  \A q \in RequestIds :
           /\ rows[q] # NoRow => /\ rows'[q] # NoRow
                                 /\ rows'[q].slot = rows[q].slot
                                 /\ rows'[q].staff = rows[q].staff
           /\ rows[q] = NoRow => rows'[q] = NoRow
<1>1. rows[r] \in Row
  BY DEF TypeOK, NoRow
<1>2. rows'[r] = [rows[r] EXCEPT !.life = life]
  BY DEF TypeOK
<1>3. /\ rows'[r].life = life /\ rows'[r].slot = rows[r].slot
      /\ rows'[r].staff = rows[r].staff
  BY <1>1, <1>2 DEF Row
<1>4. rows'[r] # NoRow /\ rows[r] # NoRow
  BY <1>3 DEF NoRow
<1>5. \A q \in RequestIds \ {r} : rows'[q] = rows[q]
  BY DEF TypeOK
<1> QED
  BY <1>3, <1>4, <1>5

LEMMA StaffGaps ==
  ASSUME TypeOK, GapInv, Staff \/ Client
  PROVE  GapInv'
<1>1. ASSUME NEW h \in Http, NEW r \in RequestIds, NEW slot \in Slots,
             CreateRequest(h, r, slot)
      PROVE  GapInv'
  <2>1. h \in Handlers
    BY DEF Handlers
  <2>2. SaveRequest(h, r, slot)
        /\ UNCHANGED <<filed, ensuring, ensured, interrupted>>
    BY <1>1 DEF CreateRequest, ensure
  <2>3. rows'[r].staff = TRUE /\ rows[r] = NoRow
        /\ \A q \in RequestIds \ {r} : rows'[q] = rows[q]
    BY <2>1, <2>2, SavedRow
  <2> QED
    BY <2>2, <2>3, GapFrame
<1>2. ASSUME NEW r \in RequestIds, DeleteRequest(r) \/ CloseRequest(r)
      PROVE  GapInv'
  <2>1. PICK life \in {"INACTIVE", "DELETED"} :
          rows' = [rows EXCEPT ![r].life = life]
    BY <1>2 DEF DeleteRequest, CloseRequest
  <2>2. /\ rows[r].life # "NONE"
        /\ UNCHANGED <<filed, ensuring, ensured, interrupted>>
    BY <1>2 DEF DeleteRequest, CloseRequest, Live, ensure
  <2>3. \A q \in RequestIds :
          /\ rows[q] # NoRow => /\ rows'[q] # NoRow
                                /\ rows'[q].slot = rows[q].slot
                                /\ rows'[q].staff = rows[q].staff
          /\ rows[q] = NoRow => rows'[q] = NoRow
    BY <2>1, <2>2, LifeChange
  <2> QED
    BY <2>2, <2>3, GapFrame
<1>3. CASE ArchiveClaim \/ ScheduleEnsure \/ \E slot \in Slots : FileDocument(slot)
  <2>1. /\ rows' = rows /\ filed \subseteq filed'
        /\ UNCHANGED <<ensuring, ensured, interrupted>>
    BY <1>3 DEF ArchiveClaim, ScheduleEnsure, FileDocument, claim, ensure
  <2> QED
    BY <2>1, GapFrame
<1> QED
  BY <1>1, <1>2, <1>3 DEF Staff, Client

LEMMA EnsureGaps ==
  ASSUME TypeOK, GapInv, Ensure
  PROVE  GapInv'
<1>1. ASSUME NEW run \in Runs, TakeEnsure(run)
      PROVE  GapInv'
  <2>1. /\ ensuring.step = "rest" /\ ensuring'.step = "requests"
        /\ ensuring'.slots = Slots \ filed
        /\ UNCHANGED <<rows, filed, ensured, interrupted>>
    BY <1>1 DEF TakeEnsure, claim
  <2>2. \A slot : Covered(slot)' = Covered(slot)
    BY <2>1 DEF Covered, Requested
  <2>3. EnsurerRows' = EnsurerRows
    BY <2>1 DEF EnsurerRows
  <2> QED
    BY <2>1, <2>2, <2>3 DEF GapInv
<1>2. CASE ReadRequests
  <2>1. /\ ensuring.step = "requests" /\ ensuring'.step = "loop"
        /\ ensuring'.slots = {s \in ensuring.slots : ~Asked(s)}
        /\ UNCHANGED <<rows, filed, ensured, interrupted>>
    BY <1>2 DEF ReadRequests, TypeOK, claim
  <2>2. \A slot : Covered(slot)' = Covered(slot)
    BY <2>1 DEF Covered, Requested
  <2>3. ASSUME ~interrupted, NEW slot \in Slots, Asked(slot)
        PROVE  Covered(slot)
    <3>1. PICK r \in RequestIds : Live(r) /\ rows[r].slot[2] = slot[2]
      BY <2>3 DEF Asked
    <3>2. rows[r] # NoRow
      BY <3>1 DEF Live, NoRow
    <3>3. rows[r].staff \in BOOLEAN
      BY <3>2 DEF TypeOK, Row
    <3>4. CASE rows[r].staff
      BY <3>1, <3>2, <3>4 DEF Covered, Requested
    <3>5. CASE ~rows[r].staff
      <4>1. EnsurerRows # {}
        BY <3>2, <3>5 DEF EnsurerRows
      <4> QED
        BY <2>1, <2>3, <4>1 DEF GapInv
    <3> QED
      BY <3>3, <3>4, <3>5
  <2>4. ~interrupted => \A slot \in Slots \ ensuring'.slots : Covered(slot)
    BY <2>1, <2>3 DEF GapInv, Covered
  <2> QED
    BY <2>1, <2>2, <2>4 DEF GapInv
<1>3. ASSUME NEW r \in RequestIds, NEW slot \in Slots, EnsureRequest(r, slot)
      PROVE  GapInv'
  <2>1. Ensurer \in Handlers
    BY DEF Handlers
  <2>2. /\ ensuring.step = "loop" /\ ensuring'.step = "loop"
        /\ ensuring'.slots = ensuring.slots \ {slot}
        /\ SaveRequest(Ensurer, r, slot)
        /\ UNCHANGED <<filed, ensured, interrupted>>
    BY <1>3 DEF EnsureRequest, TypeOK
  <2>3. /\ rows'[r] # NoRow /\ rows'[r].slot = slot /\ rows[r] = NoRow
        /\ \A q \in RequestIds \ {r} : rows'[q] = rows[q]
    BY <2>1, <2>2, SavedRow
  <2>4. \A s \in Slots : Covered(s) => Covered(s)'
    BY <2>2, <2>3, CoveredKept
  <2>5. Covered(slot)'
    BY <2>3 DEF Covered, Requested
  <2> QED
    BY <2>2, <2>4, <2>5 DEF GapInv
<1>4. CASE EnsureDone
  <2>1. /\ ensuring.step = "loop" /\ ensuring.slots = {}
        /\ ensuring'.step = "rest"
        /\ UNCHANGED <<rows, filed, interrupted>>
    BY <1>4 DEF EnsureDone, NoEnsure, claim
  <2>2. \A slot : Covered(slot)' = Covered(slot)
    BY <2>1 DEF Covered, Requested
  <2> QED
    BY <2>1, <2>2 DEF GapInv
<1> QED
  BY <1>1, <1>2, <1>3, <1>4 DEF Ensure

\* A job that breaks off says so; a restart while none runs changes nothing.
LEMMA TroubleGaps ==
  ASSUME TypeOK, GapInv, Trouble
  PROVE  GapInv'
<1>1. CASE \E sent \in SUBSET Special : LetterThrows(sent)
  <2>1. UNCHANGED <<rows, filed, ensuring, ensured, interrupted>>
    BY <1>1 DEF LetterThrows, claim, ensure
  <2> QED
    BY <2>1, GapFrame
<1>2. ASSUME NEW h \in Handlers, HandlerThrows(h)
      PROVE  GapInv'
  <2>1. CASE h = Ensurer
    BY <1>2, <2>1 DEF HandlerThrows, GapInv
  <2>2. CASE h # Ensurer
    <3>1. UNCHANGED <<rows, filed, ensuring, ensured, interrupted>>
      BY <1>2, <2>2 DEF HandlerThrows, claim
    <3> QED
      BY <3>1, GapFrame
  <2> QED
    BY <2>1, <2>2
<1>3. CASE Crash
  <2>1. CASE ensuring.step # "rest"
    <3>1. interrupted' = TRUE
      BY <1>3, <2>1 DEF Crash
    <3> QED
      BY <3>1 DEF GapInv
  <2>2. CASE ensuring.step = "rest"
    <3>1. /\ interrupted' = interrupted /\ ensuring'.step = "rest"
          /\ UNCHANGED <<rows, filed, ensured>>
      BY <1>3, <2>2 DEF Crash, NoEnsure, TypeOK, claim
    <3>2. \A slot : Covered(slot)' = Covered(slot)
      BY <3>1 DEF Covered, Requested
    <3>3. EnsurerRows' = EnsurerRows
      BY <3>1 DEF EnsurerRows
    <3> QED
      BY <2>2, <3>1, <3>2, <3>3 DEF GapInv
  <2> QED
    BY <2>1, <2>2
<1> QED
  BY <1>1, <1>2, <1>3 DEF Trouble

LEMMA NextGaps == TypeOK /\ GapInv /\ [Next]_vars => GapInv'
<1> SUFFICES ASSUME TypeOK, GapInv, [Next]_vars
             PROVE  GapInv'
  OBVIOUS
<1>1. CASE (\E h \in Handlers : Create(h)) \/ Remind \/ Tick \/ UNCHANGED vars
  <2>1. UNCHANGED <<rows, filed, ensuring, ensured, interrupted>>
    BY <1>1 DEF Create, CheckLock, SetLock, AddLetter, Remind, TakeLetter,
                ReadClaim, SendLetters, Tick, vars, claim, ensure
  <2> QED
    BY <2>1, GapFrame
<1> QED
  BY <1>1, StaffGaps, EnsureGaps, TroubleGaps DEF Next

\* Once the ensure job has run to its end, each passenger has each document
\* or is asked for it, however the job was interleaved with the staff, who
\* create and withdraw requests, and however often it ran, unless a member of
\* staff had asked for the type or a run broke off.
THEOREM GapsAreRequested == Spec => []GapsRequested
<1>1. GapInv => GapsRequested
  BY DEF GapInv, GapsRequested, Covered, Requested
<1> QED
  BY <1>1, InitType, NextType, InitGaps, NextGaps, PTL DEF Spec
=============================================================================
