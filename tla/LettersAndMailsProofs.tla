------------------------ MODULE LettersAndMailsProofs ------------------------
(***************************************************************************)
(* Theorems about the letters that ask for payment details                 *)
(* (PaymentDetails) and about the mails that come in (OfficeMailbox), for  *)
(* every value of the constants.  Neither says anything of the other.      *)
(***************************************************************************)
EXTENDS PaymentDetails, OfficeMailbox, FiniteSetTheorems, TLAPS

-----------------------------------------------------------------------------
(* The payment details.                                                    *)

LEMMA Bounds == /\ BlockDays \in Nat \ {0} /\ Horizon = BlockDays
                /\ \A d \in Delays : d \in 0..Horizon /\ d < BlockDays
  BY DelayAssumption DEF Horizon

LEMMA FirstTry == NewTry \in Tries
  BY AttemptAssumption DEF NewTry, Tries

LEMMA OneMore ==
  ASSUME NEW S, NEW f \in [S -> Nat], NEW x
  PROVE  [f EXCEPT ![x] = @ + 1] \in [S -> Nat]
<1>1. [f EXCEPT ![x] = @ + 1] = [y \in S |-> IF y = x THEN f[x] + 1 ELSE f[y]]
  OBVIOUS
<1>2. \A y \in S : (IF y = x THEN f[x] + 1 ELSE f[y]) \in Nat
  OBVIOUS
<1> QED
  BY <1>1, <1>2

LEMMA OneLess ==
  ASSUME NEW S, NEW f \in [S -> Nat], NEW x \in S, f[x] > 0
  PROVE  [f EXCEPT ![x] = @ - 1] \in [S -> Nat]
<1>1. f[x] - 1 \in Nat
  OBVIOUS
<1> QED
  BY <1>1

LEMMA SpendTypes ==
  ASSUME spent \in [Events -> Nat], NEW e \in Events, Spend(e)
  PROVE  spent' \in [Events -> Nat]
  BY DEF Spend

\* What one step of a request does to the table of requests.
LEMMA GotoTask ==
  ASSUME TypeOK, NEW h \in Http, NEW from \in Steps, NEW to \in Steps,
         Goto(h, from, to)
  PROVE  /\ task[h].step = from
         /\ task'[h].step = to /\ task'[h].link \in {NoLink, task[h].link}
         /\ \A k \in Http \ {h} : task'[k] = task[k]
         /\ task' \in [Http -> [step : Steps, link : 0..sent]]
<1>1. task[h] \in [step : Steps, link : 0..sent] /\ sent \in Nat
  BY DEF TypeOK
<1>2. CASE to = "rest"
  BY <1>1, <1>2 DEF Goto, Rest, TypeOK, NoLink, Steps
<1>3. CASE to # "rest"
  <2>1. [task[h] EXCEPT !.step = to] \in [step : Steps, link : 0..sent]
    BY <1>1
  <2>2. /\ [task[h] EXCEPT !.step = to].step = to
        /\ [task[h] EXCEPT !.step = to].link = task[h].link
    BY <1>1
  <2> QED
    BY <1>3, <2>1, <2>2 DEF Goto, TypeOK
<1> QED
  BY <1>2, <1>3

-----------------------------------------------------------------------------
(* Types.                                                                  *)

LEMMA InitType == Init => TypeOK
<1> SUFFICES ASSUME Init
             PROVE  TypeOK
  OBVIOUS
<1>1. Idle \in [step : {"rest", "send"}, try : Tries, calm : BOOLEAN]
  BY FirstTry DEF Idle
<1>2. Rest \in [step : Steps, link : 0..0]
  BY DEF Rest, Steps, NoLink
<1>3. 0 \in 0..BlockDays /\ 0 \in 0..MaxLinks
  BY Bounds, AttemptAssumption
<1> QED
  BY <1>1, <1>2, <1>3 DEF Init, TypeOK

LEMMA BeginType ==
  ASSUME TypeOK, NEW h \in Http, Begin(h)
  PROVE  TypeOK'
<1>1. CASE BeginRequest(h)
  <2>1. task' \in [Http -> [step : Steps, link : 0..sent]]
    BY <1>1, GotoTask DEF BeginRequest, Steps
  <2>2. spent' \in [Events -> Nat]
    BY <1>1, SpendTypes DEF BeginRequest, Events, TypeOK
  <2>3. adding' \in [Delays -> Nat]
    BY <1>1 DEF BeginRequest, TypeOK
  <2> QED
    BY <1>1, <2>1, <2>2, <2>3 DEF BeginRequest, TypeOK, updates, tokens
<1>2. ASSUME NEW l \in Links, Verify(h, l)
      PROVE  TypeOK'
  <2>1. l \in 1..sent /\ l \in 0..sent
    BY <1>2, AttemptAssumption DEF Verify, Links, TypeOK
  <2>2. task' \in [Http -> [step : Steps, link : 0..sent]]
    BY <1>2, <2>1 DEF Verify, TypeOK, Steps
  <2>3. spent' \in [Events -> Nat]
    BY <1>2, SpendTypes DEF Verify, Events, TypeOK
  <2> QED
    BY <1>2, <2>1, <2>2, <2>3 DEF Verify, TypeOK, updates, queue
<1>3. CASE MarkViewed(h)
  <2>1. task' \in [Http -> [step : Steps, link : 0..sent]]
    BY <1>3, GotoTask DEF MarkViewed, Steps
  <2>2. spent' \in [Events -> Nat]
    BY <1>3, SpendTypes DEF MarkViewed, Events, TypeOK
  <2> QED
    BY <1>3, <2>1, <2>2 DEF MarkViewed, TypeOK, queue, tokens
<1> QED
  BY <1>1, <1>2, <1>3 DEF Begin

LEMMA ProceedType ==
  ASSUME TypeOK, NEW h \in Http, Proceed(h)
  PROVE  TypeOK'
<1> DEFINE Tasks == [Http -> [step : Steps, link : 0..sent]]
<1>1. CASE LiftBlock(h)
  <2>1. task' \in Tasks
    BY <1>1, GotoTask DEF LiftBlock, Steps
  <2> QED
    BY <1>1, <2>1, Bounds DEF LiftBlock, TypeOK, updates, tokens, queue
<1>2. CASE SetRequested(h)
  <2>1. task' \in Tasks
    BY <1>2, GotoTask DEF SetRequested, Steps
  <2> QED
    BY <1>2, <2>1 DEF SetRequested, TypeOK, updates, tokens, queue
<1>3. CASE Revoke(h)
  <2>1. task' \in Tasks
    BY <1>3, GotoTask DEF Revoke, Steps
  <2>2. revoked' \subseteq 0..sent
    BY <1>3 DEF Revoke, TypeOK
  <2> QED
    BY <1>3, <2>1, <2>2 DEF Revoke, TypeOK, updates, queue
<1>4. CASE ClearRequested(h)
  <2>1. task' \in Tasks
    BY <1>4, GotoTask DEF ClearRequested, Steps
  <2> QED
    BY <1>4, <2>1 DEF ClearRequested, TypeOK, updates, tokens, queue
<1>5. CASE SetBlock(h)
  <2>1. task' \in Tasks
    BY <1>5, GotoTask DEF SetBlock, Steps
  <2> QED
    BY <1>5, <2>1, Bounds DEF SetBlock, TypeOK, updates, tokens, queue
<1>6. CASE RaiseFlag(h)
  <2>1. task' \in Tasks
    BY <1>6, GotoTask DEF RaiseFlag, Steps
  <2> QED
    BY <1>6, <2>1 DEF RaiseFlag, TypeOK, tokens, queue
<1>7. CASE AddUpdate(h)
  <2>1. task' \in Tasks
    BY <1>7, GotoTask DEF AddUpdate, Steps
  <2> QED
    BY <1>7, <2>1 DEF AddUpdate, TypeOK, tokens, queue
<1>8. CASE SaveDetails(h)
  <2>1. task' \in Tasks
    BY <1>8, GotoTask DEF SaveDetails, Steps
  <2>2. saves' \in [Links -> Nat]
    BY <1>8, OneMore DEF SaveDetails, TypeOK
  <2> QED
    BY <1>8, <2>1, <2>2 DEF SaveDetails, TypeOK, queue
<1>9. CASE ClearFlag(h)
  <2>1. task' \in Tasks
    BY <1>9, GotoTask DEF ClearFlag, Steps
  <2> QED
    BY <1>9, <2>1 DEF ClearFlag, TypeOK, tokens, queue
<1> QED
  BY <1>1, <1>2, <1>3, <1>4, <1>5, <1>6, <1>7, <1>8, <1>9 DEF Proceed

LEMMA LettersType ==
  ASSUME TypeOK,
         \/ \E d \in Delays : AddLetter(d)
         \/ Remind \/ LetterThrows
  PROVE  TypeOK'
<1>1. ASSUME NEW d \in Delays, AddLetter(d)
      PROVE  TypeOK'
  <2>1. adding' \in [Delays -> Nat] /\ letters' \in [0..Horizon -> Nat]
    BY <1>1, Bounds DEF AddLetter, TypeOK
  <2> QED
    BY <1>1, <2>1 DEF AddLetter, TypeOK, updates, tokens
<1>2. ASSUME NEW t \in Tries, StartLetter(t)
      PROVE  TypeOK'
  <2>1. letters' \in [0..Horizon -> Nat]
    BY <1>2, OneLess, Bounds DEF StartLetter, TypeOK
  <2>4. again' \in [Tries -> Nat]
    <3>1. CASE again' = again
      BY <3>1 DEF TypeOK
    <3>2. CASE again[t] > 0 /\ again' = [again EXCEPT ![t] = @ - 1]
      BY <3>2, OneLess DEF TypeOK
    <3> QED
      BY <1>2, <3>1, <3>2 DEF StartLetter
  <2>2. worker' \in [step : {"rest", "send"}, try : Tries, calm : BOOLEAN]
    BY <1>2, FirstTry DEF StartLetter, TypeOK, Idle
  <2> QED
    BY <1>2, <2>1, <2>2, <2>4 DEF StartLetter, TypeOK, updates, tokens
<1>3. CASE SendLetter
  <2>1. sent' \in 0..MaxLinks /\ sent \in Nat /\ sent <= sent'
    BY <1>3, AttemptAssumption DEF SendLetter, TypeOK
  <2>2. /\ revoked \subseteq 0..sent' /\ shared \subseteq 1..sent'
        /\ task \in [Http -> [step : Steps, link : 0..sent']]
    BY <2>1 DEF TypeOK
  <2>3. worker' \in [step : {"rest", "send"}, try : Tries, calm : BOOLEAN]
    BY <1>3, FirstTry DEF SendLetter, Idle
  <2> QED
    BY <1>3, <2>1, <2>2, <2>3 DEF SendLetter, TypeOK, updates, tokens
<1>4. CASE LetterThrows
  <2>1. again' \in [Tries -> Nat]
    BY <1>4, OneMore DEF LetterThrows, TypeOK
  <2>2. worker' \in [step : {"rest", "send"}, try : Tries, calm : BOOLEAN]
    BY <1>4, FirstTry DEF LetterThrows, Idle
  <2>3. spent' \in [Events -> Nat]
    BY <1>4, SpendTypes DEF LetterThrows, Events, TypeOK
  <2> QED
    BY <1>4, <2>1, <2>2, <2>3 DEF LetterThrows, TypeOK, updates, tokens
<1> QED
  BY <1>1, <1>2, <1>3, <1>4 DEF Remind

LEMMA OtherType ==
  ASSUME TypeOK,
         \/ \E h \in Http : HandlerThrows(h)
         \/ Crash \/ Tick \/ UNCHANGED vars
  PROVE  TypeOK'
<1>1. Rest \in [step : Steps, link : 0..sent]
  BY DEF Rest, Steps, NoLink, TypeOK
<1>2. ASSUME NEW h \in Http, HandlerThrows(h)
      PROVE  TypeOK'
  <2>1. spent' \in [Events -> Nat]
    BY <1>2, SpendTypes DEF HandlerThrows, Events, TypeOK
  <2> QED
    BY <1>1, <1>2, <2>1 DEF HandlerThrows, TypeOK, queue, updates, tokens
<1>3. CASE Crash
  <2>1. again' \in [Tries -> Nat]
    BY <1>3, OneMore DEF Crash, TypeOK
  <2>2. worker' \in [step : {"rest", "send"}, try : Tries, calm : BOOLEAN]
    BY <1>3, FirstTry DEF Crash, Idle
  <2>3. spent' \in [Events -> Nat]
    BY <1>3, SpendTypes DEF Crash, Events, TypeOK
  <2> QED
    BY <1>1, <1>3, <2>1, <2>2, <2>3 DEF Crash, TypeOK, updates, tokens
<1>4. CASE Tick
  <2>1. block' \in 0..BlockDays
    BY <1>4, Bounds DEF Tick, TypeOK
  <2>2. letters' \in [0..Horizon -> Nat]
    BY <1>4, Bounds DEF Tick, TypeOK
  <2> QED
    BY <1>4, <2>1, <2>2 DEF Tick, TypeOK, updates, tokens
<1>5. CASE UNCHANGED vars
  BY <1>5 DEF vars, TypeOK, queue, updates, tokens
<1> QED
  BY <1>2, <1>3, <1>4, <1>5

LEMMA NextType == TypeOK /\ [Next]_vars => TypeOK'
  BY BeginType, ProceedType, LettersType, OtherType DEF Next, Trouble

\* The types hold, whatever the requests, letters, days and attempts.
THEOREM TypeCorrect == Spec => []TypeOK
  BY InitType, NextType, PTL DEF Spec

-----------------------------------------------------------------------------
(* After an answer.  While the last word was an answer, every letter that  *)
(* is due, being added or still ahead falls before the block expires, and  *)
(* nobody is about to lift it.                                             *)

QuietInv ==
  /\ letters[Horizon] = 0
  /\ NoLetterAfterAnswer
  /\ quiet =>
       /\ At("lift") = {}
       /\ \A d \in 0..Horizon : letters[d] > 0 => d < block
       /\ \A d \in Delays : adding[d] > 0 => d < block
       /\ (\E t \in Tries : again[t] > 0) \/ worker.step = "send" => block > 0

LEMMA InitQuiet == Init => QuietInv
  BY Bounds DEF Init, QuietInv, NoLetterAfterAnswer, Idle

\* Steps that leave the letters, their worker and the block as they are.
LEMMA KeptQuiet ==
  ASSUME TypeOK, QuietInv,
         UNCHANGED <<block, letters, again, worker>>,
         quiet' => quiet /\ At("lift")' = {} /\ adding' = adding
  PROVE  QuietInv'
  BY DEF QuietInv, NoLetterAfterAnswer

LEMMA RequestQuiet ==
  ASSUME TypeOK, QuietInv, NEW h \in Http, Begin(h) \/ Proceed(h)
  PROVE  QuietInv'
<1>1. CASE BeginRequest(h)
  BY <1>1, KeptQuiet DEF BeginRequest
<1>2. ASSUME NEW from \in Steps, NEW to \in Steps \ {"lift"},
             Goto(h, from, to), quiet' = quiet,
             UNCHANGED <<block, queue>>
      PROVE  QuietInv'
  <2>1. quiet => At("lift")' = {}
    BY <1>2, GotoTask DEF QuietInv, At
  <2> QED
    BY <1>2, <2>1, KeptQuiet DEF queue
<1>3. ASSUME NEW l \in Links, Verify(h, l)
      PROVE  QuietInv'
  <2>1. quiet => At("lift")' = {}
    BY <1>3 DEF Verify, QuietInv, At, TypeOK
  <2> QED
    BY <1>3, <2>1, KeptQuiet DEF Verify, queue
<1>4. CASE LiftBlock(h)
  <2>1. ~quiet /\ ~quiet'
    BY <1>4, GotoTask DEF LiftBlock, QuietInv, At, Steps
  <2> QED
    BY <1>4, <2>1 DEF LiftBlock, QuietInv, NoLetterAfterAnswer, queue
<1>5. CASE SetBlock(h)
  <2>1. block' = BlockDays /\ UNCHANGED queue
    BY <1>5 DEF SetBlock
  <2>2. At("lift")' \subseteq At("lift")
    BY <1>5, GotoTask DEF SetBlock, At, Steps
  <2>3. quiet' => At("lift")' = {}
    BY <1>5, <2>2 DEF SetBlock, QuietInv
  <2>4. \A d \in 0..Horizon : letters[d] > 0 => d < BlockDays
    BY Bounds DEF QuietInv
  <2> QED
    BY <2>1, <2>3, <2>4, Bounds DEF QuietInv, NoLetterAfterAnswer, queue
<1>6. CASE \/ MarkViewed(h) \/ SetRequested(h) \/ Revoke(h)
           \/ ClearRequested(h) \/ RaiseFlag(h) \/ AddUpdate(h)
           \/ SaveDetails(h) \/ ClearFlag(h)
  BY <1>2, <1>6
     DEF MarkViewed, SetRequested, Revoke, ClearRequested, RaiseFlag,
         AddUpdate, SaveDetails, ClearFlag, Steps
<1> QED
  BY <1>1, <1>3, <1>4, <1>5, <1>6 DEF Begin, Proceed

LEMMA LettersQuiet ==
  ASSUME TypeOK, QuietInv,
         \/ \E d \in Delays : AddLetter(d)
         \/ Remind \/ LetterThrows
  PROVE  QuietInv'
<1>1. ASSUME NEW d \in Delays, AddLetter(d)
      PROVE  QuietInv'
  <2>1. d \in 0..Horizon /\ d # Horizon /\ At("lift")' = At("lift")
    BY <1>1, Bounds DEF AddLetter, At
  <2>2. \A e \in 0..Horizon : letters'[e] > 0 => letters[e] > 0 \/ e = d
    BY <1>1, <2>1 DEF AddLetter, TypeOK
  <2>3. \A e \in Delays : adding'[e] > 0 => adding[e] > 0
    BY <1>1 DEF AddLetter, TypeOK
  <2>4. letters'[Horizon] = 0
    BY <1>1, <2>1, Bounds DEF AddLetter, TypeOK, QuietInv
  <2> QED
    BY <1>1, <2>1, <2>2, <2>3, <2>4
       DEF AddLetter, QuietInv, NoLetterAfterAnswer
<1>2. ASSUME NEW t \in Tries, StartLetter(t)
      PROVE  QuietInv'
  <2>1. \A e \in 0..Horizon : letters'[e] > 0 => letters[e] > 0
    BY <1>2 DEF StartLetter, TypeOK
  <2>2. \A u \in Tries : again'[u] > 0 => again[u] > 0
    BY <1>2 DEF StartLetter, TypeOK
  <2>3. letters'[Horizon] = 0
    BY <1>2, Bounds DEF StartLetter, TypeOK, QuietInv
  <2>4. quiet => block > 0
    BY <1>2, Bounds DEF StartLetter, TypeOK, QuietInv
  <2>5. worker'.step = "send" => ~quiet /\ ~worker'.calm
    BY <1>2, <2>4 DEF StartLetter, Idle
  <2> QED
    BY <1>2, <2>1, <2>2, <2>3, <2>5
       DEF StartLetter, QuietInv, NoLetterAfterAnswer, At
<1>3. CASE SendLetter
  BY <1>3 DEF SendLetter, Idle, QuietInv, NoLetterAfterAnswer, At
<1>4. CASE LetterThrows
  <2>1. worker.step = "send" /\ worker'.step = "rest"
    BY <1>4 DEF LetterThrows, Idle
  <2> QED
    BY <1>4, <2>1 DEF LetterThrows, QuietInv, NoLetterAfterAnswer, At
<1> QED
  BY <1>1, <1>2, <1>3, <1>4 DEF Remind

LEMMA TickQuiet ==
  ASSUME TypeOK, QuietInv, Tick
  PROVE  QuietInv'
<1>1. /\ worker' = worker /\ worker.step = "rest" /\ again' = again
      /\ \A t \in Tries : ~(again[t] > 0)
      /\ quiet' = quiet /\ At("lift")' = At("lift") /\ adding' = adding
      /\ \A d \in Delays : ~(adding[d] > 0)
  BY DEF Tick, At, TypeOK
<1>2. letters'[Horizon] = 0
  BY Bounds DEF Tick
<1>3. ASSUME quiet, NEW d \in 0..Horizon, letters'[d] > 0
      PROVE  d < block'
  <2>1. d + 1 \in 0..Horizon /\ letters'[d] = letters[d + 1]
    BY <1>3, Bounds DEF Tick
  <2>2. d + 1 < block
    BY <1>3, <2>1 DEF QuietInv
  <2> QED
    BY <2>2, Bounds DEF Tick, TypeOK
<1> QED
  BY <1>1, <1>2, <1>3 DEF QuietInv, NoLetterAfterAnswer

LEMMA OtherQuiet ==
  ASSUME TypeOK, QuietInv,
         \/ \E h \in Http : HandlerThrows(h)
         \/ Crash \/ UNCHANGED vars
  PROVE  QuietInv'
<1>1. ASSUME NEW h \in Http, HandlerThrows(h)
      PROVE  QuietInv'
  <2>1. At("lift")' \subseteq At("lift")
    BY <1>1 DEF HandlerThrows, At, TypeOK, Rest
  <2> QED
    BY <1>1, <2>1, KeptQuiet DEF HandlerThrows, QuietInv, queue
<1>2. CASE Crash
  <2>1. At("lift")' = {} /\ worker'.step = "rest"
    BY <1>2 DEF Crash, At, Rest, Idle
  <2>2. \A d \in Delays : ~(adding'[d] > 0)
    BY <1>2 DEF Crash
  <2>3. \/ again' = again
        \/ worker.step = "send"
    BY <1>2 DEF Crash
  <2> QED
    BY <1>2, <2>1, <2>2, <2>3 DEF Crash, QuietInv, NoLetterAfterAnswer
<1>3. CASE UNCHANGED vars
  BY <1>3 DEF vars, queue, QuietInv, NoLetterAfterAnswer, At
<1> QED
  BY <1>1, <1>2, <1>3

LEMMA NextQuiet == TypeOK /\ QuietInv /\ [Next]_vars => QuietInv'
  BY RequestQuiet, LettersQuiet, TickQuiet, OtherQuiet DEF Next, Trouble

\* A customer who has answered gets no further letter until staff ask again.
THEOREM AnswerSilences == Spec => []NoLetterAfterAnswer
<1>1. QuietInv => NoLetterAfterAnswer
  BY DEF QuietInv
<1> QED
  BY <1>1, InitType, NextType, InitQuiet, NextQuiet, PTL DEF Spec

-----------------------------------------------------------------------------
(* The mark of a request and the block of an answer.  A request on its way *)
(* to the mark has lifted the block, and an answer on its way to the block *)
(* has cleared the mark, unless the two met.                               *)

OpenInv ==
  /\ RequestedMeansOpen
  /\ At("request") # {} /\ block > 0 => crossed
  /\ At("block") # {} /\ requested => crossed

LEMMA InitOpen == Init => OpenInv
  BY DEF Init, OpenInv, RequestedMeansOpen, At, Rest

\* A step after which nobody stands at a step of the table who was not there.
LEMMA GotoAt ==
  ASSUME TypeOK, NEW h \in Http, NEW from \in Steps, NEW to \in Steps,
         Goto(h, from, to)
  PROVE  /\ h \in At(from)
         /\ \A s \in Steps : s # to => At(s)' \subseteq At(s)
         /\ At(to)' \subseteq At(to) \cup {h}
<1>1. task[h].step = from /\ task'[h].step = to
  BY GotoTask
<1>2. \A k \in Http \ {h} : task'[k] = task[k]
  BY GotoTask
<1> QED
  BY <1>1, <1>2 DEF At

\* Nobody comes to the mark or to the block, and neither is set.
LEMMA KeptOpen ==
  ASSUME OpenInv,
         crossed => crossed', requested' => requested,
         block' > 0 => block > 0,
         At("request")' \subseteq At("request"),
         At("block")' \subseteq At("block")
  PROVE  OpenInv'
  BY DEF OpenInv, RequestedMeansOpen

LEMMA RequestOpen ==
  ASSUME TypeOK, OpenInv, NEW h \in Http, Begin(h) \/ Proceed(h)
  PROVE  OpenInv'
<1>1. ASSUME NEW from \in Steps, NEW to \in Steps \ {"request", "block"},
             Goto(h, from, to), UNCHANGED <<requested, block, crossed>>
      PROVE  OpenInv'
  <2>1. /\ At("request")' \subseteq At("request")
        /\ At("block")' \subseteq At("block")
    BY <1>1, GotoAt DEF Steps
  <2> QED
    BY <1>1, <2>1, KeptOpen
<1>2. ASSUME NEW l \in Links, Verify(h, l)
      PROVE  OpenInv'
  <2>1. /\ At("request")' \subseteq At("request")
        /\ At("block")' \subseteq At("block")
    BY <1>2 DEF Verify, At, TypeOK
  <2> QED
    BY <1>2, <2>1, KeptOpen DEF Verify
<1>3. CASE LiftBlock(h)
  <2>1. At("block")' \subseteq At("block")
    BY <1>3, GotoAt DEF LiftBlock, Steps
  <2> QED
    BY <1>3, <2>1 DEF LiftBlock, OpenInv, RequestedMeansOpen
<1>4. CASE SetRequested(h)
  <2>1. /\ h \in At("request")
        /\ At("request")' \subseteq At("request")
        /\ At("block")' \subseteq At("block")
    BY <1>4, GotoAt DEF SetRequested, Steps
  <2> QED
    BY <1>4, <2>1 DEF SetRequested, OpenInv, RequestedMeansOpen
<1>5. CASE ClearRequested(h)
  <2>1. At("request")' \subseteq At("request")
    BY <1>5, GotoAt DEF ClearRequested, Steps
  <2> QED
    BY <1>5, <2>1 DEF ClearRequested, OpenInv, RequestedMeansOpen
<1>6. CASE SetBlock(h)
  <2>1. /\ h \in At("block")
        /\ At("request")' \subseteq At("request")
        /\ At("block")' \subseteq At("block")
    BY <1>6, GotoAt DEF SetBlock, Steps
  <2> QED
    BY <1>6, <2>1 DEF SetBlock, OpenInv, RequestedMeansOpen
<1>7. CASE \/ BeginRequest(h) \/ MarkViewed(h) \/ Revoke(h) \/ RaiseFlag(h)
           \/ AddUpdate(h) \/ SaveDetails(h) \/ ClearFlag(h)
  BY <1>1, <1>7
     DEF BeginRequest, MarkViewed, Revoke, RaiseFlag, AddUpdate, SaveDetails,
         ClearFlag, Steps
<1> QED
  BY <1>2, <1>3, <1>4, <1>5, <1>6, <1>7 DEF Begin, Proceed

LEMMA OtherOpen ==
  ASSUME TypeOK, OpenInv,
         \/ \E d \in Delays : AddLetter(d)
         \/ Remind \/ Trouble \/ Tick \/ UNCHANGED vars
  PROVE  OpenInv'
<1>1. CASE \/ \E d \in Delays : AddLetter(d)
           \/ Remind \/ LetterThrows \/ UNCHANGED vars
  BY <1>1, KeptOpen
     DEF AddLetter, Remind, StartLetter, SendLetter, LetterThrows, vars, At
<1>2. ASSUME NEW h \in Http, HandlerThrows(h)
      PROVE  OpenInv'
  <2>1. /\ At("request")' \subseteq At("request")
        /\ At("block")' \subseteq At("block")
    BY <1>2 DEF HandlerThrows, At, TypeOK, Rest
  <2> QED
    BY <1>2, <2>1, KeptOpen DEF HandlerThrows
<1>3. CASE Crash
  <2>1. At("request")' = {} /\ At("block")' = {}
    BY <1>3 DEF Crash, At, Rest
  <2> QED
    BY <1>3, <2>1, KeptOpen DEF Crash
<1>4. CASE Tick
  <2>1. block' > 0 => block > 0
    BY <1>4 DEF Tick, TypeOK
  <2> QED
    BY <1>4, <2>1, KeptOpen DEF Tick, At
<1> QED
  BY <1>1, <1>2, <1>3, <1>4 DEF Trouble

LEMMA NextOpen == TypeOK /\ OpenInv /\ [Next]_vars => OpenInv'
  BY RequestOpen, OtherOpen DEF Next

\* A claim marked as asked is not blocked, unless a request and an answer met.
THEOREM MarkOpensLetters == Spec => []RequestedMeansOpen
<1>1. OpenInv => RequestedMeansOpen
  BY DEF OpenInv
<1> QED
  BY <1>1, InitType, NextType, InitOpen, NextOpen, PTL DEF Spec

-----------------------------------------------------------------------------
(* The flag of recent updates.  An answer that has raised the flag finds it *)
(* up until it has saved, and staff who are about to clear it have marked   *)
(* every row, unless the two met.                                           *)

FlagInv ==
  /\ NewDetailsFlagged
  /\ ~missed /\ At("row") \cup At("save") # {} => flag /\ At("unflag") = {}
  /\ ~missed /\ At("unflag") # {} => ~news /\ unviewed = 0

LEMMA InitFlag == Init => FlagInv
  BY DEF Init, FlagInv, NewDetailsFlagged, At, Rest

\* Nobody comes to a step that writes the rows, the details or the flag.
LEMMA KeptFlag ==
  ASSUME FlagInv, UNCHANGED updates,
         \A s \in {"row", "save", "unflag"} : At(s)' \subseteq At(s)
  PROVE  FlagInv'
<1>1. /\ At("row")' \subseteq At("row") /\ At("save")' \subseteq At("save")
      /\ At("unflag")' \subseteq At("unflag")
  OBVIOUS
<1> QED
  BY <1>1 DEF FlagInv, NewDetailsFlagged, updates

LEMMA RequestFlag ==
  ASSUME TypeOK, FlagInv, NEW h \in Http, Begin(h) \/ Proceed(h)
  PROVE  FlagInv'
<1>1. ASSUME NEW from \in Steps, NEW to \in Steps \ {"row", "save", "unflag"},
             Goto(h, from, to), UNCHANGED updates
      PROVE  FlagInv'
  <2>1. \A s \in {"row", "save", "unflag"} : At(s)' \subseteq At(s)
    BY <1>1, GotoAt DEF Steps
  <2> QED
    BY <1>1, <2>1, KeptFlag
<1>2. ASSUME NEW l \in Links, Verify(h, l)
      PROVE  FlagInv'
  <2>1. \A s \in {"row", "save", "unflag"} : At(s)' \subseteq At(s)
    BY <1>2 DEF Verify, At, TypeOK
  <2> QED
    BY <1>2, <2>1, KeptFlag DEF Verify
<1>3. CASE RaiseFlag(h)
  <2>1. At("unflag")' \subseteq At("unflag")
    BY <1>3, GotoAt DEF RaiseFlag, Steps
  <2> QED
    BY <1>3, <2>1 DEF RaiseFlag, FlagInv, NewDetailsFlagged
<1>4. CASE AddUpdate(h)
  <2>1. h \in At("row") /\ At("unflag")' \subseteq At("unflag")
    BY <1>4, GotoAt DEF AddUpdate, Steps
  <2> QED
    BY <1>4, <2>1 DEF AddUpdate, FlagInv, NewDetailsFlagged
<1>5. CASE SaveDetails(h)
  <2>1. h \in At("save") /\ At("unflag")' \subseteq At("unflag")
    BY <1>5, GotoAt DEF SaveDetails, Steps
  <2> QED
    BY <1>5, <2>1 DEF SaveDetails, FlagInv, NewDetailsFlagged
<1>6. CASE MarkViewed(h)
  <2>1. At("row")' \subseteq At("row") /\ At("save")' \subseteq At("save")
    BY <1>6, GotoAt DEF MarkViewed, Steps
  <2>2. ~missed' => At("row")' \cup At("save")' = {}
    BY <1>6, <2>1 DEF MarkViewed
  <2>3. ~news' /\ unviewed' = 0
    BY <1>6 DEF MarkViewed
  <2> QED
    BY <2>2, <2>3 DEF FlagInv, NewDetailsFlagged
<1>7. CASE ClearFlag(h)
  <2>1. /\ h \in At("unflag") /\ At("unflag")' \subseteq At("unflag")
        /\ At("row")' \subseteq At("row") /\ At("save")' \subseteq At("save")
    BY <1>7, GotoAt DEF ClearFlag, Steps
  <2> QED
    BY <1>7, <2>1 DEF ClearFlag, FlagInv, NewDetailsFlagged
<1>8. CASE \/ BeginRequest(h) \/ LiftBlock(h) \/ SetRequested(h) \/ Revoke(h)
           \/ ClearRequested(h) \/ SetBlock(h)
  BY <1>1, <1>8
     DEF BeginRequest, LiftBlock, SetRequested, Revoke, ClearRequested,
         SetBlock, Steps, updates
<1> QED
  BY <1>2, <1>3, <1>4, <1>5, <1>6, <1>7, <1>8 DEF Begin, Proceed

LEMMA OtherFlag ==
  ASSUME TypeOK, FlagInv,
         \/ \E d \in Delays : AddLetter(d)
         \/ Remind \/ Trouble \/ Tick \/ UNCHANGED vars
  PROVE  FlagInv'
<1>1. CASE \/ \E d \in Delays : AddLetter(d)
           \/ Remind \/ LetterThrows \/ Tick \/ UNCHANGED vars
  <2>1. UNCHANGED <<updates, task>>
    BY <1>1 DEF AddLetter, Remind, StartLetter, SendLetter, LetterThrows,
                Tick, vars
  <2> QED
    BY <2>1, KeptFlag DEF At
<1>2. ASSUME NEW h \in Http, HandlerThrows(h)
      PROVE  FlagInv'
  <2>1. \A s \in {"row", "save", "unflag"} : At(s)' \subseteq At(s)
    BY <1>2 DEF HandlerThrows, At, TypeOK, Rest
  <2> QED
    BY <1>2, <2>1, KeptFlag DEF HandlerThrows
<1>3. CASE Crash
  <2>1. \A s \in {"row", "save", "unflag"} : At(s)' = {}
    BY <1>3 DEF Crash, At, Rest
  <2> QED
    BY <1>3, <2>1, KeptFlag DEF Crash
<1> QED
  BY <1>1, <1>2, <1>3 DEF Trouble

LEMMA NextFlag == TypeOK /\ FlagInv /\ [Next]_vars => FlagInv'
  BY RequestFlag, OtherFlag DEF Next

\* Staff who have not looked since are told by the flag, unless they looked
\* while the news was on its way.
THEOREM FlagAnnouncesNews == Spec => []NewDetailsFlagged
<1>1. FlagInv => NewDetailsFlagged
  BY DEF FlagInv
<1> QED
  BY <1>1, InitType, NextType, InitFlag, NextFlag, PTL DEF Spec

-----------------------------------------------------------------------------
(* The links.  While no two answers held a link at once, at most one is    *)
(* under way with it; before it saves nothing was saved, and from its      *)
(* second step on the link is revoked.                                     *)

Answering(h, l) ==
  /\ task[h].link = l
  /\ task[h].step \in {"revoke", "clear", "block", "flag", "row", "save"}

LinkInv ==
  \A l \in Links \ shared :
    /\ saves[l] <= 1
    /\ saves[l] > 0 => l \in revoked
    /\ \A h \in Http : Answering(h, l) =>
         saves[l] = 0 /\ (task[h].step = "revoke" \/ l \in revoked)
    /\ \A h, k \in Http : Answering(h, l) /\ Answering(k, l) => h = k

LEMMA InitLinks == Init => LinkInv
  BY DEF Init, LinkInv, Answering, Rest

\* No request takes a link or comes past the revocation.
LEMMA KeptLinks ==
  ASSUME LinkInv, UNCHANGED tokens,
         \A k \in Http, l \in Links : Answering(k, l)' =>
           /\ Answering(k, l)
           /\ task[k].step = "revoke" => task'[k].step = "revoke"
  PROVE  LinkInv'
  BY DEF LinkInv, tokens

LEMMA RequestLinks ==
  ASSUME TypeOK, LinkInv, NEW h \in Http, Begin(h) \/ Proceed(h)
  PROVE  LinkInv'
<1>1. ASSUME NEW from \in Steps \ {"revoke"}, NEW to \in Steps,
             Goto(h, from, to),
             \/ from \in {"clear", "block", "flag", "row", "save"}
             \/ to \in {"rest", "lift", "request", "unflag"}
      PROVE  \A k \in Http, l \in Links : Answering(k, l)' =>
               /\ Answering(k, l)
               /\ task[k].step = "revoke" => task'[k].step = "revoke"
  <2>1. /\ task[h].step = from /\ task'[h].step = to
        /\ task'[h].link \in {NoLink, task[h].link}
        /\ \A k \in Http \ {h} : task'[k] = task[k]
    BY <1>1, GotoTask
  <2>2. \A l \in Links : l # NoLink
    BY AttemptAssumption DEF Links, NoLink
  <2> QED
    BY <1>1, <2>1, <2>2 DEF Answering
<1>2. ASSUME NEW l \in Links, Verify(h, l)
      PROVE  LinkInv'
  <2>1. /\ task'[h].link = l /\ task'[h].step = "revoke"
        /\ task[h].step = "rest"
        /\ \A k \in Http \ {h} : task'[k] = task[k]
        /\ UNCHANGED <<revoked, saves>>
    BY <1>2 DEF Verify, TypeOK
  <2>2. shared \subseteq shared' /\ l \notin revoked
    BY <1>2 DEF Verify
  <2>3. \A m \in Links \ {l}, k \in Http :
          Answering(k, m)' => Answering(k, m) /\ task'[k] = task[k]
    BY <2>1 DEF Answering
  <2>4. l \notin shared' => \A k \in Http : ~Answering(k, l)
    BY <1>2, <2>2 DEF Verify, LinkInv, Answering, At
  <2>5. l \notin shared' => \A k \in Http : Answering(k, l)' => k = h
    BY <2>1, <2>4 DEF Answering
  <2>6. l \notin shared' => saves[l] = 0
    <3>1. saves[l] \in Nat
      BY DEF TypeOK
    <3> QED
      BY <2>2, <3>1 DEF LinkInv
  <2> QED
    BY <2>1, <2>2, <2>3, <2>5, <2>6 DEF LinkInv
<1>3. CASE Revoke(h)
  <2>1. /\ task[h].step = "revoke" /\ task'[h].link \in {NoLink, task[h].link}
        /\ \A k \in Http \ {h} : task'[k] = task[k]
    BY <1>3, GotoTask DEF Revoke, Steps
  <2>2. /\ revoked' = revoked \cup {task[h].link}
        /\ UNCHANGED <<saves, shared>>
    BY <1>3 DEF Revoke
  <2>3. \A k \in Http, l \in Links : Answering(k, l)' =>
          /\ Answering(k, l)
          /\ (k = h /\ l = task[h].link) \/ task'[k] = task[k]
    BY <2>1 DEF Answering, NoLink, Links
  <2> QED
    BY <2>2, <2>3 DEF LinkInv
<1>4. CASE SaveDetails(h)
  <2>1. /\ task[h].step = "save" /\ task'[h].step = "rest"
        /\ \A k \in Http \ {h} : task'[k] = task[k]
    BY <1>4, GotoTask DEF SaveDetails, Steps
  <2>2. /\ saves' = [saves EXCEPT ![task[h].link] = @ + 1]
        /\ UNCHANGED <<revoked, shared>>
    BY <1>4 DEF SaveDetails
  <2>3. \A k \in Http, l \in Links : Answering(k, l)' =>
          Answering(k, l) /\ k # h /\ task'[k] = task[k]
    BY <2>1 DEF Answering
  <2>4. ASSUME NEW l \in Links \ shared, task[h].link = l
        PROVE  /\ saves[l] = 0 /\ l \in revoked /\ saves'[l] = 1
               /\ \A k \in Http : ~Answering(k, l)'
    <3>1. Answering(h, l)
      BY <2>1, <2>4 DEF Answering
    <3>2. saves[l] = 0 /\ l \in revoked
      BY <2>1, <3>1 DEF LinkInv
    <3>3. saves'[l] = 1
      BY <2>2, <2>4, <3>2 DEF TypeOK
    <3> QED
      BY <2>3, <3>1, <3>2, <3>3 DEF LinkInv
  <2>5. ASSUME NEW l \in Links \ shared, task[h].link # l
        PROVE  saves'[l] = saves[l]
    BY <2>2, <2>5 DEF TypeOK
  <2> QED
    BY <2>2, <2>3, <2>4, <2>5 DEF LinkInv
<1>5. CASE \/ BeginRequest(h) \/ MarkViewed(h) \/ LiftBlock(h)
           \/ SetRequested(h) \/ ClearRequested(h) \/ SetBlock(h)
           \/ RaiseFlag(h) \/ AddUpdate(h) \/ ClearFlag(h)
  <2>1. UNCHANGED tokens
    BY <1>5 DEF BeginRequest, MarkViewed, LiftBlock, SetRequested,
                ClearRequested, SetBlock, RaiseFlag, AddUpdate, ClearFlag
  <2>2. \A k \in Http, l \in Links : Answering(k, l)' =>
          /\ Answering(k, l)
          /\ task[k].step = "revoke" => task'[k].step = "revoke"
    BY <1>1, <1>5
       DEF BeginRequest, MarkViewed, LiftBlock, SetRequested, ClearRequested,
           SetBlock, RaiseFlag, AddUpdate, ClearFlag, Steps
  <2> QED
    BY <2>1, <2>2, KeptLinks
<1> QED
  BY <1>2, <1>3, <1>4, <1>5 DEF Begin, Proceed

LEMMA OtherLinks ==
  ASSUME TypeOK, LinkInv,
         \/ \E d \in Delays : AddLetter(d)
         \/ Remind \/ Trouble \/ Tick \/ UNCHANGED vars
  PROVE  LinkInv'
<1>1. CASE \/ \E d \in Delays : AddLetter(d)
           \/ Remind \/ LetterThrows \/ Tick \/ UNCHANGED vars
  <2>1. UNCHANGED <<tokens, task>>
    BY <1>1 DEF AddLetter, Remind, StartLetter, SendLetter, LetterThrows,
                Tick, vars
  <2> QED
    BY <2>1, KeptLinks DEF Answering
<1>2. ASSUME NEW h \in Http, HandlerThrows(h)
      PROVE  LinkInv'
  <2>1. \A k \in Http, l \in Links :
          Answering(k, l)' => Answering(k, l) /\ task'[k] = task[k]
    BY <1>2 DEF HandlerThrows, Answering, TypeOK, Rest
  <2> QED
    BY <1>2, <2>1, KeptLinks DEF HandlerThrows
<1>3. CASE Crash
  <2>1. \A k \in Http, l \in Links : ~Answering(k, l)'
    BY <1>3 DEF Crash, Answering, Rest
  <2> QED
    BY <1>3, <2>1, KeptLinks DEF Crash
<1> QED
  BY <1>1, <1>2, <1>3 DEF Trouble

LEMMA NextLinks == TypeOK /\ LinkInv /\ [Next]_vars => LinkInv'
  BY RequestLinks, OtherLinks DEF Next

\* A link brings one answer, unless two were let in before it was revoked.
THEOREM LinksAreSpent == Spec => []LinkAnswersOnce
<1>1. LinkInv => LinkAnswersOnce
  BY DEF LinkInv, LinkAnswersOnce
<1> QED
  BY <1>1, InitType, NextType, InitLinks, NextLinks, PTL DEF Spec

-----------------------------------------------------------------------------
(* The mailbox, for any mails, any number of listeners and any bound on     *)
(* the events.                                                             *)

LEMMA SpendMailType ==
  ASSUME mailSpent \in [MailEvents -> Nat], NEW event \in MailEvents, SpendMail(event)
  PROVE  mailSpent' \in [MailEvents -> Nat]
  BY DEF SpendMail

LEMMA NoPullType == NoPull \in Pulls
  BY DEF NoPull, Pulls

\* The records that the steps of a listener make of another one.
LEMMA PullFields ==
  ASSUME NEW p \in Pulls
  PROVE  p.next \in Nat /\ p.last \in Nat /\ p.resolved \in BOOLEAN
  BY DEF Pulls

LEMMA ListedFields ==
  ASSUME NEW p \in Pulls, NEW n \in Nat
  PROVE  LET q == [p EXCEPT !.at = "fetch", !.last = n]
         IN  q \in Pulls /\ q.at = "fetch" /\ q.next = p.next /\ q.last = n
  BY DEF Pulls

LEMMA PassedFields ==
  ASSUME NEW p \in Pulls, NEW b \in BOOLEAN
  PROVE  LET q == [p EXCEPT !.next = @ + 1, !.resolved = b]
         IN  /\ q \in Pulls /\ q.at = p.at
             /\ q.next = p.next + 1 /\ q.last = p.last /\ q.resolved = b
<1>1. \A k \in Nat : [p EXCEPT !.next = k, !.resolved = b] \in Pulls
  BY DEF Pulls
<1>2. p.next + 1 \in Nat
  BY DEF Pulls
<1>3. [p EXCEPT !.next = @ + 1, !.resolved = b] \in Pulls
  BY <1>1, <1>2, Zenon
<1>4. /\ [p EXCEPT !.next = @ + 1, !.resolved = b].at = p.at
      /\ [p EXCEPT !.next = @ + 1, !.resolved = b].next = p.next + 1
      /\ [p EXCEPT !.next = @ + 1, !.resolved = b].last = p.last
  BY DEF Pulls
<1>5. [p EXCEPT !.next = @ + 1, !.resolved = b].resolved = b
  BY DEF Pulls
<1> QED
  BY <1>3, <1>4, <1>5

LEMMA DeliveredFields ==
  ASSUME NEW n \in Nat
  PROVE  LET q == [NoPull EXCEPT !.at = "list", !.next = n]
         IN  q \in Pulls /\ q.at = "list" /\ q.next = n
  BY DEF NoPull, Pulls

-----------------------------------------------------------------------------
(* Type correctness.  startHistoryId stays within the history because a    *)
(* listener only fetches what was listed.                                  *)

PullBounds ==
  \A l \in Listeners :
    /\ pull[l].at = "list" => pull[l].next \in 1..(Len(box) + 1)
    /\ pull[l].at = "fetch" => /\ 1 <= pull[l].next
                               /\ pull[l].next <= pull[l].last
                               /\ pull[l].last <= Len(box)

Typed == MailboxTypeOK /\ PullBounds

LEMMA InitTyped == MailboxInit => Typed
<1> SUFFICES ASSUME MailboxInit
             PROVE  Typed
  OBVIOUS
<1>1. MailboxTypeOK
  BY NoPullType DEF MailboxInit, MailboxTypeOK
<1>2. PullBounds
  BY DEF MailboxInit, PullBounds, NoPull
<1> QED
  BY <1>1, <1>2 DEF Typed

LEMMA ListedTyped ==
  ASSUME Typed, NEW l \in Listeners, pull[l].at = "list"
  PROVE  /\ Listed(pull[l]) \in Pulls
         /\ Listed(pull[l]).at # "list"
         /\ Listed(pull[l]).at = "fetch" =>
              /\ Listed(pull[l]).next = pull[l].next
              /\ 1 <= pull[l].next
              /\ pull[l].next <= Listed(pull[l]).last
              /\ Listed(pull[l]).last <= Len(box)
<1>1. pull[l] \in Pulls /\ Len(box) \in Nat
  BY DEF Typed, MailboxTypeOK
<1>2. pull[l].next \in Nat /\ 1 <= pull[l].next
  BY <1>1 DEF Typed, PullBounds, Pulls
<1>3. CASE pull[l].next > Len(box)
  BY <1>3, NoPullType DEF Listed, NoPull
<1>4. CASE ~(pull[l].next > Len(box))
  <2> DEFINE q == [pull[l] EXCEPT !.at = "fetch", !.last = Len(box)]
  <2>1. /\ q \in Pulls /\ q.at = "fetch"
        /\ q.next = pull[l].next /\ q.last = Len(box)
    BY <1>1, ListedFields
  <2>2. Listed(pull[l]) = q
    BY <1>4 DEF Listed
  <2> HIDE DEF q
  <2> QED
    BY <1>1, <1>2, <1>4, <2>1, <2>2
<1> QED
  BY <1>3, <1>4

LEMMA PassedTyped ==
  ASSUME Typed, NEW l \in Listeners, pull[l].at = "fetch",
         NEW resolved \in BOOLEAN
  PROVE  /\ Passed(pull[l], resolved) \in Pulls
         /\ Passed(pull[l], resolved).at # "list"
         /\ Passed(pull[l], resolved).at = "fetch" =>
              /\ Passed(pull[l], resolved).next = pull[l].next + 1
              /\ pull[l].next + 1 <= pull[l].last
              /\ Passed(pull[l], resolved).last = pull[l].last
              /\ Passed(pull[l], resolved).resolved = resolved
<1>1. /\ pull[l] \in Pulls
      /\ pull[l].next \in Nat /\ pull[l].last \in Nat
      /\ pull[l].next <= pull[l].last
  BY DEF Typed, MailboxTypeOK, PullBounds, Pulls
<1>2. CASE pull[l].next = pull[l].last
  BY <1>2, NoPullType DEF Passed, NoPull
<1>3. CASE pull[l].next # pull[l].last
  <2> DEFINE q == [pull[l] EXCEPT !.next = @ + 1, !.resolved = resolved]
  <2>1. /\ q \in Pulls /\ q.at = pull[l].at
        /\ q.next = pull[l].next + 1 /\ q.last = pull[l].last
        /\ q.resolved = resolved
    BY <1>1, PassedFields
  <2>2. Passed(pull[l], resolved) = q
    BY <1>3 DEF Passed
  <2> HIDE DEF q
  <2> QED
    BY <1>1, <1>3, <2>1, <2>2
<1> QED
  BY <1>2, <1>3

LEMMA GmailTyped ==
  ASSUME Typed,
         \/ \E m \in Mails : Arrive(m) \/ \E n \in BOOLEAN : ArriveOther(m, n)
         \/ Duplicate \/ RefreshWatch
  PROVE  Typed'
<1>1. ASSUME NEW m \in Mails,
             Arrive(m) \/ \E n \in BOOLEAN : ArriveOther(m, n)
      PROVE  Typed'
  <2>1. /\ box' = Append(box, m) /\ notices' \in Nat
        /\ UNCHANGED <<start, pull, handling, results, dropped, mailSpent>>
    BY <1>1 DEF Arrive, ArriveOther, Typed, MailboxTypeOK
  <2>2. box' \in Seq(Mails) /\ Len(box') = Len(box) + 1 /\ Len(box) \in Nat
    BY <2>1 DEF Typed, MailboxTypeOK
  <2>3. MailboxTypeOK'
    BY <2>1, <2>2 DEF Typed, MailboxTypeOK, handling, results
  <2>4. PullBounds'
    BY <2>1, <2>2 DEF Typed, MailboxTypeOK, PullBounds, Pulls
  <2> QED
    BY <2>3, <2>4 DEF Typed
<1>2. CASE Duplicate
  <2>1. mailSpent' \in [MailEvents -> Nat]
    BY <1>2, SpendMailType DEF Duplicate, MailEvents, Typed, MailboxTypeOK
  <2> QED
    BY <1>2, <2>1 DEF Duplicate, Typed, MailboxTypeOK, PullBounds, handling, results
<1>3. CASE RefreshWatch
  <2>1. mailSpent' \in [MailEvents -> Nat]
    BY <1>3, SpendMailType DEF RefreshWatch, MailEvents, Typed, MailboxTypeOK
  <2>2. Ahead \subseteq Mails /\ Len(box) \in 0..Len(box)
    BY DEF Ahead, Typed, MailboxTypeOK
  <2> QED
    BY <1>3, <2>1, <2>2
       DEF RefreshWatch, Drop, Typed, MailboxTypeOK, PullBounds, handling, results
<1> QED
  BY <1>1, <1>2, <1>3

LEMMA PullTyped ==
  ASSUME Typed, NEW l \in Listeners,
         Deliver(l) \/ List(l) \/ ListFails(l) \/ Fetch(l) \/ FetchFails(l)
  PROVE  Typed'
<1>1. CASE Deliver(l)
  <2>1. start + 1 \in 1..(Len(box) + 1)
    BY DEF Typed, MailboxTypeOK
  <2> DEFINE q == [NoPull EXCEPT !.at = "list", !.next = start + 1]
  <2>2. q \in Pulls /\ q.at = "list" /\ q.next = start + 1
    <3>1. start + 1 \in Nat
      BY DEF Typed, MailboxTypeOK
    <3> QED
      BY <3>1, DeliveredFields, Zenon
  <2>5. pull' = [pull EXCEPT ![l] = q]
    BY <1>1 DEF Deliver
  <2> HIDE DEF q
  <2>3. MailboxTypeOK'
    BY <1>1, <2>2, <2>5 DEF Deliver, Typed, MailboxTypeOK, handling, results
  <2>4. PullBounds'
    BY <1>1, <2>1, <2>2, <2>5 DEF Deliver, Typed, MailboxTypeOK, PullBounds
  <2> QED
    BY <2>3, <2>4 DEF Typed
<1>2. CASE List(l)
  <2>1. MailboxTypeOK'
    BY <1>2, ListedTyped DEF List, Typed, MailboxTypeOK, handling, results
  <2>2. PullBounds'
    BY <1>2, ListedTyped DEF List, Typed, MailboxTypeOK, PullBounds
  <2> QED
    BY <2>1, <2>2 DEF Typed
<1>3. CASE ListFails(l)
  <2>1. mailSpent' \in [MailEvents -> Nat]
    BY <1>3, SpendMailType DEF ListFails, MailEvents, Typed, MailboxTypeOK
  <2>2. MailboxTypeOK'
    BY <1>3, <2>1, NoPullType DEF ListFails, Typed, MailboxTypeOK, handling, results
  <2>3. PullBounds'
    BY <1>3 DEF ListFails, Typed, MailboxTypeOK, PullBounds, NoPull
  <2> QED
    BY <2>2, <2>3 DEF Typed
<1>4. ASSUME pull[l].at = "fetch"
      PROVE  /\ pull[l].next \in 1..Len(box)
             /\ box[pull[l].next] \in Mails
  BY <1>4 DEF Typed, MailboxTypeOK, PullBounds, Pulls
<1>5. CASE Fetch(l)
  <2>1. pull[l].at = "fetch" /\ pull' = [pull EXCEPT ![l] = Passed(@, TRUE)]
    BY <1>5 DEF Fetch
  <2>2. MailboxTypeOK'
    <3>1. start' \in 0..Len(box')
      BY <1>5, <2>1, <1>4 DEF Fetch
    <3>2. pull' \in [Listeners -> Pulls]
      BY <2>1, PassedTyped DEF Typed, MailboxTypeOK
    <3>3. /\ hand' \in [Listeners -> Inbox \cup {Nothing}]
          /\ step' \in [Listeners -> {"create", "announce"}]
          /\ dropped' \in SUBSET Mails
      BY <1>5, <2>1, <1>4 DEF Fetch, Typed, MailboxTypeOK, Drop, handling
    <3> QED
      BY <1>5, <3>1, <3>2, <3>3 DEF Fetch, Typed, MailboxTypeOK, results
  <2>3. PullBounds'
    <3> DEFINE q == Passed(pull[l], TRUE)
    <3>1. q.at = "fetch" => q.next = pull[l].next + 1 /\ q.next <= q.last
                            /\ q.last = pull[l].last
      BY <2>1, PassedTyped
    <3>2. q.at # "list"
      BY <2>1, PassedTyped
    <3>3. pull' = [pull EXCEPT ![l] = q] /\ box' = box
      BY <1>5, <2>1 DEF Fetch
    <3>4. pull[l].next \in Nat /\ 1 <= pull[l].next /\ pull[l].last <= Len(box)
      BY <2>1, PullFields DEF Typed, MailboxTypeOK, PullBounds
    <3> HIDE DEF q
    <3> QED
      BY <3>1, <3>2, <3>3, <3>4 DEF Typed, MailboxTypeOK, PullBounds
  <2> QED
    BY <2>2, <2>3 DEF Typed
<1>6. CASE FetchFails(l)
  <2>1. /\ pull[l].at = "fetch" /\ pull[l].resolved \in BOOLEAN
        /\ pull' = [pull EXCEPT ![l] = Passed(pull[l], pull[l].resolved)]
    BY <1>6 DEF FetchFails, Typed, MailboxTypeOK, Pulls
  <2>2. mailSpent' \in [MailEvents -> Nat]
    BY <1>6, SpendMailType DEF FetchFails, MailEvents, Typed, MailboxTypeOK
  <2>3. MailboxTypeOK'
    BY <1>6, <2>1, <2>2, <1>4, PassedTyped
       DEF FetchFails, Typed, MailboxTypeOK, Drop, handling, results
  <2>4. PullBounds'
    BY <1>6, <2>1, PassedTyped DEF FetchFails, Typed, MailboxTypeOK, PullBounds, Pulls
  <2> QED
    BY <2>3, <2>4 DEF Typed
<1> QED
  BY <1>1, <1>2, <1>3, <1>5, <1>6

LEMMA HandleTyped ==
  ASSUME Typed, NEW l \in Listeners,
         Create(l) \/ Announce(l) \/ HandleThrows(l)
  PROVE  Typed'
<1>1. hand[l] # Nothing => hand[l] \in Inbox /\ hand[l] \in Mails
  BY MailAssumption DEF Typed, MailboxTypeOK
<1>2. CASE Create(l)
  BY <1>1, <1>2 DEF Create, Typed, MailboxTypeOK, PullBounds
<1>3. CASE Announce(l)
  BY <1>1, <1>3 DEF Announce, Typed, MailboxTypeOK, PullBounds
<1>4. CASE HandleThrows(l)
  <2>1. mailSpent' \in [MailEvents -> Nat]
    BY <1>4, SpendMailType DEF HandleThrows, MailEvents, Typed, MailboxTypeOK
  <2> QED
    BY <1>1, <1>4, <2>1
       DEF HandleThrows, Typed, MailboxTypeOK, PullBounds, Drop, results
<1> QED
  BY <1>2, <1>3, <1>4

LEMMA CrashTyped ==
  ASSUME Typed, MailboxCrash
  PROVE  Typed'
<1> DEFINE unacked == {l \in Listeners : pull[l].at # "idle" /\ ~pull[l].resolved}
<1>1. Cardinality(unacked) \in Nat
  <2>1. IsFiniteSet(unacked)
    BY MailAssumption, FS_Subset
  <2> QED
    BY <2>1, FS_CardinalityType
<1>2. notices' \in Nat
  BY <1>1 DEF MailboxCrash, Typed, MailboxTypeOK
<1>3. mailSpent' \in [MailEvents -> Nat]
  BY SpendMailType DEF MailboxCrash, MailEvents, Typed, MailboxTypeOK
<1>4. dropped' \in SUBSET Mails
  <2>1. Ahead \subseteq Mails
    BY DEF Ahead, Typed, MailboxTypeOK
  <2>2. {hand[l] : l \in Listeners} \ {Nothing} \subseteq Mails
    BY MailAssumption DEF Typed, MailboxTypeOK
  <2> QED
    BY <2>1, <2>2 DEF MailboxCrash, Drop, Typed, MailboxTypeOK
<1>5. MailboxTypeOK'
  BY <1>2, <1>3, <1>4, NoPullType DEF MailboxCrash, Typed, MailboxTypeOK, results
<1>6. PullBounds'
  BY DEF MailboxCrash, PullBounds, NoPull
<1> QED
  BY <1>5, <1>6 DEF Typed

LEMMA NextTyped == Typed /\ [MailboxNext]_mailboxVars => Typed'
<1> SUFFICES ASSUME Typed, [MailboxNext]_mailboxVars
             PROVE  Typed'
  OBVIOUS
<1>1. CASE UNCHANGED mailboxVars
  BY <1>1 DEF Typed, MailboxTypeOK, PullBounds, mailboxVars
<1>2. CASE MailboxNext
  BY <1>2, GmailTyped, PullTyped, HandleTyped, CrashTyped DEF MailboxNext, ListenerStep
<1> QED
  BY <1>1, <1>2

\* Every variable keeps its type; startHistoryId never leaves the history.
THEOREM MailboxTypeCorrect == MailboxSpec => []MailboxTypeOK
<1>1. Typed => MailboxTypeOK
  BY DEF Typed
<1> QED
  BY <1>1, InitTyped, NextTyped, PTL DEF MailboxSpec

-----------------------------------------------------------------------------
(* What a listener has in hand.                                            *)

\* A listener whose promise has not resolved has nothing in hand.
HandFree ==
  \A l \in Listeners :
    (pull[l].at = "list" \/ (pull[l].at = "fetch" /\ ~pull[l].resolved))
    => hand[l] = Nothing

LEMMA InitFree == MailboxInit => HandFree
  BY DEF MailboxInit, HandFree

LEMMA NextFree == Typed /\ HandFree /\ [MailboxNext]_mailboxVars => HandFree'
<1> SUFFICES ASSUME Typed, HandFree, [MailboxNext]_mailboxVars
             PROVE  HandFree'
  OBVIOUS
<1>1. CASE UNCHANGED <<pull, hand>>
  BY <1>1 DEF HandFree
<1>2. ASSUME NEW l \in Listeners, Deliver(l)
      PROVE  HandFree'
  BY <1>2 DEF Deliver, Listening, handling, HandFree, Typed, MailboxTypeOK
<1>3. ASSUME NEW l \in Listeners, List(l) \/ ListFails(l)
      PROVE  HandFree'
  <2>1. /\ pull[l].at = "list" /\ hand' = hand
        /\ \A k \in Listeners \ {l} : pull'[k] = pull[k]
    BY <1>3 DEF List, ListFails, handling, Typed, MailboxTypeOK
  <2> QED
    BY <2>1 DEF HandFree
<1>4. ASSUME NEW l \in Listeners, Fetch(l)
      PROVE  HandFree'
  <2>1. /\ pull[l].at = "fetch"
        /\ pull' = [pull EXCEPT ![l] = Passed(pull[l], TRUE)]
        /\ \A k \in Listeners \ {l} : hand'[k] = hand[k]
    BY <1>4 DEF Fetch, handling, Typed, MailboxTypeOK
  <2>2. /\ Passed(pull[l], TRUE) \in Pulls /\ Passed(pull[l], TRUE).at # "list"
        /\ Passed(pull[l], TRUE).at = "fetch" => Passed(pull[l], TRUE).resolved
    BY <2>1, PassedTyped
  <2> QED
    BY <2>1, <2>2 DEF HandFree, Typed, MailboxTypeOK
<1>5. ASSUME NEW l \in Listeners, FetchFails(l)
      PROVE  HandFree'
  <2>1. /\ pull[l].at = "fetch" /\ hand' = hand
        /\ pull' = [pull EXCEPT ![l] = Passed(pull[l], pull[l].resolved)]
    BY <1>5 DEF FetchFails, handling
  <2>2. pull[l].resolved \in BOOLEAN
    BY PullFields DEF Typed, MailboxTypeOK
  <2> DEFINE q == Passed(pull[l], pull[l].resolved)
  <2>3. q.at # "list" /\ (q.at = "fetch" => q.resolved = pull[l].resolved)
    BY <2>1, <2>2, PassedTyped
  <2> HIDE DEF q
  <2>4. \A k \in Listeners : pull'[k] = IF k = l THEN q ELSE pull[k]
    BY <2>1 DEF q, Typed, MailboxTypeOK
  <2>5. CASE q.at = "fetch" /\ ~q.resolved
    BY <2>1, <2>3, <2>4, <2>5 DEF HandFree
  <2>6. CASE ~(q.at = "fetch" /\ ~q.resolved)
    BY <2>1, <2>3, <2>4, <2>6 DEF HandFree
  <2> QED
    BY <2>5, <2>6
<1>6. ASSUME NEW l \in Listeners, Create(l) \/ Announce(l) \/ HandleThrows(l)
      PROVE  HandFree'
  BY <1>6 DEF Create, Announce, HandleThrows, HandFree, Typed, MailboxTypeOK
<1>7. CASE MailboxCrash
  BY <1>7 DEF MailboxCrash, HandFree, NoPull
<1> QED
  BY <1>1, <1>2, <1>3, <1>4, <1>5, <1>6, <1>7
     DEF MailboxNext, ListenerStep, mailboxVars, Arrive, ArriveOther, Duplicate,
         RefreshWatch, handling

-----------------------------------------------------------------------------
(* One announcement.  A listener that is about to announce a mail has       *)
(* stored it itself, so nobody else is about to, and nobody has.           *)

AnnounceInv ==
  /\ AnnouncedOnce
  /\ \A l \in Listeners :
       step[l] = "announce" => hand[l] \in stored /\ announced[hand[l]] = 0
  /\ \A l, k \in Listeners :
       step[l] = "announce" /\ step[k] = "announce" /\ l # k
       => hand[l] # hand[k]

LEMMA InitAnnounce == MailboxInit => AnnounceInv
  BY DEF MailboxInit, AnnounceInv, AnnouncedOnce

LEMMA NextAnnounce == Typed /\ AnnounceInv /\ [MailboxNext]_mailboxVars => AnnounceInv'
<1> SUFFICES ASSUME Typed, AnnounceInv, [MailboxNext]_mailboxVars
             PROVE  AnnounceInv'
  OBVIOUS
<1>1. CASE UNCHANGED <<hand, step, stored, announced>>
  BY <1>1 DEF AnnounceInv, AnnouncedOnce
<1>2. ASSUME NEW l \in Listeners, Fetch(l) \/ HandleThrows(l)
      PROVE  AnnounceInv'
  <2>1. /\ UNCHANGED <<stored, announced>>
        /\ \/ UNCHANGED <<hand, step>>
           \/ /\ step' = [step EXCEPT ![l] = "create"]
              /\ \A k \in Listeners \ {l} : hand'[k] = hand[k]
    BY <1>2 DEF Fetch, HandleThrows, handling, results, Typed, MailboxTypeOK
  <2> QED
    BY <2>1 DEF AnnounceInv, AnnouncedOnce, Typed, MailboxTypeOK
<1>3. ASSUME NEW l \in Listeners, Create(l)
      PROVE  AnnounceInv'
  <2>1. /\ hand[l] \in Mails /\ step[l] = "create"
        /\ stored' = stored \cup {hand[l]} /\ announced' = announced
    BY <1>3, MailAssumption DEF Create, Typed, MailboxTypeOK
  <2>2. AnnouncedOnce'
    BY <2>1 DEF AnnounceInv, AnnouncedOnce, Typed, MailboxTypeOK
  <2>3. CASE hand[l] \in Known \ stored
    <3>1. step' = [step EXCEPT ![l] = "announce"] /\ hand' = hand
      BY <1>3, <2>3 DEF Create
    <3>2. announced[hand[l]] = 0
      BY <2>1, <2>3 DEF AnnounceInv, AnnouncedOnce, Typed, MailboxTypeOK
    <3> QED
      BY <2>1, <2>2, <2>3, <3>1, <3>2 DEF AnnounceInv, Typed, MailboxTypeOK
  <2>4. CASE hand[l] \notin Known \ stored
    <3>1. step' = step /\ \A k \in Listeners \ {l} : hand'[k] = hand[k]
      BY <1>3, <2>4 DEF Create, Typed, MailboxTypeOK
    <3> QED
      BY <2>1, <2>2, <3>1 DEF AnnounceInv
  <2> QED
    BY <2>3, <2>4
<1>4. ASSUME NEW l \in Listeners, Announce(l)
      PROVE  AnnounceInv'
  <2>1. /\ hand[l] \in Mails /\ hand[l] \in stored /\ announced[hand[l]] = 0
        /\ step[l] = "announce" /\ stored' = stored
        /\ step' = [step EXCEPT ![l] = "create"]
        /\ announced' = [announced EXCEPT ![hand[l]] = @ + 1]
    BY <1>4, MailAssumption DEF Announce, AnnounceInv, Typed, MailboxTypeOK
  <2>2. \A k \in Listeners \ {l} : hand'[k] = hand[k] /\ step'[k] = step[k]
    BY <1>4 DEF Announce, Typed, MailboxTypeOK
  <2>3. AnnouncedOnce'
    BY <2>1 DEF AnnounceInv, AnnouncedOnce, Typed, MailboxTypeOK
  <2>4. \A m \in Mails \ {hand[l]} : announced'[m] = announced[m]
    BY <2>1 DEF Typed, MailboxTypeOK
  <2>5. \A k \in Listeners \ {l} : step[k] = "announce" =>
          hand[k] # hand[l] /\ hand[k] \in Mails
    BY <2>1, MailAssumption DEF AnnounceInv, Typed, MailboxTypeOK
  <2>6. step'[l] = "create"
    BY <2>1 DEF Typed, MailboxTypeOK
  <2> QED
    BY <2>1, <2>2, <2>3, <2>4, <2>5, <2>6 DEF AnnounceInv
<1>5. CASE MailboxCrash
  BY <1>5 DEF MailboxCrash, AnnounceInv, AnnouncedOnce, results
<1> QED
  BY <1>1, <1>2, <1>3, <1>4, <1>5
     DEF MailboxNext, ListenerStep, mailboxVars, Arrive, ArriveOther, Duplicate, Deliver,
         List, ListFails, FetchFails, RefreshWatch, handling, results

\* The back office hears of each mail at most once, and never of one that is
\* not stored.
THEOREM NeverAnnouncedTwice == MailboxSpec => []AnnouncedOnce
<1>1. AnnounceInv => AnnouncedOnce
  BY DEF AnnounceInv
<1> QED
  BY <1>1, InitTyped, NextTyped, InitAnnounce, NextAnnounce, PTL DEF MailboxSpec

-----------------------------------------------------------------------------
(* No mail left behind.  The property is not inductive: a listener moves     *)
(* startHistoryId to the mail it just got, so everything below that mail     *)
(* must be taken already, also when another listener moved startHistoryId    *)
(* back meanwhile.                                                           *)

TakenBelow(n) ==
  \A i \in 1..Len(box) : box[i] \in Inbox /\ i < n => Taken(i)

TakenInv ==
  /\ TakenBelow(start + 1)
  /\ \A l \in Listeners : pull[l].at # "idle" => TakenBelow(pull[l].next)

LEMMA TakenInvImplies == Typed /\ TakenInv => MailAccounted
  BY DEF Typed, MailboxTypeOK, TakenInv, TakenBelow, MailAccounted

LEMMA InitTaken == MailboxInit => TakenInv
  BY DEF MailboxInit, TakenInv, TakenBelow

\* What is taken stays taken while hands only let go into stored or dropped.
LEMMA TakenStays ==
  ASSUME box' = box, stored \subseteq stored', dropped \subseteq dropped',
         \A l \in Listeners :
           hand'[l] = hand[l] \/ hand[l] \in {Nothing} \cup stored' \cup dropped',
         Typed, NEW i \in 1..Len(box), Taken(i)
  PROVE  Taken(i)'
<1>1. box[i] # Nothing
  BY MailAssumption DEF Typed, MailboxTypeOK
<1> QED
  BY <1>1 DEF Taken

LEMMA TakenInvStays ==
  ASSUME Typed, TakenInv, box' = box, start' = start,
         \A i \in 1..Len(box) : Taken(i) => Taken(i)',
         \A l \in Listeners :
           \/ pull'[l].at = "idle"
           \/ pull'[l].at # "idle" /\ pull[l].at # "idle"
              /\ pull'[l].next = pull[l].next
  PROVE  TakenInv'
  BY DEF TakenInv, TakenBelow

LEMMA GmailTaken ==
  ASSUME Typed, TakenInv,
         \/ \E m \in Mails : Arrive(m) \/ \E n \in BOOLEAN : ArriveOther(m, n)
         \/ Duplicate \/ RefreshWatch
  PROVE  TakenInv'
<1>1. ASSUME NEW m \in Mails,
             Arrive(m) \/ \E n \in BOOLEAN : ArriveOther(m, n)
      PROVE  TakenInv'
  <2>1. /\ box' = Append(box, m)
        /\ UNCHANGED <<start, pull, hand, stored, dropped>>
    BY <1>1 DEF Arrive, ArriveOther, handling, results
  <2>2. /\ Len(box') = Len(box) + 1 /\ Len(box) \in Nat
        /\ \A i \in 1..Len(box) : box'[i] = box[i]
    BY <2>1 DEF Typed, MailboxTypeOK
  <2>3. \A n \in Nat : n <= Len(box) + 1 /\ TakenBelow(n) => TakenBelow(n)'
    BY <2>1, <2>2 DEF TakenBelow, Taken
  <2>4. start + 1 \in Nat /\ start + 1 <= Len(box) + 1
    BY DEF Typed, MailboxTypeOK
  <2>5. \A l \in Listeners : pull[l].at # "idle" =>
          pull[l].next \in Nat /\ pull[l].next <= Len(box) + 1
    BY PullFields, <2>2 DEF Typed, MailboxTypeOK, PullBounds, Pulls
  <2> QED
    BY <2>1, <2>3, <2>4, <2>5 DEF TakenInv
<1>2. CASE Duplicate
  BY <1>2 DEF Duplicate, TakenInv, TakenBelow, Taken, handling, results
<1>3. CASE RefreshWatch
  <2>1. /\ UNCHANGED <<box, pull, hand, stored>>
        /\ dropped' = dropped \cup Ahead /\ start' = Len(box)
    BY <1>3 DEF RefreshWatch, Drop, handling, results
  <2>2. \A i \in 1..Len(box) : Taken(i) => Taken(i)'
    BY <2>1 DEF Taken
  <2>3. ASSUME NEW i \in 1..Len(box), box[i] \in Inbox
        PROVE  Taken(i)'
    <3>1. CASE i < start + 1
      BY <2>2, <2>3, <3>1 DEF TakenInv, TakenBelow
    <3>2. CASE ~(i < start + 1)
      <4>1. box[i] \in Ahead
        BY <3>2 DEF Ahead, Typed, MailboxTypeOK
      <4> QED
        BY <4>1, <2>1 DEF Taken
    <3> QED
      BY <3>1, <3>2
  <2> QED
    BY <2>1, <2>3 DEF TakenInv, TakenBelow
<1> QED
  BY <1>1, <1>2, <1>3

\* The mail that was just got is in somebody's hand or let go of, and all
\* below it were taken before.
LEMMA FetchedTaken ==
  ASSUME Typed, TakenInv, NEW l \in Listeners, pull[l].at = "fetch",
         box' = box, NEW b \in BOOLEAN,
         pull' = [pull EXCEPT ![l] = Passed(pull[l], b)],
         start' \in {start, pull[l].next},
         \A i \in 1..Len(box) : Taken(i) => Taken(i)',
         \A i \in 1..Len(box) :
           i = pull[l].next /\ box[i] \in Inbox => Taken(i)'
  PROVE  TakenInv'
<1>1. PICK n \in 1..Len(box) : n = pull[l].next
  BY PullFields DEF Typed, MailboxTypeOK, PullBounds
<1>2. \A i \in 1..Len(box) : box[i] \in Inbox /\ i < n + 1 => Taken(i)'
  <2>1. \A i \in 1..Len(box) : i < n + 1 => i < n \/ i = n
    BY <1>1
  <2> QED
    BY <1>1, <2>1 DEF TakenInv, TakenBelow
<1>3. TakenBelow(start + 1)'
  BY <1>1, <1>2 DEF TakenInv, TakenBelow
<1>4. ASSUME NEW k \in Listeners, pull'[k].at # "idle"
      PROVE  \A i \in 1..Len(box) :
               box[i] \in Inbox /\ i < pull'[k].next => Taken(i)'
  <2>1. CASE k = l
    <3>1. /\ Passed(pull[l], b) \in Pulls /\ Passed(pull[l], b).at # "list"
          /\ (Passed(pull[l], b).at = "fetch" =>
                 Passed(pull[l], b).next = n + 1)
      BY <1>1, PassedTyped
    <3>2. pull'[k] = Passed(pull[l], b)
      BY <2>1 DEF Typed, MailboxTypeOK
    <3>3. pull'[k].next = n + 1
      BY <1>4, <3>1, <3>2 DEF Pulls
    <3> QED
      BY <3>3, <1>2
  <2>2. CASE k # l
    <3>1. pull'[k] = pull[k]
      BY <2>2 DEF Typed, MailboxTypeOK
    <3> QED
      BY <1>4, <3>1 DEF TakenInv, TakenBelow
  <2> QED
    BY <2>1, <2>2
<1> QED
  BY <1>3, <1>4 DEF TakenInv, TakenBelow

LEMMA PullTaken ==
  ASSUME Typed, TakenInv, HandFree, NEW l \in Listeners,
         Deliver(l) \/ List(l) \/ ListFails(l) \/ Fetch(l) \/ FetchFails(l)
  PROVE  TakenInv'
<1>1. CASE Deliver(l)
  <2>1. UNCHANGED <<box, start, hand, stored, dropped>>
    BY <1>1 DEF Deliver, handling, results
  <2>2. \A k \in Listeners :
          pull'[k] = pull[k] \/ pull'[k].next = start + 1
    <3> DEFINE q == [NoPull EXCEPT !.at = "list", !.next = start + 1]
    <3>1. start + 1 \in Nat
      BY DEF Typed, MailboxTypeOK
    <3>2. q.next = start + 1
      BY <3>1, DeliveredFields, Zenon
    <3>3. pull' = [pull EXCEPT ![l] = q]
      BY <1>1 DEF Deliver
    <3> HIDE DEF q
    <3> QED
      BY <3>2, <3>3 DEF Typed, MailboxTypeOK
  <2> QED
    BY <2>1, <2>2 DEF TakenInv, TakenBelow, Taken
<1>2. CASE List(l) \/ ListFails(l)
  <2>1. UNCHANGED <<box, start, hand, stored, dropped>>
    BY <1>2 DEF List, ListFails, handling, results
  <2>2. /\ pull[l].at = "list" /\ NoPull.at = "idle"
        /\ \/ pull' = [pull EXCEPT ![l] = Listed(pull[l])]
           \/ pull' = [pull EXCEPT ![l] = NoPull]
    BY <1>2 DEF List, ListFails, NoPull
  <2>3. /\ Listed(pull[l]) \in Pulls /\ Listed(pull[l]).at # "list"
        /\ Listed(pull[l]).at = "fetch" =>
             Listed(pull[l]).next = pull[l].next
    BY <2>2, ListedTyped
  <2>4. Listed(pull[l]).at \in {"idle", "list", "fetch"}
    BY <2>3 DEF Pulls
  <2>5. \A k \in Listeners :
          \/ pull'[k].at = "idle"
          \/ /\ pull'[k].at # "idle" /\ pull[k].at # "idle"
             /\ pull'[k].next = pull[k].next
    BY <2>2, <2>3, <2>4 DEF Typed, MailboxTypeOK
  <2> QED
    BY <2>1, <2>5, TakenInvStays DEF Taken
<1>3. CASE Fetch(l)
  <2>1. /\ pull[l].at = "fetch" /\ UNCHANGED <<box, stored>>
        /\ start' = pull[l].next
        /\ pull' = [pull EXCEPT ![l] = Passed(pull[l], TRUE)]
    BY <1>3 DEF Fetch, results
  <2>2. /\ dropped \subseteq dropped'
        /\ \A k \in Listeners : hand'[k] = hand[k] \/ hand[k] = Nothing
    BY <1>3, <2>1 DEF Fetch, Drop, handling, HandFree, Typed, MailboxTypeOK
  <2>3. \A i \in 1..Len(box) : Taken(i) => Taken(i)'
    BY <2>1, <2>2, TakenStays
  <2>4. ASSUME NEW i \in 1..Len(box), i = pull[l].next, box[i] \in Inbox
        PROVE  Taken(i)'
    <3>1. box[i] \in dropped' \/ hand'[l] = box[i]
      BY <1>3, <2>4 DEF Fetch, Drop, Typed, MailboxTypeOK
    <3> QED
      BY <3>1, <2>1 DEF Taken
  <2> QED
    BY <2>1, <2>3, <2>4, FetchedTaken
<1>4. CASE FetchFails(l)
  <2>1. /\ pull[l].at = "fetch" /\ UNCHANGED <<box, stored, start, hand>>
        /\ dropped' = dropped \cup {box[pull[l].next]}
        /\ pull' = [pull EXCEPT ![l] = Passed(pull[l], pull[l].resolved)]
    BY <1>4 DEF FetchFails, Drop, results, handling
  <2>2. pull[l].resolved \in BOOLEAN
    BY PullFields DEF Typed, MailboxTypeOK
  <2>3. \A i \in 1..Len(box) : Taken(i) => Taken(i)'
    BY <2>1 DEF Taken
  <2>4. \A i \in 1..Len(box) : i = pull[l].next => Taken(i)'
    BY <2>1 DEF Taken
  <2> QED
    BY <2>1, <2>2, <2>3, <2>4, FetchedTaken
<1> QED
  BY <1>1, <1>2, <1>3, <1>4

LEMMA HandleTaken ==
  ASSUME Typed, TakenInv, AnnounceInv, NEW l \in Listeners,
         Create(l) \/ Announce(l) \/ HandleThrows(l)
  PROVE  TakenInv'
<1>1. UNCHANGED <<box, start, pull>>
  BY DEF Create, Announce, HandleThrows
<1>2. /\ stored \subseteq stored' /\ dropped \subseteq dropped'
      /\ hand[l] \in stored' \cup dropped'
      /\ \A k \in Listeners \ {l} : hand'[k] = hand[k]
  BY DEF Create, Announce, HandleThrows, Drop, results, AnnounceInv, Typed,
         MailboxTypeOK
<1>3. \A i \in 1..Len(box) : Taken(i) => Taken(i)'
  BY <1>1, <1>2, TakenStays
<1> QED
  BY <1>1, <1>3, TakenInvStays

LEMMA CrashTaken ==
  ASSUME Typed, TakenInv, MailboxCrash
  PROVE  TakenInv'
<1>1. /\ UNCHANGED <<box, stored>> /\ start' = Len(box)
      /\ dropped' = dropped \cup (Ahead \cup ({hand[l] : l \in Listeners} \ {Nothing}))
      /\ \A l \in Listeners : pull'[l].at = "idle"
  BY DEF MailboxCrash, Drop, results, NoPull
<1>2. ASSUME NEW i \in 1..Len(box), box[i] \in Inbox
      PROVE  Taken(i)'
  <2>1. CASE i < start + 1
    <3>1. Taken(i) /\ box[i] # Nothing
      BY <1>2, <2>1, MailAssumption DEF TakenInv, TakenBelow
    <3> QED
      BY <1>1, <3>1 DEF Taken
  <2>2. CASE ~(i < start + 1)
    <3>1. box[i] \in Ahead
      BY <2>2 DEF Ahead, Typed, MailboxTypeOK
    <3> QED
      BY <1>1, <3>1 DEF Taken
  <2> QED
    BY <2>1, <2>2
<1> QED
  BY <1>1, <1>2 DEF TakenInv, TakenBelow

LEMMA NextTaken ==
  Typed /\ HandFree /\ AnnounceInv /\ TakenInv /\ [MailboxNext]_mailboxVars => TakenInv'
<1> SUFFICES ASSUME Typed, HandFree, AnnounceInv, TakenInv, [MailboxNext]_mailboxVars
             PROVE  TakenInv'
  OBVIOUS
<1>1. CASE UNCHANGED mailboxVars
  BY <1>1 DEF TakenInv, TakenBelow, Taken, mailboxVars
<1>2. CASE MailboxNext
  BY <1>2, GmailTaken, PullTaken, HandleTaken, CrashTaken DEF MailboxNext, ListenerStep
<1> QED
  BY <1>1, <1>2

\* startHistoryId never passes an incoming mail that nobody took.
THEOREM NoMailLeftBehind == MailboxSpec => []MailAccounted
  BY InitTyped, NextTyped, InitFree, NextFree, InitAnnounce, NextAnnounce,
     InitTaken, NextTaken, TakenInvImplies, PTL DEF MailboxSpec
=============================================================================
