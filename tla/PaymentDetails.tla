--------------------------- MODULE PaymentDetails ---------------------------
(***************************************************************************)
(* The payment details of one claim: the back office asks for them, the    *)
(* customer answers through a link, and the back office is told.           *)
(*                                                                         *)
(* A request adds three letters to a queue without awaiting them, lifts    *)
(* the block of an earlier answer, and marks the claim as asked.  The      *)
(* worker sends a letter, with a link of its own, unless it finds the      *)
(* block.  An answer burns its link, unmarks the claim, sets the block,    *)
(* raises the flag of recent updates, adds a row of them, and saves the    *)
(* details.  The back office views the updates: it marks the rows and      *)
(* clears the flag.  Each of these calls is awaited on its own.            *)
(*                                                                         *)
(* Time is counted in days left: letters[d] is the number of letters that  *)
(* become due in d days, block the days until the block expires.           *)
(***************************************************************************)
EXTENDS Naturals, FiniteSets

CONSTANTS
  Http,        \* requests of staff and of the customer at the same time
  Delays,      \* days until each letter of a request
  BlockDays,   \* days until a block expires
  Attempts,    \* attempts of a letter's job
  MaxLinks,    \* bound on the links that are told apart
  Limit,       \* bound on the events of each kind, see Spend
  Total        \* bound on the events altogether

Events  == {"ask", "answer", "view", "throw", "failure", "crash"}
Links   == 1..MaxLinks
NoLink  == 0
Horizon == BlockDays
Tries   == [thrown : 0..(Attempts - 1), stalled : 0..1]
NewTry  == [thrown |-> 0, stalled |-> 0]

\* Letters are out before a block that is set together with them expires.
ASSUME DelayAssumption ==
  /\ BlockDays \in Nat \ {0}
  /\ Delays \subseteq Nat
  /\ \A d \in Delays : d < BlockDays
ASSUME AttemptAssumption == Attempts \in Nat \ {0} /\ MaxLinks \in Nat
ASSUME LimitAssumption == Limit \in [Events -> Nat] /\ Total \in Nat

VARIABLES
  requested,   \* claim.state.isPaymentRequested
  block,       \* days until the redis key that holds 'true' expires, or 0
  adding,      \* letters being added, by their delay
  letters,     \* letters that become due in each number of days
  again,       \* letters that are due once more, by their tries
  worker,      \* the worker of the letters
  sent,        \* links sent so far, the latest one being the number sent
  revoked,     \* links whose token was revoked
  flag,        \* claim.state.hasRecentUpdate
  unviewed,    \* number of recent updates that are not viewed
  task,        \* where each request is
  quiet,       \* history: answered, and not asked since
  told,        \* history: a letter went out since staff asked last
  whole,       \* history: a request went through, and none was cut off since
  crossed,     \* history: a request and an answer overlapped
  saves,       \* history: answers saved through each link
  shared,      \* history: links two answers held at the same time
  news,        \* history: details were saved since the last view began
  missed,      \* history: an answer and a view overlapped
  spent        \* events so far, by kind

queue   == <<adding, letters, again, worker>>
updates == <<flag, unviewed, news, missed>>
tokens  == <<revoked, saves, shared>>
vars    == <<requested, block, queue, sent, updates, tokens, task, quiet,
             told, whole, crossed, spent>>

-----------------------------------------------------------------------------
Spent == spent["ask"] + spent["answer"] + spent["view"] + spent["throw"]
         + spent["failure"] + spent["crash"]

Spend(event) ==
  /\ spent[event] < Limit[event] /\ Spent < Total
  /\ spent' = [spent EXCEPT ![event] = @ + 1]

Rest  == [step |-> "rest", link |-> NoLink]
Idle  == [step |-> "rest", try |-> NewTry, calm |-> FALSE]
At(step) == {h \in Http : task[h].step = step}
Goto(h, from, to) ==
  /\ task[h].step = from
  /\ task' = [task EXCEPT ![h] = IF to = "rest" THEN Rest
                                 ELSE [@ EXCEPT !.step = to]]

Init ==
  /\ requested = FALSE
  /\ block = 0
  /\ adding = [d \in Delays |-> 0]
  /\ letters = [d \in 0..Horizon |-> 0]
  /\ again = [t \in Tries |-> 0]
  /\ worker = Idle
  /\ sent = 0
  /\ revoked = {}
  /\ flag = FALSE
  /\ unviewed = 0
  /\ task = [h \in Http |-> Rest]
  /\ quiet = FALSE /\ told = FALSE /\ whole = FALSE /\ crossed = FALSE
  /\ saves = [l \in Links |-> 0]
  /\ shared = {}
  /\ news = FALSE /\ missed = FALSE
  /\ spent = [e \in Events |-> 0]

-----------------------------------------------------------------------------
(* PaymentController.requestPaymentDetails.                                *)

\* Variant: only the first letter is added.
BeginRequestOnce(h) ==
  /\ Spend("ask")
  /\ Goto(h, "rest", "lift")
  /\ adding' = [adding EXCEPT ![0] = @ + 1]
  /\ quiet' = FALSE
  /\ told' = FALSE
  /\ whole' = FALSE
  /\ UNCHANGED <<requested, block, letters, again, worker, sent, updates,
                 tokens, crossed>>

\* schedulePaymentDetailsRequests starts three adds and awaits none of them.
BeginRequest(h) ==
  /\ Spend("ask")
  /\ Goto(h, "rest", "lift")
  /\ adding' = [d \in Delays |-> adding[d] + 1]
  /\ quiet' = FALSE
  /\ told' = FALSE
  /\ whole' = FALSE
  /\ UNCHANGED <<requested, block, letters, again, worker, sent, updates,
                 tokens, crossed>>

\* An add reaches redis; the three may be overtaken by the calls below.
AddLetter(d) ==
  /\ adding[d] > 0
  /\ adding' = [adding EXCEPT ![d] = @ - 1]
  /\ letters' = [letters EXCEPT ![d] = @ + 1]
  /\ UNCHANGED <<requested, block, again, worker, sent, updates, tokens, task,
                 quiet, told, whole, crossed, spent>>

\* Variant: the block of an earlier answer stays.
KeepBlock(h) ==
  /\ Goto(h, "lift", "request")
  /\ UNCHANGED <<requested, block, queue, sent, updates, tokens, quiet, told,
                 whole, crossed, spent>>

\* setBlockPaymentRequests(false): the key holds 'false' from now on.
LiftBlock(h) ==
  /\ Goto(h, "lift", "request")
  /\ block' = 0
  /\ UNCHANGED <<requested, queue, sent, updates, tokens, quiet, told, whole,
                 crossed, spent>>

SetRequested(h) ==
  /\ Goto(h, "request", "rest")
  /\ requested' = TRUE
  /\ whole' = TRUE
  /\ crossed' = (crossed \/ At("block") # {})
  /\ UNCHANGED <<block, queue, sent, updates, tokens, quiet, told, spent>>

-----------------------------------------------------------------------------
(* RequestPaymentDetailsProcessor: one letter at a time.                   *)

\* Variant: the letter is taken off the untried ones whichever it was.
StartLetterTwice(t) ==
  /\ worker.step = "rest"
  /\ letters[0] + again[t] > 0
  /\ letters' = [letters EXCEPT ![0] = @ - 1]
  /\ worker' = IF block > 0 THEN Idle
               ELSE [step |-> "send", try |-> t, calm |-> quiet]
  /\ UNCHANGED <<requested, block, adding, again, sent, updates, tokens, task,
                 quiet, told, whole, crossed, spent>>

\* The job starts, for the first time or once more, and reads the block.
StartLetter(t) ==
  /\ worker.step = "rest"
  /\ \/ /\ t = NewTry
        /\ letters[0] > 0
        /\ letters' = [letters EXCEPT ![0] = @ - 1]
        /\ again' = again
     \/ /\ again[t] > 0
        /\ again' = [again EXCEPT ![t] = @ - 1]
        /\ letters' = letters
  /\ worker' = IF block > 0 THEN Idle
               ELSE [step |-> "send", try |-> t, calm |-> quiet]
  /\ UNCHANGED <<requested, block, adding, sent, updates, tokens, task, quiet,
                 told, whole, crossed, spent>>

\* It makes a link and sends the letter.
SendLetter ==
  /\ worker.step = "send"
  /\ worker' = Idle
  /\ sent' = IF sent < MaxLinks THEN sent + 1 ELSE sent
  /\ told' = TRUE
  /\ UNCHANGED <<requested, block, adding, letters, again, updates, tokens,
                 task, quiet, whole, crossed, spent>>

\* A call of the job throws.  It is tried again, after seconds, or given up.
LetterThrows ==
  /\ worker.step = "send"
  /\ Spend("throw")
  /\ worker' = Idle
  /\ again' = IF worker.try.thrown + 1 < Attempts
              THEN [again EXCEPT
                      ![[worker.try EXCEPT !.thrown = @ + 1]] = @ + 1]
              ELSE again
  /\ UNCHANGED <<requested, block, adding, letters, sent, updates, tokens,
                 task, quiet, told, whole, crossed>>

-----------------------------------------------------------------------------
(* PaymentPublicController.addPayment.                                     *)

\* Variant: any link that was sent is taken.
VerifyUnchecked(h, l) ==
  /\ Spend("answer")
  /\ l <= sent
  /\ task[h].step = "rest"
  /\ task' = [task EXCEPT ![h] = [step |-> "revoke", link |-> l]]
  /\ shared' = IF \E k \in At("revoke") : task[k].link = l
               THEN shared \cup {l} ELSE shared
  /\ UNCHANGED <<requested, block, queue, sent, updates, revoked, saves, quiet,
                 told, whole, crossed>>

\* verifyJWT of a link from a letter, which looks for it among the revoked.
Verify(h, l) ==
  /\ Spend("answer")
  /\ l <= sent
  /\ l \notin revoked
  /\ task[h].step = "rest"
  /\ task' = [task EXCEPT ![h] = [step |-> "revoke", link |-> l]]
  /\ shared' = IF \E k \in At("revoke") : task[k].link = l
               THEN shared \cup {l} ELSE shared
  /\ UNCHANGED <<requested, block, queue, sent, updates, revoked, saves, quiet,
                 told, whole, crossed>>

Revoke(h) ==
  /\ Goto(h, "revoke", "clear")
  /\ revoked' = revoked \cup {task[h].link}
  /\ UNCHANGED <<requested, block, queue, sent, updates, saves, shared, quiet,
                 told, whole, crossed, spent>>

ClearRequested(h) ==
  /\ Goto(h, "clear", "block")
  /\ requested' = FALSE
  /\ UNCHANGED <<block, queue, sent, updates, tokens, quiet, told, whole,
                 crossed, spent>>

\* Variant: the block is half as long.
SetBlockTooShort(h) ==
  /\ Goto(h, "block", "flag")
  /\ block' = BlockDays \div 2
  /\ quiet' = (quiet \/ At("lift") = {})
  /\ crossed' = (crossed \/ At("request") # {})
  /\ UNCHANGED <<requested, queue, sent, updates, tokens, told, whole, spent>>

\* setBlockPaymentRequests(true).
SetBlock(h) ==
  /\ Goto(h, "block", "flag")
  /\ block' = BlockDays
  /\ quiet' = (quiet \/ At("lift") = {})
  /\ crossed' = (crossed \/ At("request") # {})
  /\ UNCHANGED <<requested, queue, sent, updates, tokens, told, whole, spent>>

\* Variant: the flag stays as it is.
KeepFlag(h) ==
  /\ Goto(h, "flag", "row")
  /\ missed' = (missed \/ At("unflag") # {})
  /\ UNCHANGED <<requested, block, queue, sent, flag, unviewed, news, tokens,
                 quiet, told, whole, crossed, spent>>

\* saveRecentUpdate: first the flag, then the row.
RaiseFlag(h) ==
  /\ Goto(h, "flag", "row")
  /\ flag' = TRUE
  /\ missed' = (missed \/ At("unflag") # {})
  /\ UNCHANGED <<requested, block, queue, sent, unviewed, news, tokens, quiet,
                 told, whole, crossed, spent>>

AddUpdate(h) ==
  /\ Goto(h, "row", "save")
  /\ unviewed' = unviewed + 1
  /\ UNCHANGED <<requested, block, queue, sent, flag, news, missed, tokens,
                 quiet, told, whole, crossed, spent>>

\* updatePayment.
SaveDetails(h) ==
  /\ Goto(h, "save", "rest")
  /\ news' = TRUE
  /\ saves' = [saves EXCEPT ![task[h].link] = @ + 1]
  /\ UNCHANGED <<requested, block, queue, sent, flag, unviewed, missed,
                 revoked, shared, quiet, told, whole, crossed, spent>>

-----------------------------------------------------------------------------
(* AdminController.patchHasRecentUpdates.                                  *)

MarkViewed(h) ==
  /\ Spend("view")
  /\ Goto(h, "rest", "unflag")
  /\ unviewed' = 0
  /\ news' = FALSE
  /\ missed' = (missed \/ At("row") \cup At("save") # {})
  /\ UNCHANGED <<requested, block, queue, sent, flag, tokens, quiet, told,
                 whole, crossed>>

ClearFlag(h) ==
  /\ Goto(h, "unflag", "rest")
  /\ flag' = FALSE
  /\ UNCHANGED <<requested, block, queue, sent, unviewed, news, missed, tokens,
                 quiet, told, whole, crossed, spent>>

-----------------------------------------------------------------------------
\* A call of a request throws; what it did before stays.
HandlerThrows(h) ==
  /\ task[h].step # "rest"
  /\ Spend("failure")
  /\ task' = [task EXCEPT ![h] = Rest]
  /\ UNCHANGED <<requested, block, queue, sent, updates, tokens, quiet, told,
                 whole, crossed>>

\* The process restarts: adds that were not sent are lost, and the job that
\* was running returns to the queue once.
Crash ==
  /\ Spend("crash")
  /\ task' = [h \in Http |-> Rest]
  /\ whole' = FALSE
  /\ adding' = [d \in Delays |-> 0]
  /\ worker' = Idle
  /\ again' = IF worker.step = "send" /\ worker.try.stalled = 0
              THEN [again EXCEPT ![[worker.try EXCEPT !.stalled = 1]] = @ + 1]
              ELSE again
  /\ UNCHANGED <<requested, block, letters, sent, updates, tokens, quiet, told,
                 crossed>>

\* A day passes.  It does not pass within a request, or while a letter is due.
Tick ==
  /\ \A h \in Http : task[h] = Rest
  /\ worker.step = "rest"
  /\ \A d \in Delays : adding[d] = 0
  /\ letters[0] = 0 /\ \A t \in Tries : again[t] = 0
  /\ block > 0 \/ \E d \in 1..Horizon : letters[d] > 0
  /\ block' = IF block = 0 THEN 0 ELSE block - 1
  /\ letters' = [d \in 0..Horizon |->
                   IF d = Horizon THEN 0 ELSE letters[d + 1]]
  /\ UNCHANGED <<requested, adding, again, worker, sent, updates, tokens, task,
                 quiet, told, whole, crossed, spent>>

-----------------------------------------------------------------------------
Proceed(h) ==
  \/ LiftBlock(h) \/ SetRequested(h)
  \/ Revoke(h) \/ ClearRequested(h) \/ SetBlock(h)
  \/ RaiseFlag(h) \/ AddUpdate(h) \/ SaveDetails(h)
  \/ ClearFlag(h)

Remind == (\E t \in Tries : StartLetter(t)) \/ SendLetter

Begin(h) ==
  \/ BeginRequest(h)
  \/ \E l \in Links : Verify(h, l)
  \/ MarkViewed(h)

Trouble == (\E h \in Http : HandlerThrows(h)) \/ LetterThrows \/ Crash

Next == \/ \E h \in Http : Begin(h) \/ Proceed(h)
        \/ \E d \in Delays : AddLetter(d)
        \/ Remind \/ Trouble \/ Tick

Spec == Init /\ [][Next]_vars

\* Requests in progress go on, adds arrive, the worker polls, time passes.
Fairness == /\ \A h \in Http : WF_vars(Proceed(h))
            /\ \A d \in Delays : WF_vars(AddLetter(d))
            /\ WF_vars(Remind) /\ WF_vars(Tick)

FairSpec == Spec /\ Fairness

-----------------------------------------------------------------------------
(* Properties.                                                             *)

Steps == {"rest", "lift", "request", "revoke", "clear", "block", "flag", "row",
          "save", "unflag"}

\* Every variable has the shape the code gives it.
TypeOK ==
  /\ requested \in BOOLEAN /\ flag \in BOOLEAN
  /\ block \in 0..BlockDays
  /\ adding \in [Delays -> Nat]
  /\ letters \in [0..Horizon -> Nat]
  /\ again \in [Tries -> Nat]
  /\ worker \in [step : {"rest", "send"}, try : Tries, calm : BOOLEAN]
  /\ sent \in 0..MaxLinks
  /\ revoked \subseteq 0..sent /\ shared \subseteq 1..sent
  /\ unviewed \in Nat
  /\ task \in [Http -> [step : Steps, link : 0..sent]]
  /\ quiet \in BOOLEAN /\ told \in BOOLEAN
  /\ whole \in BOOLEAN /\ crossed \in BOOLEAN
  /\ saves \in [Links -> Nat]
  /\ news \in BOOLEAN /\ missed \in BOOLEAN
  /\ spent \in [Events -> Nat]

\* The customer who has answered gets no more letters until staff ask again:
\* no job gets past the check of the block while the last word was an answer,
\* however the letters, the retries and the expiry of the block fall.
NoLetterAfterAnswer == worker.step = "send" => ~worker.calm

\* A claim marked as asked is one whose letters go out: the mark and the block
\* do not contradict each other, unless a request and an answer overlapped.
RequestedMeansOpen == requested /\ block > 0 => crossed

\* One link brings one answer, unless a second one was verified before the
\* first had revoked it.
LinkAnswersOnce == \A l \in Links \ shared : saves[l] <= 1

\* Details that were saved, and rows that were added, since staff last looked
\* are announced by the flag, unless staff looked while they were on the way.
NewDetailsFlagged == (news \/ unviewed > 0) /\ ~missed => flag

Mishaps == spent["failure"] + spent["crash"]

\* Staff who ask reach the customer: a claim that is marked as asked brings a
\* letter, the first one or a later one, unless the customer answers, an
\* answer overlapped the request, a letter threw on every attempt, or a
\* request or the process broke off.
RequestReachesCustomer ==
  \A n \in 0..(Limit["failure"] + Limit["crash"]) :
    (whole /\ requested /\ Mishaps = n)
    ~> (told \/ ~requested \/ crossed \/ Mishaps > n
        \/ spent["throw"] >= Attempts)
=============================================================================
