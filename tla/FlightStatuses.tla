--------------------------- MODULE FlightStatuses ---------------------------
(***************************************************************************)
(* The flight data of a claim: the job addFlightStatus that asks every     *)
(* source once the claim is created, and the requests of the back office   *)
(* that refresh a row or ask one more source, with the date of the claim   *)
(* and the weather they carry along.                                       *)
(*                                                                         *)
(* A task is a job or a request in progress; its todo is the sequence of   *)
(* calls it has yet to await.  A call that throws ends a request, and      *)
(* brings the job back from its beginning as long as it has attempts left. *)
(***************************************************************************)
EXTENDS FlightAnswers

CONSTANTS
  Reported,   \* days a customer may give
  Offered,    \* sources the back office may ask for by itself
  Http,       \* requests in progress at the same time
  Worker,     \* the worker of the queue add-flight-status
  Order,      \* the sources, in the order the job asks them
  Attempts,   \* attempts of the job
  Limit       \* bound on the events, see Spend

Tasks  == Http \cup {Worker}
NoRow  == 0
NoFlight == 0

ASSUME TaskAssumption == Worker \notin Http /\ IsFiniteSet(Http)
ASSUME SourceAssumption ==
  /\ Reported \subseteq Days
  /\ Order \in Seq(Sources) /\ Order # <<>>
  /\ \A i, j \in DOMAIN Order : Order[i] = Order[j] => i = j
  /\ Offered \subseteq Sources \ {"FLIGHT_IO"}
ASSUME LimitAssumption == Attempts \in Nat \ {0} /\ Limit \in Nat

VARIABLES
  reported,  \* the day the customer gave, which the job carries
  day,       \* the day of the claim's details
  rows,      \* its flight statuses
  meteo,     \* its rows of weather
  job,       \* the job and its attempts and stalls
  task,      \* the tasks in progress
  twice,     \* history: sources asked by two tasks at once, or once more
  crossed,   \* history: the weather was replaced by two tasks at once
  seen,      \* history: sources that ever had a row
  lost,      \* history: sources whose row a failing refresh took away
  troubles,  \* history: calls that threw and restarts
  spent      \* events so far

vars == <<reported, day, rows, meteo, job, task, twice, crossed, seen, lost,
          troubles, spent>>
claim == <<reported, day, rows, meteo>>
history == <<twice, crossed, seen, lost, troubles>>

Calls == {"ask", "clear", "add", "delete", "date", "row"}
Rest == [op |-> "rest", todo |-> <<>>, left |-> <<>>, day |-> 0, row |-> NoRow,
         answer |-> NoFlight, timed |-> FALSE]

Source(t) == Head(task[t].left)
At(t, call) == task[t].op # "rest" /\ Head(task[t].todo) = call
Of(source) == {r \in rows : r.source = source}
\* An id no row has, nor a request that read one that had it.
Fresh == CHOOSE n \in 1..(Cardinality(rows) + Cardinality(Tasks) + 1) :
           n \notin {r.id : r \in rows} \cup {task[t].row : t \in Tasks}
\* Tasks about to make a row of the source.
Asking(source) == {t \in Tasks : task[t].op # "rest" /\
                                 \E i \in DOMAIN task[t].left :
                                    task[t].left[i] = source}

\* A request of the back office, a call that throws and a restart are events.
Spend == spent < Limit /\ spent' = spent + 1
Trouble == Spend /\ troubles' = troubles + 1

Init ==
  /\ reported \in Reported
  /\ day = reported
  /\ rows = {} /\ meteo = 0
  /\ job = [at |-> "waiting", tries |-> 0, stalled |-> FALSE]
  /\ task = [t \in Tasks |-> Rest]
  /\ twice = {} /\ crossed = FALSE /\ seen = {} /\ lost = {}
  /\ troubles = 0 /\ spent = 0

-----------------------------------------------------------------------------
(* How a task begins.                                                      *)

\* The sources this task asks are shared with whoever asks them already.
Shared(sources) == {s \in sources : Asking(s) # {} \/ Of(s) # {}}

\* The job asks for the day the customer gave, every source anew.
TakeJob ==
  /\ job.at = "waiting"
  /\ job' = [job EXCEPT !.at = "running", !.tries = @ + 1]
  /\ task' = [task EXCEPT ![Worker] =
       [Rest EXCEPT !.op = "collect", !.todo = <<"ask">>, !.left = Order,
                    !.day = reported]]
  /\ twice' = twice \cup Shared(Sources)
  /\ UNCHANGED <<claim, crossed, seen, lost, troubles, spent>>

BeginStaff(h, op, source, row) ==
  /\ task[h].op = "rest"
  /\ Spend
  /\ task' = [task EXCEPT ![h] =
       [Rest EXCEPT !.op = op, !.todo = <<"ask">>, !.left = <<source>>,
                    !.day = day, !.row = row]]
  /\ UNCHANGED <<claim, job, crossed, seen, lost, troubles>>

\* refreshFlightStatus of a row.
Refresh(h) ==
  \E r \in rows : /\ BeginStaff(h, "refresh", r.source, r.id)
                  /\ UNCHANGED twice

\* Variant: the rows there are do not matter.
CreateStatusAnyway(h, source) ==
  /\ BeginStaff(h, "create", source, NoRow)
  /\ twice' = IF Asking(source) # {} THEN twice \cup {source} ELSE twice

\* createFlightStatus of a source that has no row; flight-io is no choice.
CreateStatus(h, source) ==
  /\ Of(source) = {}
  /\ BeginStaff(h, "create", source, NoRow)
  /\ twice' = twice \cup Shared({source})

-----------------------------------------------------------------------------
(* The calls.                                                              *)

Weather == <<"clear", "add">>
Dated == <<"date", "row">>

\* What an answer leaves to do: the job saves it and asks on, a request looks
\* up the weather first.
Follow(t) ==
  CASE task[t].op = "refresh" ->
         IF Source(t) \in Timed THEN <<"clear", "add", "delete", "date", "row">>
                                ELSE <<"delete", "row">>
    [] task[t].op = "create" ->
         IF Source(t) \in Timed THEN <<"clear", "add", "date", "row">>
                                ELSE <<"row">>
    [] OTHER ->
         IF Source(t) \in {"FLIGHT_IO", "CHISINAU_AIRPORT"} THEN Dated
                                                            ELSE <<"row">>

\* Behind its last call a task asks the next source, looks up the weather if a
\* source knew the time, or ends; the job is completed with its task.
After(task0) ==
  IF task0.todo # <<>> THEN task0
  ELSE IF task0.op # "collect" THEN Rest
  ELSE IF Len(task0.left) > 1
       THEN [task0 EXCEPT !.todo = <<"ask">>, !.left = Tail(@), !.answer = NoFlight]
  ELSE IF task0.timed
       THEN [task0 EXCEPT !.todo = Weather, !.timed = FALSE, !.answer = NoFlight]
  ELSE Rest

Become(t, task0) ==
  /\ task' = [task EXCEPT ![t] = After(task0)]
  /\ job' = IF t = Worker /\ After(task0) = Rest THEN [job EXCEPT !.at = "done"]
                                                ELSE job
\* A call is made, or passed over with the one behind it.
Made(t) == Become(t, [task[t] EXCEPT !.todo = Tail(@)])
PassedOver(t) == Become(t, [task[t] EXCEPT !.todo = Tail(Tail(@))])

\* Variant: a source that does not answer is taken for one that does.
AskUnchecked(t) ==
  /\ At(t, "ask")
  /\ \E flight \in Found(Source(t), task[t].day) \cup {NoFlight} :
       Become(t, [task[t] EXCEPT !.todo = Follow(t), !.answer = flight])
  /\ UNCHANGED <<claim, history, spent>>

\* A source answers, or it does not know the flight, fails or times out.
Ask(t) ==
  /\ At(t, "ask")
  /\ \/ \E flight \in Found(Source(t), task[t].day) :
          Become(t, [task[t] EXCEPT
            !.todo = Follow(t), !.answer = flight,
            !.timed = task[t].op = "collect" /\ (@ \/ Source(t) \in Timed)])
     \/ Made(t)
  /\ UNCHANGED <<claim, history, spent>>

\* The weather is not known, or what is stored is replaced.
ClearWeather(t) ==
  /\ At(t, "clear")
  /\ \/ meteo' = 0 /\ Made(t)
     \/ meteo' = meteo /\ PassedOver(t)
  /\ crossed' = (crossed \/ \E u \in Tasks : At(u, "add"))
  /\ UNCHANGED <<reported, day, rows, twice, seen, lost, troubles, spent>>

AddWeather(t) ==
  /\ At(t, "add")
  /\ meteo' = meteo + 1
  /\ Made(t)
  /\ UNCHANGED crossed
  /\ UNCHANGED <<reported, day, rows, twice, seen, lost, troubles, spent>>

\* The row to be replaced may have been replaced already: then this throws.
DeleteRow(t) ==
  /\ At(t, "delete")
  /\ \E r \in rows : r.id = task[t].row /\ rows' = rows \ {r}
  /\ Made(t)
  /\ UNCHANGED <<reported, day, meteo, history, spent>>

\* updateDetails takes over the time of the answer, and so its day.
SetDate(t) ==
  /\ At(t, "date")
  /\ day' = task[t].answer
  /\ Made(t)
  /\ UNCHANGED <<reported, rows, meteo, history, spent>>

SaveRow(t) ==
  /\ At(t, "row")
  /\ rows' = rows \cup {[id |-> Fresh, source |-> Source(t),
                         flight |-> task[t].answer]}
  /\ seen' = seen \cup {Source(t)}
  /\ Made(t)
  /\ UNCHANGED <<reported, day, meteo, twice, crossed, lost, troubles, spent>>

-----------------------------------------------------------------------------
(* Errors.                                                                 *)

\* A refresh past its delete takes the row with it.
Interrupted(tasks) ==
  {Source(t) : t \in {u \in tasks : /\ task[u].op = "refresh"
                                    /\ (At(u, "date") \/ At(u, "row"))}}

\* Variant: the job has one attempt.
RetriedNever == [job EXCEPT !.at = "failed"]

\* What a failing attempt makes of the job: queue.add says attempts: 3.
Retried == [job EXCEPT !.at = IF job.tries < Attempts THEN "waiting"
                                                      ELSE "failed"]

Break(t) ==
  /\ task' = [task EXCEPT ![t] = Rest]
  /\ job' = IF t = Worker THEN Retried ELSE job
  /\ lost' = lost \cup Interrupted({t})
  /\ UNCHANGED <<claim, twice, crossed, seen>>

\* Trouble: a call to the database throws.
Throw(t) == /\ task[t].op # "rest"
            /\ Trouble
            /\ Break(t)

\* The row to delete is gone.
DeleteThrows(t) ==
  /\ At(t, "delete")
  /\ \A r \in rows : r.id # task[t].row
  /\ Break(t)
  /\ UNCHANGED <<troubles, spent>>

\* The process restarts: requests are gone, the job that was running returns
\* to the queue once, without an attempt spent.
Crash ==
  /\ Trouble
  /\ task' = [t \in Tasks |-> Rest]
  /\ lost' = lost \cup Interrupted(Tasks)
  /\ job' = CASE job.at # "running" -> job
              [] job.stalled -> [job EXCEPT !.at = "failed"]
              [] OTHER -> [job EXCEPT !.at = "waiting", !.stalled = TRUE,
                                      !.tries = @ - 1]
  /\ UNCHANGED <<claim, twice, crossed, seen>>

-----------------------------------------------------------------------------
Proceed(t) ==
  \/ Ask(t) \/ ClearWeather(t) \/ AddWeather(t)
  \/ DeleteRow(t) \/ SetDate(t) \/ SaveRow(t)

Next ==
  \/ TakeJob
  \/ \E h \in Http : \/ Refresh(h)
                     \/ \E s \in Offered : CreateStatus(h, s)
  \/ \E t \in Tasks : Proceed(t) \/ Throw(t) \/ DeleteThrows(t)
  \/ Crash

Spec == Init /\ [][Next]_vars

\* The worker polls, and what began goes on.
Fairness == WF_vars(TakeJob) /\ \A t \in Tasks : WF_vars(Proceed(t) \/ DeleteThrows(t))

FairSpec == Spec /\ Fairness

-----------------------------------------------------------------------------
(* Properties.                                                             *)

\* Every variable has the shape the code gives it.
TypeOK ==
  /\ reported \in Reported /\ day \in Days
  /\ rows \subseteq [id : Nat \ {NoRow}, source : Sources, flight : Days]
  /\ \A r, q \in rows : r.id = q.id => r = q
  /\ meteo \in Nat
  /\ job \in [at : {"waiting", "running", "done", "failed"}, tries : 0..Attempts,
             stalled : BOOLEAN]
  /\ \A t \in Tasks : task[t].op # "rest" => task[t].left # <<>> /\ task[t].todo # <<>>
  /\ twice \subseteq Sources /\ seen \subseteq Sources /\ lost \subseteq Sources

\* A claim has one row of a source, unless the job asked it once more or two
\* tasks asked it at the same time.
OneRowPerSource ==
  \A s \in Sources : Cardinality(Of(s)) > 1 => s \in twice

\* What a source once said of the claim stays, in a row of its own or of the
\* refresh that is replacing it, unless that refresh broke off.
SourcesKept ==
  \A s \in seen : \/ Of(s) # {} \/ s \in lost
                  \/ \E t \in Tasks : task[t].op = "refresh" /\ Source(t) = s

\* There is one state of the weather, unless two tasks replaced it together.
OneWeather == meteo > 1 => crossed

\* The delay read from whatever the source that is asked knows of a flight
\* that arrived is how late it was at the gate, but for a flight that left
\* late and arrived at the hour (OAG), for one due in one year that arrived in
\* the next (flight-io), and for one that came early, which flight-io takes
\* for one in time.
DelaysFaithful ==
  \A s \in {Source(t) : t \in {u \in Tasks : At(u, "ask")}}, f \in Answers :
    (f.state = "Landed" /\ Known(f.gate)) =>
      \/ Delay(s, f) = f.gate - f.due
      \/ s = "OAG" /\ f.gate = f.due
      \/ s = "FLIGHT_IO" /\ f.gate < f.due /\ Delay(s, f) = 0
      \/ s = "FLIGHT_IO" /\ f.gate \div HoursOfYear # f.due \div HoursOfYear

\* The source that is asked calls a cancelled flight cancelled, and none that
\* took off to its destination; only OAG calls one cancelled that is yet to
\* leave.
CancellationsFaithful ==
  \A s \in {Source(t) : t \in {u \in Tasks : At(u, "ask")}}, f \in Answers :
    /\ f.state = "Canceled" => Cancelled(s, f)
    /\ Cancelled(s, f) => \/ f.state \in {"Canceled", "Diverted"}
                          \/ f.state = "Scheduled" /\ s = "OAG"

\* Days on which the customer's flight, and the one before it, leave and take
\* off the same day and whose date is not written like that of another day.
Plain(d) == /\ {d - 1, d} \cap Night = {}
            /\ \A e \in Days : FlightIoDate(e) = FlightIoDate(d) => e = d

\* The claim stays on the day the customer gave, and so does every row,
\* whatever is refreshed: only a flight after midnight or a date that is
\* written like another can move it.
DayKept ==
  Plain(reported) => day = reported /\ \A r \in rows : r.flight = reported

\* The sources are asked to the end, unless a call throws or the process
\* restarts a second time.
JobCompletes ==
  (job.at = "waiting") ~> (job.at = "done" \/ troubles > 1)

\* What the sources said of the claim is stored once and stays.
RowsOfSources == OneRowPerSource /\ SourcesKept /\ OneWeather

\* What is stored is what happened to the flight of the customer.
AnswersFaithful == DayKept /\ DelaysFaithful /\ CancellationsFaithful
=============================================================================
