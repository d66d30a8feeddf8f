------------------------ MODULE FlightStatusesProofs ------------------------
(***************************************************************************)
(* Theorems about FlightStatuses, for any days, answers, sources asked,    *)
(* requests in progress and attempts, and any bound on the events.         *)
(***************************************************************************)
EXTENDS FlightStatuses, FiniteSetTheorems, SequenceTheorems, TLAPS

-----------------------------------------------------------------------------
(* The inductive invariant.                                                *)

\* What each kind of task may have left to do.
RefreshTodos == {<<"ask">>, <<"clear", "add", "delete", "date", "row">>,
                 <<"add", "delete", "date", "row">>, <<"delete", "date", "row">>,
                 <<"delete", "row">>, <<"date", "row">>, <<"row">>}
CreateTodos  == {<<"ask">>, <<"clear", "add", "date", "row">>,
                 <<"add", "date", "row">>, <<"date", "row">>, <<"row">>}
CollectTodos == {<<"ask">>, <<"date", "row">>, <<"row">>, <<"clear", "add">>,
                 <<"add">>}
TodosOf(op) == CASE op = "refresh" -> RefreshTodos
                 [] op = "create" -> CreateTodos
                 [] OTHER -> CollectTodos

Rows == [id : Nat \ {NoRow}, source : Sources, flight : Days]
Jobs == [at : {"waiting", "running", "done", "failed"}, tries : 0..Attempts,
         stalled : BOOLEAN]
TaskRecs == [op : {"rest", "refresh", "create", "collect"}, todo : Seq(Calls),
             left : Seq(Sources), day : Int, row : Nat, answer : Int,
             timed : BOOLEAN]

Typed ==
  /\ reported \in Reported /\ day \in Days
  /\ rows \subseteq Rows /\ IsFiniteSet(rows)
  /\ meteo \in Nat
  /\ job \in Jobs
  /\ task \in [Tasks -> TaskRecs]
  /\ twice \subseteq Sources /\ seen \subseteq Sources /\ lost \subseteq Sources
  /\ crossed \in BOOLEAN

\* The job has attempts left while it waits, and has one to give back while
\* it runs.
JobTried == /\ job.at = "waiting" => job.tries < Attempts
            /\ job.at = "running" => job.tries > 0

\* What At says, of the record of a task.
Calling(k, call) == k.op # "rest" /\ Head(k.todo) = call

\* No source stands twice in the list of a task.
Different(s) == \A i, j \in DOMAIN s : s[i] = s[j] => i = j

\* A task has a source to ask, and no source twice; the job looks up the
\* weather behind its last one.
Sound(k) ==
  k.op # "rest" =>
    /\ k.todo \in TodosOf(k.op)
    /\ k.left # <<>>
    /\ Different(k.left)
    /\ k.op = "collect" => \/ Head(k.todo) \in {"ask", "date", "row"}
                           \/ Len(k.left) = 1

\* The worker collects and the requests do not.
Placed ==
  /\ task[Worker].op \in {"rest", "collect"}
  /\ \A h \in Http : task[h].op # "collect"
  /\ \A t \in Tasks : Sound(task[t])

\* Ids are of one row, and a refresh keeps the source of the row it read.
IdsApart ==
  /\ \A r, q \in rows : r.id = q.id => r = q
  /\ \A t \in Tasks, r \in rows :
       (task[t].op = "refresh" /\ r.id = task[t].row) => r.source = Head(task[t].left)

\* A task that holds the answer of its source.
Answered(k) == /\ k.op # "rest" /\ Head(k.todo) # "ask"
               /\ k.op = "collect" => Head(k.todo) \in {"date", "row"}
AnswersKnown == \A t \in Tasks : Answered(task[t]) => task[t].answer \in Days

\* Tasks that have a row of the source to make and none to delete before.
Makes(k, s) ==
  \/ k.op = "refresh" /\ Head(k.left) = s /\ Head(k.todo) \in {"date", "row"}
  \/ k.op = "create" /\ Head(k.left) = s
  \/ /\ k.op = "collect" /\ Head(k.todo) \in {"ask", "date", "row"}
     /\ \E i \in DOMAIN k.left : k.left[i] = s

\* A source that was not asked twice has one row, or one task that makes it.
RowOrMaker ==
  \A s \in Sources \ twice :
    /\ \A r, q \in Of(s) : r = q
    /\ \A t \in Tasks : Makes(task[t], s) => Of(s) = {}
    /\ \A t, u \in Tasks : Makes(task[t], s) /\ Makes(task[u], s) => t = u

\* Unless two tasks crossed, weather is only there when nobody is to add it.
WeatherApart ==
  ~crossed =>
    /\ meteo \in {0, 1}
    /\ \A t \in Tasks : Calling(task[t], "add") => meteo = 0
    /\ \A t, u \in Tasks : Calling(task[t], "add") /\ Calling(task[u], "add") => t = u

\* A source that was seen has a row, one on its way, or lost it.
Replaces(k, s) ==
  k.op = "refresh" /\ Head(k.left) = s /\ Head(k.todo) \in {"date", "row"}
SeenKept ==
  \A s \in seen : Of(s) # {} \/ s \in lost \/ \E t \in Tasks : Replaces(task[t], s)

\* On a plain day every task asks for it, and gets it.
DaysAgree ==
  Plain(reported) =>
    /\ day = reported
    /\ \A r \in rows : r.flight = reported
    /\ \A t \in Tasks : /\ task[t].op # "rest" => task[t].day = reported
                        /\ Answered(task[t]) => task[t].answer = reported

IInv == /\ Typed /\ JobTried /\ Placed /\ IdsApart /\ AnswersKnown
        /\ RowOrMaker /\ WeatherApart /\ SeenKept /\ DaysAgree

-----------------------------------------------------------------------------
(* What becomes of the record of a task.                                   *)

\* What the operators on sequences make of what a task has left to do.
LEMMA TodoParts ==
  /\ Head(<<"ask">>) = "ask" /\ <<"ask">> # <<>>
  /\ Tail(<<"ask">>) = <<>>
  /\ <<"ask">> \in Seq(Calls)
  /\ Head(<<"row">>) = "row" /\ <<"row">> # <<>>
  /\ Tail(<<"row">>) = <<>>
  /\ <<"row">> \in Seq(Calls)
  /\ Head(<<"date", "row">>) = "date" /\ <<"date", "row">> # <<>>
  /\ Tail(<<"date", "row">>) = <<"row">>
  /\ <<"date", "row">> \in Seq(Calls)
  /\ Head(<<"delete", "row">>) = "delete" /\ <<"delete", "row">> # <<>>
  /\ Tail(<<"delete", "row">>) = <<"row">>
  /\ <<"delete", "row">> \in Seq(Calls)
  /\ Head(<<"delete", "date", "row">>) = "delete" /\ <<"delete", "date", "row">> # <<>>
  /\ Tail(<<"delete", "date", "row">>) = <<"date", "row">>
  /\ <<"delete", "date", "row">> \in Seq(Calls)
  /\ Head(<<"add", "delete", "date", "row">>) = "add"
  /\ <<"add", "delete", "date", "row">> # <<>>
  /\ Tail(<<"add", "delete", "date", "row">>) = <<"delete", "date", "row">>
  /\ <<"add", "delete", "date", "row">> \in Seq(Calls)
  /\ Head(<<"clear", "add", "delete", "date", "row">>) = "clear"
  /\ <<"clear", "add", "delete", "date", "row">> # <<>>
  /\ Tail(<<"clear", "add", "delete", "date", "row">>) = <<"add", "delete", "date", "row">>
  /\ <<"clear", "add", "delete", "date", "row">> \in Seq(Calls)
  /\ Head(<<"add", "date", "row">>) = "add" /\ <<"add", "date", "row">> # <<>>
  /\ Tail(<<"add", "date", "row">>) = <<"date", "row">>
  /\ <<"add", "date", "row">> \in Seq(Calls)
  /\ Head(<<"clear", "add", "date", "row">>) = "clear"
  /\ <<"clear", "add", "date", "row">> # <<>>
  /\ Tail(<<"clear", "add", "date", "row">>) = <<"add", "date", "row">>
  /\ <<"clear", "add", "date", "row">> \in Seq(Calls)
  /\ Head(<<"add">>) = "add" /\ <<"add">> # <<>>
  /\ Tail(<<"add">>) = <<>>
  /\ <<"add">> \in Seq(Calls)
  /\ Head(<<"clear", "add">>) = "clear" /\ <<"clear", "add">> # <<>>
  /\ Tail(<<"clear", "add">>) = <<"add">>
  /\ <<"clear", "add">> \in Seq(Calls)
<1>1. /\ Head(<<"ask">>) = "ask" /\ <<"ask">> # <<>>
      /\ Tail(<<"ask">>) = <<>>
      /\ <<"ask">> \in Seq(Calls)
  BY DEF Calls
<1>2. /\ Head(<<"row">>) = "row" /\ <<"row">> # <<>>
      /\ Tail(<<"row">>) = <<>>
      /\ <<"row">> \in Seq(Calls)
  BY DEF Calls
<1>3. /\ Head(<<"date", "row">>) = "date" /\ <<"date", "row">> # <<>>
      /\ Tail(<<"date", "row">>) = <<"row">>
      /\ <<"date", "row">> \in Seq(Calls)
  BY DEF Calls
<1>4. /\ Head(<<"delete", "row">>) = "delete" /\ <<"delete", "row">> # <<>>
      /\ Tail(<<"delete", "row">>) = <<"row">>
      /\ <<"delete", "row">> \in Seq(Calls)
  BY DEF Calls
<1>5. /\ Head(<<"delete", "date", "row">>) = "delete"
      /\ <<"delete", "date", "row">> # <<>>
      /\ Tail(<<"delete", "date", "row">>) = <<"date", "row">>
      /\ <<"delete", "date", "row">> \in Seq(Calls)
  BY DEF Calls
<1>6. /\ Head(<<"add", "delete", "date", "row">>) = "add"
      /\ <<"add", "delete", "date", "row">> # <<>>
      /\ Tail(<<"add", "delete", "date", "row">>) = <<"delete", "date", "row">>
      /\ <<"add", "delete", "date", "row">> \in Seq(Calls)
  BY DEF Calls
<1>7. /\ Head(<<"clear", "add", "delete", "date", "row">>) = "clear"
      /\ <<"clear", "add", "delete", "date", "row">> # <<>>
      /\ Tail(<<"clear", "add", "delete", "date", "row">>)
         = <<"add", "delete", "date", "row">>
      /\ <<"clear", "add", "delete", "date", "row">> \in Seq(Calls)
  BY DEF Calls
<1>8. /\ Head(<<"add", "date", "row">>) = "add" /\ <<"add", "date", "row">> # <<>>
      /\ Tail(<<"add", "date", "row">>) = <<"date", "row">>
      /\ <<"add", "date", "row">> \in Seq(Calls)
  BY DEF Calls
<1>9. /\ Head(<<"clear", "add", "date", "row">>) = "clear"
      /\ <<"clear", "add", "date", "row">> # <<>>
      /\ Tail(<<"clear", "add", "date", "row">>) = <<"add", "date", "row">>
      /\ <<"clear", "add", "date", "row">> \in Seq(Calls)
  BY DEF Calls
<1>10. /\ Head(<<"add">>) = "add" /\ <<"add">> # <<>>
      /\ Tail(<<"add">>) = <<>>
      /\ <<"add">> \in Seq(Calls)
  BY DEF Calls
<1>11. /\ Head(<<"clear", "add">>) = "clear" /\ <<"clear", "add">> # <<>>
      /\ Tail(<<"clear", "add">>) = <<"add">>
      /\ <<"clear", "add">> \in Seq(Calls)
  BY DEF Calls
<1> QED
  BY <1>1, <1>2, <1>3, <1>4, <1>5, <1>6, <1>7, <1>8, <1>9, <1>10, <1>11, Zenon

\* Nothing is left to do.
LEMMA NoTodo == <<>> \in Seq(Calls)
  OBVIOUS

\* What may be left to do behind each call.
Onward(op, s) ==
  /\ s # <<>> /\ s \in Seq(Calls) /\ Head(s) \in Calls /\ Tail(s) \in Seq(Calls)
  /\ Tail(s) # <<>> => Tail(s) \in TodosOf(op)
  /\ Head(s) \in {"ask", "row"} => Tail(s) = <<>>
  /\ Head(s) = "date" => Tail(s) # <<>> /\ Head(Tail(s)) = "row"
  /\ Head(s) = "delete" => /\ op = "refresh" /\ Tail(s) # <<>>
                           /\ Head(Tail(s)) \in {"date", "row"}
  /\ Head(s) = "add" =>
       IF op = "collect" THEN Tail(s) = <<>>
       ELSE Tail(s) # <<>> /\ Head(Tail(s)) = IF op = "refresh" THEN "delete" ELSE "date"
  /\ Head(s) = "clear" =>
       /\ Tail(s) # <<>> /\ Head(Tail(s)) = "add" /\ Tail(Tail(s)) \in Seq(Calls)
       /\ IF op = "collect" THEN Tail(Tail(s)) = <<>>
          ELSE /\ Tail(Tail(s)) \in TodosOf(op) /\ Tail(Tail(s)) # <<>>
               /\ Head(Tail(Tail(s))) = IF op = "refresh" THEN "delete" ELSE "date"

\* Each sequence of calls goes on the way its first call says.
LEMMA TodosGoOn ==
  ASSUME NEW op \in {"refresh", "create", "collect"}, NEW s \in TodosOf(op)
  PROVE  Onward(op, s)
<1>1. CASE op = "refresh"
  <2>0. TodosOf(op) = RefreshTodos
    BY <1>1, Zenon DEF TodosOf
  <2>1. CASE s = <<"ask">>
    <3>1. /\ Head(s) = "ask" /\ s # <<>> /\ s \in Seq(Calls)
          /\ Tail(s) = <<>> /\ Tail(s) \in Seq(Calls)
      BY <2>1, TodoParts, NoTodo, Zenon
    <3> QED
      BY <1>1, <3>1 DEF Onward, Calls
  <2>2. CASE s = <<"clear", "add", "delete", "date", "row">>
    <3>1. /\ Head(s) = "clear" /\ s # <<>> /\ s \in Seq(Calls)
          /\ Tail(s) # <<>> /\ Head(Tail(s)) = "add" /\ Tail(s) \in Seq(Calls)
          /\ Tail(s) \in TodosOf(op)
      BY <2>2, <2>0, TodoParts, Zenon DEF RefreshTodos
    <3>2. /\ Tail(Tail(s)) # <<>> /\ Head(Tail(Tail(s))) = "delete"
          /\ Tail(Tail(s)) \in Seq(Calls) /\ Tail(Tail(s)) \in TodosOf(op)
      BY <2>2, <2>0, TodoParts, Zenon DEF RefreshTodos
    <3> QED
      BY <1>1, <3>1, <3>2 DEF Onward, Calls
  <2>3. CASE s = <<"add", "delete", "date", "row">>
    <3>1. /\ Head(s) = "add" /\ s # <<>> /\ s \in Seq(Calls)
          /\ Tail(s) # <<>> /\ Head(Tail(s)) = "delete" /\ Tail(s) \in Seq(Calls)
          /\ Tail(s) \in TodosOf(op)
      BY <2>3, <2>0, TodoParts, Zenon DEF RefreshTodos
    <3> QED
      BY <1>1, <3>1 DEF Onward, Calls
  <2>4. CASE s = <<"delete", "date", "row">>
    <3>1. /\ Head(s) = "delete" /\ s # <<>> /\ s \in Seq(Calls)
          /\ Tail(s) # <<>> /\ Head(Tail(s)) = "date" /\ Tail(s) \in Seq(Calls)
          /\ Tail(s) \in TodosOf(op)
      BY <2>4, <2>0, TodoParts, Zenon DEF RefreshTodos
    <3> QED
      BY <1>1, <3>1 DEF Onward, Calls
  <2>5. CASE s = <<"delete", "row">>
    <3>1. /\ Head(s) = "delete" /\ s # <<>> /\ s \in Seq(Calls)
          /\ Tail(s) # <<>> /\ Head(Tail(s)) = "row" /\ Tail(s) \in Seq(Calls)
          /\ Tail(s) \in TodosOf(op)
      BY <2>5, <2>0, TodoParts, Zenon DEF RefreshTodos
    <3> QED
      BY <1>1, <3>1 DEF Onward, Calls
  <2>6. CASE s = <<"date", "row">>
    <3>1. /\ Head(s) = "date" /\ s # <<>> /\ s \in Seq(Calls)
          /\ Tail(s) # <<>> /\ Head(Tail(s)) = "row" /\ Tail(s) \in Seq(Calls)
          /\ Tail(s) \in TodosOf(op)
      BY <2>6, <2>0, TodoParts, Zenon DEF RefreshTodos
    <3> QED
      BY <1>1, <3>1 DEF Onward, Calls
  <2>7. CASE s = <<"row">>
    <3>1. /\ Head(s) = "row" /\ s # <<>> /\ s \in Seq(Calls)
          /\ Tail(s) = <<>> /\ Tail(s) \in Seq(Calls)
      BY <2>7, TodoParts, NoTodo, Zenon
    <3> QED
      BY <1>1, <3>1 DEF Onward, Calls
  <2> QED
    BY <2>0, <2>1, <2>2, <2>3, <2>4, <2>5, <2>6, <2>7, Zenon DEF RefreshTodos
<1>2. CASE op = "create"
  <2>0. TodosOf(op) = CreateTodos
    BY <1>2, Zenon DEF TodosOf
  <2>1. CASE s = <<"ask">>
    <3>1. /\ Head(s) = "ask" /\ s # <<>> /\ s \in Seq(Calls)
          /\ Tail(s) = <<>> /\ Tail(s) \in Seq(Calls)
      BY <2>1, TodoParts, NoTodo, Zenon
    <3> QED
      BY <1>2, <3>1 DEF Onward, Calls
  <2>2. CASE s = <<"clear", "add", "date", "row">>
    <3>1. /\ Head(s) = "clear" /\ s # <<>> /\ s \in Seq(Calls)
          /\ Tail(s) # <<>> /\ Head(Tail(s)) = "add" /\ Tail(s) \in Seq(Calls)
          /\ Tail(s) \in TodosOf(op)
      BY <2>2, <2>0, TodoParts, Zenon DEF CreateTodos
    <3>2. /\ Tail(Tail(s)) # <<>> /\ Head(Tail(Tail(s))) = "date"
          /\ Tail(Tail(s)) \in Seq(Calls) /\ Tail(Tail(s)) \in TodosOf(op)
      BY <2>2, <2>0, TodoParts, Zenon DEF CreateTodos
    <3> QED
      BY <1>2, <3>1, <3>2 DEF Onward, Calls
  <2>3. CASE s = <<"add", "date", "row">>
    <3>1. /\ Head(s) = "add" /\ s # <<>> /\ s \in Seq(Calls)
          /\ Tail(s) # <<>> /\ Head(Tail(s)) = "date" /\ Tail(s) \in Seq(Calls)
          /\ Tail(s) \in TodosOf(op)
      BY <2>3, <2>0, TodoParts, Zenon DEF CreateTodos
    <3> QED
      BY <1>2, <3>1 DEF Onward, Calls
  <2>4. CASE s = <<"date", "row">>
    <3>1. /\ Head(s) = "date" /\ s # <<>> /\ s \in Seq(Calls)
          /\ Tail(s) # <<>> /\ Head(Tail(s)) = "row" /\ Tail(s) \in Seq(Calls)
          /\ Tail(s) \in TodosOf(op)
      BY <2>4, <2>0, TodoParts, Zenon DEF CreateTodos
    <3> QED
      BY <1>2, <3>1 DEF Onward, Calls
  <2>5. CASE s = <<"row">>
    <3>1. /\ Head(s) = "row" /\ s # <<>> /\ s \in Seq(Calls)
          /\ Tail(s) = <<>> /\ Tail(s) \in Seq(Calls)
      BY <2>5, TodoParts, NoTodo, Zenon
    <3> QED
      BY <1>2, <3>1 DEF Onward, Calls
  <2> QED
    BY <2>0, <2>1, <2>2, <2>3, <2>4, <2>5, Zenon DEF CreateTodos
<1>3. CASE op = "collect"
  <2>0. TodosOf(op) = CollectTodos
    BY <1>3, Zenon DEF TodosOf
  <2>1. CASE s = <<"ask">>
    <3>1. /\ Head(s) = "ask" /\ s # <<>> /\ s \in Seq(Calls)
          /\ Tail(s) = <<>> /\ Tail(s) \in Seq(Calls)
      BY <2>1, TodoParts, NoTodo, Zenon
    <3> QED
      BY <1>3, <3>1 DEF Onward, Calls
  <2>2. CASE s = <<"date", "row">>
    <3>1. /\ Head(s) = "date" /\ s # <<>> /\ s \in Seq(Calls)
          /\ Tail(s) # <<>> /\ Head(Tail(s)) = "row" /\ Tail(s) \in Seq(Calls)
          /\ Tail(s) \in TodosOf(op)
      BY <2>2, <2>0, TodoParts, Zenon DEF CollectTodos
    <3> QED
      BY <1>3, <3>1 DEF Onward, Calls
  <2>3. CASE s = <<"row">>
    <3>1. /\ Head(s) = "row" /\ s # <<>> /\ s \in Seq(Calls)
          /\ Tail(s) = <<>> /\ Tail(s) \in Seq(Calls)
      BY <2>3, TodoParts, NoTodo, Zenon
    <3> QED
      BY <1>3, <3>1 DEF Onward, Calls
  <2>4. CASE s = <<"clear", "add">>
    <3>1. /\ Head(s) = "clear" /\ s # <<>> /\ s \in Seq(Calls)
          /\ Tail(s) # <<>> /\ Head(Tail(s)) = "add" /\ Tail(s) \in Seq(Calls)
          /\ Tail(s) \in TodosOf(op) /\ Tail(Tail(s)) = <<>>
          /\ Tail(Tail(s)) \in Seq(Calls)
      BY <2>4, <2>0, TodoParts, NoTodo, Zenon DEF CollectTodos
    <3> QED
      BY <1>3, <3>1 DEF Onward, Calls
  <2>5. CASE s = <<"add">>
    <3>1. /\ Head(s) = "add" /\ s # <<>> /\ s \in Seq(Calls)
          /\ Tail(s) = <<>> /\ Tail(s) \in Seq(Calls)
      BY <2>5, TodoParts, NoTodo, Zenon
    <3> QED
      BY <1>3, <3>1 DEF Onward, Calls
  <2> QED
    BY <2>0, <2>1, <2>2, <2>3, <2>4, <2>5, Zenon DEF CollectTodos
<1> QED
  BY <1>1, <1>2, <1>3

\* A request or the job goes on, with what is left behind its call.
Same(k, n) == n.op = k.op /\ n.day = k.day /\ n.row = k.row
GoesOn(k, n, todo) == /\ Same(k, n) /\ n.todo = todo
                      /\ n.left = k.left /\ n.answer = k.answer

\* The job asks its next source, or looks up the weather.
AsksNext(k, n) == /\ k.op = "collect" /\ Len(k.left) > 1
                  /\ Same(k, n) /\ n.todo = <<"ask">> /\ n.left = Tail(k.left)
LooksUp(k, n) == /\ k.op = "collect" /\ Len(k.left) = 1
                 /\ Same(k, n) /\ n.todo = Weather /\ n.left = k.left

\* Sequences of different elements.
LEMMA Lengths ==
  ASSUME NEW S, NEW s \in Seq(S), s # <<>>
  PROVE  Len(s) > 1 \/ Len(s) = 1
<1>1. Len(s) \in Nat /\ Len(s) # 0
  BY LenProperties, EmptySeq
<1> DEFINE n == Len(s)
<1>2. n \in Nat /\ n # 0
  BY <1>1
<1> HIDE DEF n
<1>3. n > 1 \/ n = 1
  BY <1>2
<1> QED
  BY <1>3 DEF n

\* Behind its head a sequence of different elements has only others.
LEMMA TailApart ==
  ASSUME NEW S, NEW s \in Seq(S), Len(s) > 1, Different(s)
  PROVE  /\ Tail(s) \in Seq(S) /\ Tail(s) # <<>>
         /\ Different(Tail(s))
         /\ \A i \in DOMAIN Tail(s) : Tail(s)[i] # Head(s)
         /\ \A i \in DOMAIN Tail(s) : \E j \in DOMAIN s : s[j] = Tail(s)[i]
<1>1. Tail(s) \in Seq(S) /\ Len(Tail(s)) = Len(s) - 1
  OBVIOUS
<1>2. Tail(s) # <<>>
  <2> DEFINE n == Len(s)
             m == Len(Tail(s))
  <2>1. n \in Nat /\ n > 1 /\ m = n - 1
    BY <1>1
  <2> HIDE DEF n, m
  <2>2. m # 0
    BY <2>1
  <2> QED
    BY <1>1, <2>2, EmptySeq, Zenon DEF m
<1>3. \A i \in DOMAIN Tail(s) : /\ Tail(s)[i] = s[i + 1] /\ i + 1 \in DOMAIN s
                                /\ i \in Int /\ i + 1 # 1
  OBVIOUS
<1>4. Head(s) = s[1] /\ 1 \in DOMAIN s
  OBVIOUS
<1>5. Different(Tail(s))
  <2> SUFFICES ASSUME NEW i \in DOMAIN Tail(s), NEW j \in DOMAIN Tail(s),
                      Tail(s)[i] = Tail(s)[j]
               PROVE  i = j
    BY DEF Different
  <2>1. i + 1 = j + 1
    BY <1>3, Zenon DEF Different
  <2> QED
    BY <1>3, <2>1
<1>6. \A i \in DOMAIN Tail(s) : Tail(s)[i] # Head(s)
  BY <1>3, <1>4, Zenon DEF Different
<1> QED
  BY <1>1, <1>2, <1>3, <1>5, <1>6, Zenon

\* A task that rests is well formed.
LEMMA RestIs == /\ Rest \in TaskRecs /\ Rest.op = "rest" /\ Rest.row = 0
                /\ Rest.left = <<>> /\ Sound(Rest)
  BY DEF Rest, TaskRecs, Sound, NoRow, NoFlight

\* Behind its last source a task rests, asks on or looks up the weather.
LEMMA LastCall ==
  ASSUME NEW k \in TaskRecs, k.op # "rest", k.left # <<>>, k.todo = <<>>,
         NEW n, n = After(k)
  PROVE  /\ n \in TaskRecs
         /\ n = Rest \/ AsksNext(k, n) \/ LooksUp(k, n)
<1>1. k.left \in Seq(Sources) /\ Len(k.left) \in Nat /\ Len(k.left) > 0
  BY DEF TaskRecs, Sound
<1>2. CASE k.op # "collect"
  BY <1>2, RestIs DEF After
<1>3. CASE k.op = "collect" /\ Len(k.left) > 1
  <2> DEFINE m == [k EXCEPT !.todo = <<"ask">>, !.left = Tail(@), !.answer = NoFlight]
  <2>1. Tail(k.left) \in Seq(Sources)
    BY <1>1, <1>3
  <2>2. <<"ask">> \in Seq(Calls) /\ NoFlight \in Int
    BY TodoParts DEF NoFlight
  <2>3. m \in TaskRecs /\ AsksNext(k, m)
    BY <1>3, <2>1, <2>2 DEF TaskRecs, AsksNext, Same
  <2>4. n = m
    BY <1>3 DEF After
  <2> QED
    BY <2>3, <2>4
<1>4. CASE k.op = "collect" /\ Len(k.left) = 1
  <2> DEFINE m == [k EXCEPT !.todo = Weather, !.timed = FALSE, !.answer = NoFlight]
  <2>1. Weather \in Seq(Calls) /\ NoFlight \in Int
    BY TodoParts DEF NoFlight, Weather
  <2>2. m \in TaskRecs /\ LooksUp(k, m)
    BY <1>4, <2>1 DEF TaskRecs, LooksUp, Same
  <2>3. n = m \/ n = Rest
    BY <1>4 DEF After
  <2> QED
    BY <2>2, <2>3, RestIs
<1>5. Len(k.left) > 1 \/ Len(k.left) = 1
  BY <1>1, Lengths, Zenon
<1> QED
  BY <1>2, <1>3, <1>4, <1>5, Zenon

\* The record a call leaves.
LEMMA NextIs ==
  ASSUME NEW k \in TaskRecs, k.op # "rest", Sound(k), NEW todo \in Seq(Calls),
         todo # <<>> =>
           /\ todo \in TodosOf(k.op)
           /\ k.op = "collect" => Head(todo) \in {"ask", "date", "row"} \/ Len(k.left) = 1,
         NEW n, n = After([k EXCEPT !.todo = todo])
  PROVE  /\ n \in TaskRecs /\ Sound(n)
         /\ IF todo # <<>> THEN GoesOn(k, n, todo)
            ELSE n = Rest \/ AsksNext(k, n) \/ LooksUp(k, n)
<1> DEFINE m == [k EXCEPT !.todo = todo]
<1>1. m \in TaskRecs /\ GoesOn(k, m, todo)
  BY DEF TaskRecs, GoesOn, Same
<1>2. /\ k.left \in Seq(Sources) /\ Len(k.left) \in Nat /\ k.left # <<>>
      /\ Different(k.left)
      /\ k.op \in {"refresh", "create", "collect"}
  BY DEF TaskRecs, Sound
<1>3. CASE todo # <<>>
  <2>1. n = m
    BY <1>3, <1>1 DEF After, GoesOn
  <2>2. Sound(m)
    BY <1>1, <1>2, <1>3 DEF Sound, GoesOn, Same
  <2> QED
    BY <1>1, <1>3, <2>1, <2>2
<1>4. CASE todo = <<>>
  <2>1. m.op # "rest" /\ m.left = k.left /\ Same(k, m) /\ m.todo = <<>>
    BY <1>1, <1>4 DEF GoesOn, Same
  <2>2. n \in TaskRecs /\ (n = Rest \/ AsksNext(m, n) \/ LooksUp(m, n))
    BY <1>1, <1>2, <2>1, LastCall
  <2>3. CASE n = Rest
    BY <1>4, <2>3, RestIs
  <2>4. CASE AsksNext(m, n)
    <3>1. AsksNext(k, n)
      BY <2>1, <2>4 DEF AsksNext, Same
    <3>2. n.left = Tail(k.left) /\ n.todo = <<"ask">> /\ n.op = "collect"
      BY <3>1 DEF AsksNext, Same
    <3>3. n.todo \in TodosOf(n.op) /\ Head(n.todo) = "ask"
      BY <3>2, TodoParts, Zenon DEF TodosOf, CollectTodos
    <3>4. n.left # <<>> /\ Different(n.left)
      <4>1. Len(k.left) > 1
        BY <3>1 DEF AsksNext
      <4> QED
        BY <1>2, <3>2, <4>1, TailApart, Zenon
    <3>5. Sound(n)
      BY <3>3, <3>4 DEF Sound
    <3> QED
      BY <1>4, <2>2, <3>1, <3>5
  <2>5. CASE LooksUp(m, n)
    <3>1. LooksUp(k, n)
      BY <2>1, <2>5 DEF LooksUp, Same
    <3>2. n.left = k.left /\ n.todo = Weather /\ n.op = "collect" /\ Len(k.left) = 1
      BY <3>1 DEF LooksUp, Same
    <3>3. n.todo \in TodosOf(n.op)
      BY <3>2, Zenon DEF TodosOf, CollectTodos, Weather
    <3>4. Sound(n)
      BY <1>2, <3>2, <3>3 DEF Sound
    <3> QED
      BY <1>4, <2>2, <3>1, <3>4
  <2> QED
    BY <2>2, <2>3, <2>4, <2>5
<1> QED
  BY <1>3, <1>4

\* What the parts of the invariant need to know of a task k that became n.
Keeps(k, n) ==
  /\ n \in TaskRecs /\ Sound(n) /\ n.op \in {k.op, "rest"}
  /\ n.op = "refresh" => n.row = k.row /\ Head(n.left) = Head(k.left)
  /\ n.op # "rest" => n.day = k.day
  /\ Answered(n) => Answered(k) /\ n.answer = k.answer
  /\ \A s : Makes(n, s) => \/ Makes(k, s)
                           \/ Head(k.todo) = "delete" /\ s = Head(k.left)
  /\ Head(k.todo) = "row" => ~Makes(n, Head(k.left))
  /\ \A s : Replaces(k, s) => Replaces(n, s) \/ Head(k.todo) = "row"
  /\ Calling(n, "add") => Head(k.todo) = "clear"
  /\ Head(k.todo) = "delete" => k.op = "refresh" /\ Replaces(n, Head(k.left))

\* A call that is made, and one that is passed over with the call behind it.
LEMMA CallKeeps ==
  ASSUME NEW k \in TaskRecs, k.op # "rest", Sound(k),
         NEW todo,
         \/ todo = Tail(k.todo)
         \/ todo = Tail(Tail(k.todo)) /\ Head(k.todo) = "clear",
         NEW n, n = After([k EXCEPT !.todo = todo])
  PROVE  /\ Keeps(k, n)
         /\ (todo = Tail(Tail(k.todo)) /\ Head(k.todo) = "clear") => ~Calling(n, "add")
<1>1. /\ k.left \in Seq(Sources) /\ k.left # <<>> /\ Different(k.left)
      /\ k.op \in {"refresh", "create", "collect"}
      /\ k.todo \in TodosOf(k.op)
      /\ k.op = "collect" => Head(k.todo) \in {"ask", "date", "row"} \/ Len(k.left) = 1
  BY DEF TaskRecs, Sound
<1>2. Onward(k.op, k.todo)
  BY <1>1, TodosGoOn
<1>3. /\ todo \in Seq(Calls)
      /\ todo # <<>> => todo \in TodosOf(k.op)
      /\ k.op = "collect" => \/ todo = <<>> \/ Head(todo) \in {"ask", "date", "row"}
                             \/ Len(k.left) = 1
  BY <1>1, <1>2, NoTodo DEF Onward
<1>4. /\ n \in TaskRecs /\ Sound(n)
      /\ IF todo # <<>> THEN GoesOn(k, n, todo)
         ELSE n = Rest \/ AsksNext(k, n) \/ LooksUp(k, n)
  BY <1>1, <1>3, NextIs
<1>5. CASE todo # <<>>
  <2>1. /\ Same(k, n) /\ n.todo = todo /\ n.left = k.left /\ n.answer = k.answer
    BY <1>4, <1>5 DEF GoesOn
  <2>2. /\ Head(k.todo) \in {"date", "delete", "add", "clear"}
        /\ Head(k.todo) = "date" => Head(todo) = "row"
        /\ Head(k.todo) = "delete" => Head(todo) \in {"date", "row"} /\ k.op = "refresh"
        /\ Head(k.todo) \in {"add", "clear"} =>
             IF k.op = "refresh" THEN Head(todo) \in {"add", "delete"}
             ELSE (k.op = "collect" /\ Head(todo) = "add") \/ k.op = "create"
        /\ Head(todo) = "add" => Head(k.todo) = "clear"
    BY <1>1, <1>2, <1>5 DEF Onward, Calls
  <2>3. Head(n.todo) = Head(todo) /\ n.op = k.op /\ n.day = k.day /\ n.row = k.row
    BY <2>1 DEF Same
  <2>4. Answered(n) => Answered(k) /\ n.answer = k.answer
    BY <1>1, <2>1, <2>2, <2>3 DEF Answered
  <2>5. \A s : Makes(n, s) => Makes(k, s) \/ (Head(k.todo) = "delete" /\ s = Head(k.left))
    BY <1>1, <2>1, <2>2, <2>3 DEF Makes
  <2>6. \A s : Replaces(k, s) => Replaces(n, s)
    BY <1>1, <2>1, <2>2, <2>3 DEF Replaces
  <2>7. Head(k.todo) = "delete" => k.op = "refresh" /\ Replaces(n, Head(k.left))
    BY <1>1, <2>1, <2>2, <2>3 DEF Replaces
  <2>8. Calling(n, "add") => Head(k.todo) = "clear"
    BY <2>2, <2>3 DEF Calling
  <2>9. (todo = Tail(Tail(k.todo)) /\ Head(k.todo) = "clear") => ~Calling(n, "add")
    BY <1>1, <1>2, <1>5, <2>3 DEF Calling, Onward
  <2> QED
    BY <1>4, <2>1, <2>2, <2>3, <2>4, <2>5, <2>6, <2>7, <2>8, <2>9 DEF Keeps
<1>6. CASE todo = <<>>
  <2>1. \/ Head(k.todo) \in {"ask", "row"}
        \/ k.op = "collect" /\ Head(k.todo) \in {"clear", "add"}
    BY <1>1, <1>2, <1>6 DEF Onward, Calls
  <2>2. \A s : Replaces(k, s) => Head(k.todo) = "row"
    BY <2>1 DEF Replaces
  <2>3. CASE n = Rest
    BY <1>4, <2>1, <2>2, <2>3, RestIs DEF Keeps, Answered, Makes, Calling
  <2>4. CASE AsksNext(k, n)
    <3>1. /\ k.op = "collect" /\ Len(k.left) > 1 /\ n.op = "collect" /\ n.day = k.day
          /\ n.left = Tail(k.left) /\ n.todo = <<"ask">>
      BY <2>4 DEF AsksNext, Same
    <3>2. Head(n.todo) = "ask"
      BY <3>1, TodoParts, Zenon
    <3>3. /\ \A i \in DOMAIN n.left : n.left[i] # Head(k.left)
          /\ \A i \in DOMAIN n.left : \E j \in DOMAIN k.left : k.left[j] = n.left[i]
      <4>1. /\ \A i \in DOMAIN Tail(k.left) : Tail(k.left)[i] # Head(k.left)
            /\ \A i \in DOMAIN Tail(k.left) :
                 \E j \in DOMAIN k.left : k.left[j] = Tail(k.left)[i]
        BY <1>1, <3>1, TailApart
      <4> QED
        BY <3>1, <4>1, Zenon
    <3>4. Head(k.todo) \in {"ask", "date", "row"}
      <4> DEFINE m == Len(k.left)
      <4>1. m \in Nat /\ m > 1
        BY <1>1, <3>1, LenProperties
      <4> HIDE DEF m
      <4>2. m # 1
        BY <4>1
      <4> QED
        BY <1>1, <3>1, <4>2, Zenon DEF m
    <3>5. \A s : Makes(n, s) => Makes(k, s)
      BY <3>1, <3>3, <3>4 DEF Makes
    <3>6. ~Makes(n, Head(k.left))
      BY <3>1, <3>3 DEF Makes
    <3> QED
      BY <1>4, <2>1, <2>2, <3>1, <3>2, <3>5, <3>6 DEF Keeps, Answered, Calling
  <2>5. CASE LooksUp(k, n)
    <3>1. /\ k.op = "collect" /\ n.op = "collect" /\ n.day = k.day
          /\ n.left = k.left /\ n.todo = Weather
      BY <2>5 DEF LooksUp, Same
    <3>2. Head(n.todo) = "clear"
      BY <3>1, TodoParts, Zenon DEF Weather
    <3> QED
      BY <1>4, <2>1, <2>2, <3>1, <3>2 DEF Keeps, Answered, Calling, Makes
  <2> QED
    BY <1>4, <1>6, <2>3, <2>4, <2>5
<1> QED
  BY <1>5, <1>6

\* Calls that are made or passed over.

\* A task whose call is made.
LEMMA MadeKeeps ==
  ASSUME Typed, Placed, NEW t \in Tasks, task[t].op # "rest", Made(t)
  PROVE  \E n : /\ Keeps(task[t], n) /\ task' = [task EXCEPT ![t] = n]
                /\ job' \in {job, [job EXCEPT !.at = "done"]}
<1> DEFINE k == task[t]
           todo == Tail(k.todo)
           n == After([k EXCEPT !.todo = todo])
<1>1. k \in TaskRecs /\ Sound(k) /\ k.op # "rest"
  BY DEF Typed, Placed
<1>2. [k EXCEPT !.todo = Tail(@)] = [k EXCEPT !.todo = todo]
  OBVIOUS
<1>3. /\ task' = [task EXCEPT ![t] = n]
      /\ job' \in {job, [job EXCEPT !.at = "done"]}
  BY <1>2, Zenon DEF Made, Become
<1> HIDE DEF k
<1>4. Keeps(k, n)
  BY <1>1, CallKeeps
<1> QED
  BY <1>3, <1>4, Zenon DEF k

\* A task that looked for weather that is not known: it adds none.
LEMMA PassedKeeps ==
  ASSUME Typed, Placed, NEW t \in Tasks, At(t, "clear"), PassedOver(t)
  PROVE  \E n : /\ Keeps(task[t], n) /\ task' = [task EXCEPT ![t] = n]
                /\ job' \in {job, [job EXCEPT !.at = "done"]}
                /\ ~Calling(n, "add")
<1> DEFINE k == task[t]
           todo == Tail(Tail(k.todo))
           n == After([k EXCEPT !.todo = todo])
<1>1. k \in TaskRecs /\ Sound(k) /\ k.op # "rest" /\ Head(k.todo) = "clear"
  BY DEF Typed, Placed, At
<1>2. [k EXCEPT !.todo = Tail(Tail(@))] = [k EXCEPT !.todo = todo]
  OBVIOUS
<1>3. /\ task' = [task EXCEPT ![t] = n]
      /\ job' \in {job, [job EXCEPT !.at = "done"]}
  BY <1>2, Zenon DEF PassedOver, Become
<1> HIDE DEF k
<1>4. Keeps(k, n) /\ ~Calling(n, "add")
  BY <1>1, CallKeeps
<1> QED
  BY <1>3, <1>4, Zenon DEF k

\* A source that answers leaves its answer, and what there is to do with it.
KeepsAsked(k, n) ==
  /\ n \in TaskRecs /\ Sound(n) /\ n.op = k.op
  /\ n.row = k.row /\ n.left = k.left /\ n.day = k.day
  /\ n.answer \in Found(Head(k.left), k.day)
  /\ \A s : Makes(n, s) => Makes(k, s)
  /\ ~Calling(n, "add")

\* What an answer leaves to do.
LEMMA FollowIs ==
  ASSUME NEW t \in Tasks, task[t].op \in {"refresh", "create", "collect"}
  PROVE  /\ Follow(t) \in TodosOf(task[t].op) /\ Follow(t) # <<>>
         /\ Follow(t) \in Seq(Calls)
         /\ task[t].op = "refresh" => Head(Follow(t)) \in {"clear", "delete"}
         /\ task[t].op = "collect" => Head(Follow(t)) \in {"date", "row"}
         /\ Head(Follow(t)) # "add"
<1>1. CASE task[t].op = "refresh"
  <2>1. Follow(t) \in {<<"clear", "add", "delete", "date", "row">>, <<"delete", "row">>}
    BY <1>1, Zenon DEF Follow
  <2> QED
    BY <1>1, <2>1, TodoParts, Zenon DEF TodosOf, RefreshTodos
<1>2. CASE task[t].op = "create"
  <2>1. Follow(t) \in {<<"clear", "add", "date", "row">>, <<"row">>}
    BY <1>2, Zenon DEF Follow
  <2> QED
    BY <1>2, <2>1, TodoParts, Zenon DEF TodosOf, CreateTodos
<1>3. CASE task[t].op = "collect"
  <2>1. Follow(t) \in {<<"date", "row">>, <<"row">>}
    BY <1>3, Zenon DEF Follow, Dated
  <2> QED
    BY <1>3, <2>1, TodoParts, Zenon DEF TodosOf, CollectTodos
<1> QED
  BY <1>1, <1>2, <1>3

\* A task whose source answered, or did not.
LEMMA AskKeeps ==
  ASSUME Typed, Placed, NEW t \in Tasks, Ask(t)
  PROVE  \E n : /\ task' = [task EXCEPT ![t] = n]
                /\ job' \in {job, [job EXCEPT !.at = "done"]}
                /\ Keeps(task[t], n) \/ KeepsAsked(task[t], n)
<1>1. /\ task[t] \in TaskRecs /\ Sound(task[t]) /\ task[t].op # "rest"
      /\ Head(task[t].todo) = "ask"
      /\ task[t].op \in {"refresh", "create", "collect"}
  BY DEF Typed, Placed, Ask, At, TaskRecs
<1>2. CASE Made(t)
  BY <1>1, <1>2, MadeKeeps
<1>3. ASSUME NEW flight \in Found(Source(t), task[t].day),
             Become(t, [task[t] EXCEPT
               !.todo = Follow(t), !.answer = flight,
               !.timed = task[t].op = "collect" /\ (@ \/ Source(t) \in Timed)])
      PROVE  \E n : /\ task' = [task EXCEPT ![t] = n]
                    /\ job' \in {job, [job EXCEPT !.at = "done"]}
                    /\ KeepsAsked(task[t], n)
  <2> DEFINE k == task[t]
             b == k.op = "collect" /\ (k.timed \/ Source(t) \in Timed)
             n == [k EXCEPT !.todo = Follow(t), !.answer = flight, !.timed = b]
  <2>1. /\ Follow(t) \in TodosOf(k.op) /\ Follow(t) # <<>> /\ Follow(t) \in Seq(Calls)
        /\ k.op = "refresh" => Head(Follow(t)) \in {"clear", "delete"}
        /\ k.op = "collect" => Head(Follow(t)) \in {"date", "row"}
        /\ Head(Follow(t)) # "add"
    BY <1>1, FollowIs
  <2>2. n = [k EXCEPT !.todo = Follow(t), !.answer = flight,
                      !.timed = k.op = "collect" /\ (@ \/ Source(t) \in Timed)]
    OBVIOUS
  <2>3. flight \in Int /\ flight \in Found(Head(k.left), k.day)
    BY <1>3, FlightsAssumption DEF Found, Source
  <2>4. b \in BOOLEAN
    OBVIOUS
  <2>5. /\ n \in TaskRecs /\ n.op = k.op /\ n.row = k.row /\ n.left = k.left
        /\ n.day = k.day /\ n.todo = Follow(t) /\ n.answer = flight
    <3> HIDE DEF k, b
    <3>1. k \in TaskRecs
      BY <1>1 DEF k
    <3> QED
      BY <2>1, <2>3, <2>4, <3>1 DEF TaskRecs
  <2>6. After(n) = n
    BY <2>1, <2>5 DEF After
  <2>7. /\ task' = [task EXCEPT ![t] = n]
        /\ job' \in {job, [job EXCEPT !.at = "done"]}
    BY <1>3, <2>2, <2>6, Zenon DEF Become
  <2> HIDE DEF n
  <2>8. Sound(n)
    BY <1>1, <2>1, <2>5 DEF Sound
  <2>9. \A s : Makes(n, s) => Makes(k, s)
    BY <1>1, <2>1, <2>5 DEF Makes
  <2>10. ~Calling(n, "add")
    BY <2>1, <2>5 DEF Calling
  <2> QED
    BY <2>3, <2>5, <2>7, <2>8, <2>9, <2>10 DEF KeepsAsked
<1> QED
  BY <1>2, <1>3, Zenon DEF Ask

-----------------------------------------------------------------------------
(* What keeps each part of the invariant when the task of t becomes n.     *)

\* Tasks other than that of t are as they were.
LEMMA OneTask ==
  ASSUME Typed, NEW t \in Tasks, NEW n, task' = [task EXCEPT ![t] = n]
  PROVE  /\ task'[t] = n /\ \A u \in Tasks \ {t} : task'[u] = task[u]
         /\ n \in TaskRecs => task' \in [Tasks -> TaskRecs]
  BY DEF Typed

\* Tasks stay where their kind allows.
LEMMA PlacedKept ==
  ASSUME Typed, Placed, NEW t \in Tasks, NEW n, task' = [task EXCEPT ![t] = n],
         Sound(n), n.op \in {task[t].op, "rest"}
  PROVE  Placed'
<1>1. task'[t] = n /\ \A u \in Tasks \ {t} : task'[u] = task[u]
  BY OneTask
<1>2. Worker \in Tasks /\ Http \subseteq Tasks
  BY DEF Tasks
<1>3. \A u \in Tasks : Sound(task'[u]) /\ task'[u].op \in {task[u].op, "rest"}
  BY <1>1 DEF Placed
<1> QED
  BY <1>2, <1>3 DEF Placed

\* Rows that go, and tasks that keep the row they read, leave the ids apart.
LEMMA IdsKept ==
  ASSUME Typed, IdsApart, NEW t \in Tasks, NEW n, task' = [task EXCEPT ![t] = n],
         rows' \subseteq rows,
         n.op = "refresh" => /\ task[t].op = "refresh" /\ n.row = task[t].row
                             /\ Head(n.left) = Head(task[t].left)
  PROVE  IdsApart'
<1>1. task'[t] = n /\ \A u \in Tasks \ {t} : task'[u] = task[u]
  BY OneTask
<1>2. \A r, q \in rows' : r.id = q.id => r = q
  BY DEF IdsApart
<1>3. ASSUME NEW u \in Tasks, NEW r \in rows',
             task'[u].op = "refresh", r.id = task'[u].row
      PROVE  r.source = Head(task'[u].left)
  <2>1. CASE u = t
    BY <1>1, <1>3, <2>1 DEF IdsApart
  <2>2. CASE u # t
    BY <1>1, <1>3, <2>2 DEF IdsApart
  <2> QED
    BY <2>1, <2>2
<1> QED
  BY <1>2, <1>3 DEF IdsApart

\* A task that holds an answer holds that of a flight.
LEMMA AnswersKept ==
  ASSUME Typed, AnswersKnown, NEW t \in Tasks, NEW n, task' = [task EXCEPT ![t] = n],
         Answered(n) => n.answer \in Days
  PROVE  AnswersKnown'
<1>1. task'[t] = n /\ \A u \in Tasks \ {t} : task'[u] = task[u]
  BY OneTask
<1> QED
  BY <1>1 DEF AnswersKnown

\* Nobody comes to make a row.
LEMMA MakersKept ==
  ASSUME Typed, RowOrMaker, NEW t \in Tasks, NEW n, task' = [task EXCEPT ![t] = n],
         rows' = rows, twice \subseteq twice',
         \A s : Makes(n, s) => Makes(task[t], s)
  PROVE  RowOrMaker'
<1>1. task'[t] = n /\ \A u \in Tasks \ {t} : task'[u] = task[u]
  BY OneTask
<1>2. \A u \in Tasks, s \in Sources : Makes(task'[u], s) => Makes(task[u], s)
  BY <1>1
<1>3. \A s \in Sources : {r \in rows' : r.source = s} = Of(s)
  BY DEF Of
<1> QED
  BY <1>2, <1>3 DEF RowOrMaker, Of

\* Nobody comes to add weather.
LEMMA WeatherKept ==
  ASSUME Typed, WeatherApart, NEW t \in Tasks, NEW n, task' = [task EXCEPT ![t] = n],
         meteo' = meteo, crossed' = crossed, ~Calling(n, "add")
  PROVE  WeatherApart'
<1>1. task'[t] = n /\ \A u \in Tasks \ {t} : task'[u] = task[u]
  BY OneTask
<1>2. \A u \in Tasks : Calling(task'[u], "add") => Calling(task[u], "add")
  BY <1>1
<1> QED
  BY <1>2 DEF WeatherApart

\* A source that was seen is still accounted for.
LEMMA SeenStays ==
  ASSUME Typed, SeenKept, NEW t \in Tasks, NEW n, task' = [task EXCEPT ![t] = n],
         rows' = rows, seen' = seen, lost \subseteq lost',
         \A s : Replaces(task[t], s) => Replaces(n, s) \/ s \in lost'
  PROVE  SeenKept'
<1>1. task'[t] = n /\ \A u \in Tasks \ {t} : task'[u] = task[u]
  BY OneTask
<1>2. \A u \in Tasks, s \in Sources :
         Replaces(task[u], s) => Replaces(task'[u], s) \/ s \in lost'
  BY <1>1
<1>3. seen \subseteq Sources
  BY DEF Typed
<1>4. \A s \in Sources : {r \in rows' : r.source = s} = Of(s)
  BY DEF Of
<1> QED
  BY <1>2, <1>3, <1>4 DEF SeenKept, Of

\* The day of the claim is that of its rows and its tasks.
LEMMA DaysKept ==
  ASSUME Typed, DaysAgree, NEW t \in Tasks, NEW n, task' = [task EXCEPT ![t] = n],
         reported' = reported,
         Plain(reported) => /\ day' = reported
                            /\ \A r \in rows' : r.flight = reported
                            /\ n.op # "rest" => n.day = reported
                            /\ Answered(n) => n.answer = reported
  PROVE  DaysAgree'
<1>1. task'[t] = n /\ \A u \in Tasks \ {t} : task'[u] = task[u]
  BY OneTask
<1>2. Plain(reported)' = Plain(reported)
  BY DEF Plain
<1> QED
  BY <1>1, <1>2 DEF DaysAgree

-----------------------------------------------------------------------------
(* Answers and ids.                                                        *)

\* A plain day brings the flight of that day from every source.
LEMMA FoundIs ==
  ASSUME NEW source, NEW d, NEW e \in Found(source, d)
  PROVE  e \in Days /\ (Plain(d) /\ d \in Days => e = d)
<1>1. Days \subseteq Int
  BY FlightsAssumption
<1>2. CASE source = "FLIGHT_AWARE"
  <2>1. e \in Days /\ d = IF e \in Night THEN e + 1 ELSE e
    BY <1>2 DEF Found
  <2>2. ASSUME Plain(d), d \in Days
        PROVE  e = d
    <3>1. d \notin Night /\ d - 1 \notin Night
      BY <2>2 DEF Plain
    <3>2. CASE e \in Night
      <4>1. e = d - 1
        BY <1>1, <2>1, <2>2, <3>2
      <4> QED
        BY <3>1, <3>2, <4>1
    <3> QED
      BY <2>1, <3>2
  <2> QED
    BY <2>1, <2>2
<1>3. CASE source = "FLIGHT_IO"
  <2>1. e \in Days /\ FlightIoDate(e) = FlightIoDate(d)
    BY <1>3 DEF Found
  <2> QED
    BY <2>1 DEF Plain
<1>4. CASE source \notin {"FLIGHT_AWARE", "FLIGHT_IO"}
  BY <1>4 DEF Found
<1> QED
  BY <1>2, <1>3, <1>4

\* SaveRow finds an id that no row has and no request holds.
LEMMA FreshIs ==
  ASSUME Typed
  PROVE  /\ Fresh \in Nat \ {NoRow}
         /\ \A r \in rows : r.id # Fresh
         /\ \A t \in Tasks : task[t].row # Fresh
<1> DEFINE ids  == {r.id : r \in rows}
           held == {task[t].row : t \in Tasks}
           f == [r \in rows |-> r.id]
           g == [t \in Tasks |-> task[t].row]
           N == 1..(Cardinality(rows) + Cardinality(Tasks) + 1)
<1>1. IsFiniteSet(rows) /\ IsFiniteSet(Tasks)
  BY TaskAssumption, FS_AddElement DEF Typed, Tasks
<1>2. f \in Surjection(rows, ids) /\ g \in Surjection(Tasks, held)
  BY DEF Surjection
<1>3. /\ Cardinality(rows) \in Nat /\ Cardinality(Tasks) \in Nat
  BY <1>1, FS_CardinalityType
<1>4. /\ IsFiniteSet(ids) /\ Cardinality(ids) <= Cardinality(rows)
      /\ IsFiniteSet(held) /\ Cardinality(held) <= Cardinality(Tasks)
  <2> HIDE DEF f, g, ids, held
  <2> QED
    BY <1>1, <1>2, FS_Surjection
<1>5. /\ IsFiniteSet(ids \cup held) /\ Cardinality(ids \cup held) \in Nat
      /\ Cardinality(ids \cup held) <= Cardinality(rows) + Cardinality(Tasks)
  <2> HIDE DEF ids, held
  <2>1. /\ Cardinality(ids) \in Nat /\ Cardinality(held) \in Nat
        /\ Cardinality(ids \cap held) \in Nat
    BY <1>4, FS_CardinalityType, FS_Intersection
  <2>2. /\ IsFiniteSet(ids \cup held)
        /\ Cardinality(ids \cup held)
             = Cardinality(ids) + Cardinality(held) - Cardinality(ids \cap held)
    BY <1>4, FS_Union
  <2> QED
    BY <1>3, <1>4, <2>1, <2>2, FS_CardinalityType
<1>6. Cardinality(N) = Cardinality(rows) + Cardinality(Tasks) + 1
  BY <1>3, FS_Interval
<1>7. ~(N \subseteq ids \cup held)
  <2> HIDE DEF N, ids, held
  <2>1. ASSUME N \subseteq ids \cup held
        PROVE  Cardinality(N) <= Cardinality(ids \cup held)
    BY <1>5, <2>1, FS_Subset
  <2> QED
    BY <1>3, <1>5, <1>6, <2>1
<1>8. \E n \in N : n \notin ids \cup held
  BY <1>7
<1>9. Fresh \in N /\ Fresh \notin ids \cup held
  <2>1. Fresh = CHOOSE n \in N : n \notin ids \cup held
    BY Zenon DEF Fresh
  <2> HIDE DEF N, ids, held
  <2> QED
    BY <1>8, <2>1
<1> QED
  BY <1>3, <1>9 DEF NoRow

-----------------------------------------------------------------------------
(* Every step keeps the invariant.                                         *)

\* The job goes on, or is done.
LEMMA JobDone ==
  ASSUME job \in Jobs, JobTried, job' \in {job, [job EXCEPT !.at = "done"]}
  PROVE  job' \in Jobs /\ JobTried'
  BY DEF Jobs, JobTried

\* A source answers, or it does not.
LEMMA AskStep ==
  ASSUME IInv, NEW t \in Tasks, Ask(t)
  PROVE  IInv'
<1> USE DEF IInv
<1>1. PICK n : /\ task' = [task EXCEPT ![t] = n]
               /\ job' \in {job, [job EXCEPT !.at = "done"]}
               /\ Keeps(task[t], n) \/ KeepsAsked(task[t], n)
  BY AskKeeps
<1>2. UNCHANGED <<reported, day, rows, meteo, twice, crossed, seen, lost>>
  BY DEF Ask, claim, history
<1>3. /\ task[t] \in TaskRecs /\ task[t].op # "rest" /\ Head(task[t].todo) = "ask"
  BY DEF Typed, Ask, At
<1>4. /\ n \in TaskRecs /\ Sound(n) /\ n.op \in {task[t].op, "rest"}
      /\ n.op = "refresh" => /\ task[t].op = "refresh" /\ n.row = task[t].row
                             /\ Head(n.left) = Head(task[t].left)
      /\ n.op # "rest" => n.day = task[t].day
      /\ \A s : Makes(n, s) => Makes(task[t], s)
      /\ ~Calling(n, "add")
  BY <1>1, <1>3 DEF Keeps, KeepsAsked
<1>5. ~Answered(task[t]) /\ \A s : ~Replaces(task[t], s)
  BY <1>3 DEF Answered, Replaces
<1>6. Answered(n) => n.answer \in Found(Head(task[t].left), task[t].day)
  BY <1>1, <1>5 DEF Keeps, KeepsAsked
<1>7. Answered(n) => n.answer \in Days
  BY <1>6, FoundIs
<1>8. ASSUME Plain(reported)
      PROVE  /\ n.op # "rest" => n.day = reported
             /\ Answered(n) => n.answer = reported
  <2>1. task[t].day = reported /\ reported \in Days
    BY <1>3, <1>8, SourceAssumption DEF DaysAgree, Typed
  <2>2. Answered(n) => n.answer = reported
    BY <1>6, <1>8, <2>1, FoundIs
  <2> QED
    BY <1>4, <2>1, <2>2
<1>9. Typed'
  BY <1>1, <1>2, <1>4, OneTask, JobDone DEF Typed
<1>10. JobTried' /\ Placed' /\ IdsApart' /\ AnswersKnown'
  BY <1>1, <1>2, <1>4, <1>7, JobDone, PlacedKept, IdsKept, AnswersKept DEF Typed
<1>11. RowOrMaker'
  BY <1>1, <1>2, <1>4, MakersKept
<1>12. WeatherApart'
  BY <1>1, <1>2, <1>4, WeatherKept
<1>13. SeenKept'
  BY <1>1, <1>2, <1>5, SeenStays
<1>14. DaysAgree'
  <2>1. Plain(reported) => day' = reported /\ \A r \in rows' : r.flight = reported
    BY <1>2 DEF DaysAgree
  <2> QED
    BY <1>1, <1>2, <1>8, <2>1, DaysKept
<1> QED
  BY <1>9, <1>10, <1>11, <1>12, <1>13, <1>14

\* A call that changes neither the rows nor what is known of them.
LEMMA CallStep ==
  ASSUME IInv, NEW t \in Tasks, NEW n, Keeps(task[t], n),
         task' = [task EXCEPT ![t] = n], job' \in {job, [job EXCEPT !.at = "done"]},
         task[t].op # "rest", Head(task[t].todo) \notin {"delete", "row"},
         UNCHANGED <<reported, rows, twice, seen, lost>>,
         meteo' \in Nat, crossed' \in BOOLEAN,
         day' \in Days, Plain(reported) => day' = reported,
         WeatherApart'
  PROVE  IInv'
<1> USE DEF IInv
<1>1. /\ n \in TaskRecs /\ Sound(n) /\ n.op \in {task[t].op, "rest"}
      /\ n.op = "refresh" => /\ task[t].op = "refresh" /\ n.row = task[t].row
                             /\ Head(n.left) = Head(task[t].left)
      /\ n.op # "rest" => n.day = task[t].day
      /\ \A s : Makes(n, s) => Makes(task[t], s)
      /\ Answered(n) => Answered(task[t]) /\ n.answer = task[t].answer
      /\ \A s : Replaces(task[t], s) => Replaces(n, s)
  BY DEF Keeps
<1>2. Answered(n) => n.answer \in Days
  BY <1>1 DEF AnswersKnown
<1>3. Typed'
  BY <1>1, OneTask, JobDone DEF Typed
<1>4. JobTried' /\ Placed' /\ IdsApart' /\ AnswersKnown'
  BY <1>1, <1>2, JobDone, PlacedKept, IdsKept, AnswersKept DEF Typed
<1>5. RowOrMaker'
  BY <1>1, MakersKept
<1>6. SeenKept'
  BY <1>1, SeenStays
<1>7. DaysAgree'
  <2>1. Plain(reported) => /\ \A r \in rows' : r.flight = reported
                           /\ n.op # "rest" => n.day = reported
                           /\ Answered(n) => n.answer = reported
    BY <1>1 DEF DaysAgree
  <2> QED
    BY <2>1, DaysKept
<1> QED
  BY <1>3, <1>4, <1>5, <1>6, <1>7

\* Before one task adds weather what is stored is gone, or another was about to.
LEMMA ClearStep ==
  ASSUME IInv, NEW t \in Tasks, ClearWeather(t)
  PROVE  IInv'
<1> USE DEF IInv
<1>1. /\ task[t].op # "rest" /\ Head(task[t].todo) = "clear" /\ At(t, "clear")
      /\ UNCHANGED <<reported, day, rows, twice, seen, lost>>
  BY DEF ClearWeather, At
<1>2. PICK n : /\ Keeps(task[t], n) /\ task' = [task EXCEPT ![t] = n]
               /\ job' \in {job, [job EXCEPT !.at = "done"]}
               /\ meteo' = 0 \/ (meteo' = meteo /\ ~Calling(n, "add"))
  BY <1>1, MadeKeeps, PassedKeeps DEF ClearWeather
<1>3. /\ meteo' \in Nat /\ crossed' \in BOOLEAN
      /\ crossed' = (crossed \/ \E u \in Tasks : At(u, "add"))
  BY <1>2 DEF ClearWeather, Typed
<1>4. WeatherApart'
  <2> SUFFICES ASSUME ~crossed'
               PROVE  /\ meteo' \in {0, 1}
                      /\ \A u \in Tasks : Calling(task'[u], "add") => meteo' = 0
                      /\ \A u, v \in Tasks : Calling(task'[u], "add") /\ Calling(task'[v], "add")
                           => u = v
    BY DEF WeatherApart
  <2>1. ~crossed /\ \A u \in Tasks : ~Calling(task[u], "add")
    BY <1>3 DEF Calling, At
  <2>2. task'[t] = n /\ \A u \in Tasks \ {t} : task'[u] = task[u]
    BY <1>2, OneTask
  <2>3. \A u \in Tasks : Calling(task'[u], "add") => u = t /\ meteo' = 0
    BY <1>2, <2>1, <2>2
  <2> QED
    BY <1>2, <2>1, <2>3 DEF WeatherApart
<1>5. day' \in Days /\ (Plain(reported) => day' = reported)
  BY <1>1 DEF Typed, DaysAgree
<1> QED
  BY <1>1, <1>2, <1>3, <1>4, <1>5, CallStep

\* Weather is added where there is none, unless two tasks crossed.
LEMMA AddStep ==
  ASSUME IInv, NEW t \in Tasks, AddWeather(t)
  PROVE  IInv'
<1> USE DEF IInv
<1>1. /\ task[t].op # "rest" /\ Head(task[t].todo) = "add"
      /\ UNCHANGED <<reported, day, rows, twice, crossed, seen, lost>>
      /\ meteo' = meteo + 1 /\ Made(t)
  BY DEF AddWeather, At
<1>2. PICK n : /\ Keeps(task[t], n) /\ task' = [task EXCEPT ![t] = n]
               /\ job' \in {job, [job EXCEPT !.at = "done"]}
  BY <1>1, MadeKeeps
<1>3. meteo' \in Nat /\ crossed' \in BOOLEAN
  BY <1>1 DEF Typed
<1>4. WeatherApart'
  <2> SUFFICES ASSUME ~crossed'
               PROVE  /\ meteo' \in {0, 1}
                      /\ \A u \in Tasks : ~Calling(task'[u], "add")
    BY DEF WeatherApart
  <2>1. /\ ~crossed /\ Calling(task[t], "add") /\ meteo = 0
        /\ \A u \in Tasks : Calling(task[u], "add") => u = t
    BY <1>1 DEF Calling, WeatherApart
  <2>2. task'[t] = n /\ \A u \in Tasks \ {t} : task'[u] = task[u]
    BY <1>2, OneTask
  <2>3. ~Calling(n, "add")
    BY <1>1, <1>2 DEF Keeps
  <2>4. meteo' = 1
    BY <1>1, <2>1
  <2> QED
    BY <2>1, <2>2, <2>3, <2>4
<1>5. day' \in Days /\ (Plain(reported) => day' = reported)
  BY <1>1 DEF Typed, DaysAgree
<1> QED
  BY <1>1, <1>2, <1>3, <1>4, <1>5, CallStep

\* The claim takes over the day of an answer.
LEMMA DateStep ==
  ASSUME IInv, NEW t \in Tasks, SetDate(t)
  PROVE  IInv'
<1> USE DEF IInv
<1>1. /\ task[t].op # "rest" /\ Head(task[t].todo) = "date"
      /\ UNCHANGED <<reported, meteo, rows, twice, crossed, seen, lost>>
      /\ day' = task[t].answer /\ Made(t)
  BY DEF SetDate, At, history
<1>2. PICK n : /\ Keeps(task[t], n) /\ task' = [task EXCEPT ![t] = n]
               /\ job' \in {job, [job EXCEPT !.at = "done"]}
  BY <1>1, MadeKeeps
<1>3. meteo' \in Nat /\ crossed' \in BOOLEAN
  BY <1>1 DEF Typed
<1>4. WeatherApart'
  <2>1. ~Calling(n, "add")
    BY <1>1, <1>2 DEF Keeps
  <2> QED
    BY <1>1, <1>2, <2>1, WeatherKept
<1>5. Answered(task[t])
  BY <1>1 DEF Answered
<1>6. day' \in Days /\ (Plain(reported) => day' = reported)
  BY <1>1, <1>5 DEF AnswersKnown, DaysAgree
<1> QED
  BY <1>1, <1>2, <1>3, <1>4, <1>6, CallStep

\* The refresh that deletes the row of its source is the one to make the next.
LEMMA DeleteStep ==
  ASSUME IInv, NEW t \in Tasks, DeleteRow(t)
  PROVE  IInv'
<1> USE DEF IInv
<1> DEFINE k == task[t]
           s0 == Head(k.left)
<1>1. /\ k.op # "rest" /\ Head(k.todo) = "delete" /\ k \in TaskRecs
      /\ UNCHANGED <<reported, day, meteo, twice, crossed, seen, lost>>
      /\ Made(t)
  BY DEF DeleteRow, At, history, Typed
<1>2. PICK n : /\ Keeps(task[t], n) /\ task' = [task EXCEPT ![t] = n]
               /\ job' \in {job, [job EXCEPT !.at = "done"]}
  BY <1>1, MadeKeeps
<1>3. PICK r \in rows : r.id = k.row /\ rows' = rows \ {r}
  BY DEF DeleteRow
<1>4. /\ n \in TaskRecs /\ Sound(n) /\ n.op \in {k.op, "rest"} /\ k.op = "refresh"
      /\ n.op = "refresh" => n.row = k.row /\ Head(n.left) = s0
      /\ n.op # "rest" => n.day = k.day
      /\ \A s : Makes(n, s) => Makes(k, s) \/ s = s0
      /\ Answered(n) => Answered(k) /\ n.answer = k.answer
      /\ \A s : Replaces(k, s) => Replaces(n, s)
      /\ Replaces(n, s0) /\ ~Calling(n, "add")
  BY <1>1, <1>2 DEF Keeps
<1>5. r.source = s0
  BY <1>3, <1>4 DEF IdsApart
<1>6. task'[t] = n /\ \A u \in Tasks \ {t} : task'[u] = task[u]
  BY <1>2, OneTask
<1>7. Answered(n) => n.answer \in Days
  BY <1>4 DEF AnswersKnown
<1>8. Typed'
  <2>1. rows' \subseteq Rows /\ IsFiniteSet(rows')
    BY <1>3, FS_Subset DEF Typed
  <2> QED
    BY <1>1, <1>2, <1>4, <2>1, OneTask, JobDone DEF Typed
<1>9. JobTried' /\ Placed' /\ IdsApart' /\ AnswersKnown'
  BY <1>1, <1>2, <1>3, <1>4, <1>7, JobDone, PlacedKept, IdsKept, AnswersKept DEF Typed
<1>10. RowOrMaker'
  <2> SUFFICES ASSUME NEW s \in Sources \ twice
               PROVE  LET now == {q \in rows' : q.source = s}
                      IN /\ \A q, p \in now : q = p
                         /\ \A u \in Tasks : Makes(task'[u], s) => now = {}
                         /\ \A u, v \in Tasks :
                              Makes(task'[u], s) /\ Makes(task'[v], s) => u = v
    BY <1>1 DEF RowOrMaker, Of
  <2> DEFINE now == {q \in rows' : q.source = s}
  <2>1. now \subseteq Of(s) \ {r}
    BY <1>3 DEF Of
  <2>2. /\ \A q, p \in Of(s) : q = p
        /\ \A u \in Tasks : Makes(task[u], s) => Of(s) = {}
        /\ \A u, v \in Tasks : Makes(task[u], s) /\ Makes(task[v], s) => u = v
    BY DEF RowOrMaker
  <2>3. CASE s = s0
    <3>1. r \in Of(s)
      BY <1>3, <1>5, <2>3 DEF Of
    <3>2. now = {} /\ \A u \in Tasks : ~Makes(task[u], s)
      BY <2>1, <2>2, <3>1
    <3>3. \A u \in Tasks : Makes(task'[u], s) => u = t
      BY <1>6, <3>2
    <3> QED
      BY <2>2, <3>2, <3>3
  <2>4. CASE s # s0
    <3>1. \A u \in Tasks : Makes(task'[u], s) => Makes(task[u], s)
      BY <1>4, <1>6, <2>4
    <3> QED
      BY <2>1, <2>2, <3>1
  <2> QED
    BY <2>3, <2>4
<1>11. WeatherApart'
  BY <1>1, <1>2, <1>4, WeatherKept
<1>12. SeenKept'
  <2> SUFFICES ASSUME NEW s \in seen
               PROVE  \/ {q \in rows' : q.source = s} # {}
                      \/ s \in lost \/ \E u \in Tasks : Replaces(task'[u], s)
    BY <1>1 DEF SeenKept, Of
  <2>1. CASE s = s0
    BY <1>4, <1>6, <2>1
  <2>2. CASE s # s0
    <3>1. {q \in rows' : q.source = s} = Of(s)
      BY <1>3, <1>5, <2>2 DEF Of
    <3>2. \A u \in Tasks : Replaces(task[u], s) => Replaces(task'[u], s)
      BY <1>4, <1>6
    <3> QED
      BY <3>1, <3>2 DEF SeenKept
  <2> QED
    BY <2>1, <2>2
<1>13. DaysAgree'
  <2>1. Plain(reported) => /\ day' = reported /\ \A q \in rows' : q.flight = reported
                           /\ n.op # "rest" => n.day = reported
                           /\ Answered(n) => n.answer = reported
    BY <1>1, <1>3, <1>4 DEF DaysAgree
  <2> QED
    BY <1>1, <1>2, <2>1, DaysKept
<1> QED
  BY <1>8, <1>9, <1>10, <1>11, <1>12, <1>13

\* Whoever saves the row of its source has none to make of it any more.
LEMMA RowStep ==
  ASSUME IInv, NEW t \in Tasks, SaveRow(t)
  PROVE  IInv'
<1> USE DEF IInv
<1> DEFINE k == task[t]
           s0 == Head(k.left)
           r == [id |-> Fresh, source |-> s0, flight |-> k.answer]
<1>1. /\ k.op # "rest" /\ Head(k.todo) = "row" /\ k \in TaskRecs
      /\ UNCHANGED <<reported, day, meteo, twice, crossed, lost>>
      /\ rows' = rows \cup {r} /\ seen' = seen \cup {s0} /\ Made(t)
  BY DEF SaveRow, At, Typed, Source
<1>2. PICK n : /\ Keeps(task[t], n) /\ task' = [task EXCEPT ![t] = n]
               /\ job' \in {job, [job EXCEPT !.at = "done"]}
  BY <1>1, MadeKeeps
<1>3. /\ n \in TaskRecs /\ Sound(n) /\ n.op \in {k.op, "rest"}
      /\ n.op = "refresh" => n.row = k.row /\ Head(n.left) = s0
      /\ n.op # "rest" => n.day = k.day
      /\ \A s : Makes(n, s) => Makes(k, s) /\ s # s0
      /\ Answered(n) => Answered(k) /\ n.answer = k.answer
      /\ ~Calling(n, "add")
  BY <1>1, <1>2 DEF Keeps
<1>4. Answered(k) /\ k.answer \in Days /\ s0 \in Sources /\ Makes(k, s0)
  <2>1. Answered(k) /\ k.answer \in Days
    BY <1>1 DEF Answered, AnswersKnown
  <2>2. k.left \in Seq(Sources) /\ k.left # <<>> /\ k.op \in {"refresh", "create", "collect"}
    BY <1>1 DEF Placed, Sound, TaskRecs
  <2>3. s0 \in Sources /\ s0 = k.left[1] /\ 1 \in DOMAIN k.left
    BY <2>2, HeadTailProperties, ElementOfSeq
  <2> QED
    BY <1>1, <2>1, <2>2, <2>3 DEF Makes
<1>5. /\ Fresh \in Nat \ {NoRow} /\ \A q \in rows : q.id # Fresh
      /\ \A u \in Tasks : task[u].row # Fresh
  BY FreshIs
<1>6. task'[t] = n /\ \A u \in Tasks \ {t} : task'[u] = task[u]
  BY <1>2, OneTask
<1>7. Answered(n) => n.answer \in Days
  BY <1>3, <1>4
<1>8. r \in Rows /\ r.id = Fresh /\ r.source = s0 /\ r.flight = k.answer
  BY <1>4, <1>5 DEF Rows
<1> HIDE DEF r
<1>9. Typed'
  <2>1. rows' \subseteq Rows /\ IsFiniteSet(rows') /\ seen' \subseteq Sources
    BY <1>1, <1>4, <1>8, FS_AddElement DEF Typed
  <2> QED
    BY <1>1, <1>2, <1>3, <2>1, OneTask, JobDone DEF Typed
<1>10. JobTried' /\ Placed' /\ AnswersKnown'
  BY <1>1, <1>2, <1>3, <1>7, JobDone, PlacedKept, AnswersKept DEF Typed
<1>11. IdsApart'
  <2>1. \A p, q \in rows' : p.id = q.id => p = q
    BY <1>1, <1>5, <1>8 DEF IdsApart
  <2>2. ASSUME NEW u \in Tasks, NEW q \in rows',
               task'[u].op = "refresh", q.id = task'[u].row
        PROVE  q.source = Head(task'[u].left)
    <3>1. /\ task[u].op = "refresh" /\ q.id = task[u].row
          /\ Head(task'[u].left) = Head(task[u].left)
      BY <1>3, <1>6, <2>2
    <3>2. q \in rows
      BY <1>1, <1>5, <1>8, <3>1
    <3> QED
      BY <3>1, <3>2 DEF IdsApart
  <2> QED
    BY <2>1, <2>2 DEF IdsApart
<1>12. RowOrMaker'
  <2> SUFFICES ASSUME NEW s \in Sources \ twice
               PROVE  LET now == {q \in rows' : q.source = s}
                      IN /\ \A q, p \in now : q = p
                         /\ \A u \in Tasks : Makes(task'[u], s) => now = {}
                         /\ \A u, v \in Tasks :
                              Makes(task'[u], s) /\ Makes(task'[v], s) => u = v
    BY <1>1 DEF RowOrMaker, Of
  <2> DEFINE now == {q \in rows' : q.source = s}
  <2>1. /\ \A q, p \in Of(s) : q = p
        /\ \A u \in Tasks : Makes(task[u], s) => Of(s) = {}
        /\ \A u, v \in Tasks : Makes(task[u], s) /\ Makes(task[v], s) => u = v
    BY DEF RowOrMaker
  <2>2. CASE s = s0
    <3>1. Of(s) = {} /\ \A u \in Tasks : Makes(task[u], s) => u = t
      BY <1>4, <2>1, <2>2
    <3>2. now \subseteq {r}
      BY <1>1, <3>1 DEF Of
    <3>3. \A u \in Tasks : ~Makes(task'[u], s)
      BY <1>3, <1>6, <2>2, <3>1
    <3> QED
      BY <3>2, <3>3
  <2>3. CASE s # s0
    <3>1. now = Of(s)
      BY <1>1, <1>8, <2>3 DEF Of
    <3>2. \A u \in Tasks : Makes(task'[u], s) => Makes(task[u], s)
      BY <1>3, <1>6
    <3> QED
      BY <2>1, <3>1, <3>2
  <2> QED
    BY <2>2, <2>3
<1>13. WeatherApart'
  BY <1>1, <1>2, <1>3, WeatherKept
<1>14. SeenKept'
  <2> SUFFICES ASSUME NEW s \in seen'
               PROVE  \/ {q \in rows' : q.source = s} # {}
                      \/ s \in lost \/ \E u \in Tasks : Replaces(task'[u], s)
    BY <1>1 DEF SeenKept, Of
  <2>1. CASE s = s0
    BY <1>1, <1>8, <2>1
  <2>2. CASE s # s0
    <3>1. Of(s) \subseteq {q \in rows' : q.source = s} /\ s \in seen
      BY <1>1, <2>2 DEF Of
    <3>2. \A u \in Tasks : Replaces(task[u], s) => Replaces(task'[u], s)
      <4>1. ~Replaces(k, s)
        BY <2>2 DEF Replaces
      <4> QED
        BY <1>6, <4>1
    <3> QED
      BY <3>1, <3>2 DEF SeenKept
  <2> QED
    BY <2>1, <2>2
<1>15. DaysAgree'
  <2>1. Plain(reported) => /\ day' = reported /\ \A q \in rows' : q.flight = reported
                           /\ n.op # "rest" => n.day = reported
                           /\ Answered(n) => n.answer = reported
    BY <1>1, <1>3, <1>4, <1>8 DEF DaysAgree
  <2> QED
    BY <1>1, <1>2, <2>1, DaysKept
<1> QED
  BY <1>9, <1>10, <1>11, <1>12, <1>13, <1>14, <1>15

\* What a call that throws, or a restart, takes away.
LEMMA InterruptedIs ==
  ASSUME Typed, Placed, NEW T \in SUBSET Tasks
  PROVE  /\ Interrupted(T) \subseteq Sources
         /\ \A u \in T : \A s : Replaces(task[u], s) => s \in Interrupted(T)
<1>1. ASSUME NEW u \in T, task[u].op = "refresh"
      PROVE  Source(u) \in Sources
  <2>1. task[u].left \in Seq(Sources) /\ task[u].left # <<>>
    BY <1>1 DEF Typed, Placed, Sound, TaskRecs
  <2> QED
    BY <2>1, HeadTailProperties DEF Source
<1>2. ASSUME NEW u \in T, NEW s, Replaces(task[u], s)
      PROVE  s \in Interrupted(T)
  <2>1. task[u].op = "refresh" /\ Source(u) = s /\ (At(u, "date") \/ At(u, "row"))
    BY <1>2 DEF Replaces, Source, At
  <2> QED
    BY <2>1 DEF Interrupted
<1> QED
  BY <1>1, <1>2 DEF Interrupted

\* A task that rests makes, adds and replaces nothing.
LEMMA RestBrings ==
  /\ Sound(Rest) /\ ~Answered(Rest) /\ ~Calling(Rest, "add")
  /\ \A s : ~Makes(Rest, s) /\ ~Replaces(Rest, s)
  BY RestIs DEF Answered, Calling, Makes, Replaces

\* A call that throws ends its task.
LEMMA BreakStep ==
  ASSUME IInv, NEW t \in Tasks, Break(t)
  PROVE  IInv'
<1> USE DEF IInv
<1>1. /\ task' = [task EXCEPT ![t] = Rest]
      /\ UNCHANGED <<reported, day, rows, meteo, twice, crossed, seen>>
      /\ lost' = lost \cup Interrupted({t})
      /\ job' = IF t = Worker THEN Retried ELSE job
  BY DEF Break, claim
<1>2. job' \in Jobs /\ JobTried'
  BY <1>1, LimitAssumption DEF Retried, Jobs, JobTried, Typed
<1>3. /\ Interrupted({t}) \subseteq Sources
      /\ \A s : Replaces(task[t], s) => s \in Interrupted({t})
  BY InterruptedIs
<1>4. Typed'
  BY <1>1, <1>2, <1>3, RestIs, OneTask DEF Typed
<1>5. Placed' /\ IdsApart' /\ AnswersKnown'
  BY <1>1, RestIs, RestBrings, PlacedKept, IdsKept, AnswersKept
<1>6. RowOrMaker'
  BY <1>1, RestBrings, MakersKept
<1>7. WeatherApart'
  BY <1>1, RestBrings, WeatherKept
<1>8. SeenKept'
  BY <1>1, <1>3, SeenStays
<1>9. DaysAgree'
  <2>1. Plain(reported) => day' = reported /\ \A r \in rows' : r.flight = reported
    BY <1>1 DEF DaysAgree
  <2> QED
    BY <1>1, <2>1, RestIs, RestBrings, DaysKept
<1> QED
  BY <1>2, <1>4, <1>5, <1>6, <1>7, <1>8, <1>9

\* A restart ends every task.
LEMMA CrashStep ==
  ASSUME IInv, Crash
  PROVE  IInv'
<1> USE DEF IInv
<1>1. /\ \A t \in Tasks : task'[t] = Rest
      /\ task' \in [Tasks -> TaskRecs]
      /\ UNCHANGED <<reported, day, rows, meteo, twice, crossed, seen>>
      /\ lost' = lost \cup Interrupted(Tasks)
  BY RestIs DEF Crash, claim
<1>2. /\ Interrupted(Tasks) \subseteq Sources
      /\ \A t \in Tasks : \A s : Replaces(task[t], s) => s \in Interrupted(Tasks)
  BY InterruptedIs
<1>3. job' \in Jobs /\ JobTried'
  <2>1. job \in Jobs
    BY DEF Typed
  <2>2. \/ job' = job
        \/ job' = [job EXCEPT !.at = "failed"]
        \/ job.at = "running" /\ job' = [job EXCEPT !.at = "waiting", !.stalled = TRUE,
                                                    !.tries = @ - 1]
    BY DEF Crash
  <2>3. CASE job' = job
    BY <2>1, <2>3 DEF JobTried
  <2>4. CASE job' = [job EXCEPT !.at = "failed"]
    BY <2>1, <2>4 DEF Jobs, JobTried
  <2>5. CASE job.at = "running" /\ job' = [job EXCEPT !.at = "waiting", !.stalled = TRUE,
                                                      !.tries = @ - 1]
    <3>1. job.tries \in 1..Attempts /\ Attempts \in Nat
      BY <2>1, <2>5, LimitAssumption DEF Jobs, JobTried
    <3>2. job.tries - 1 \in 0..Attempts /\ job.tries - 1 < Attempts
      BY <3>1
    <3>3. /\ job'.at = "waiting" /\ job'.tries = job.tries - 1
          /\ job' = [at |-> "waiting", tries |-> job.tries - 1, stalled |-> TRUE]
      BY <2>1, <2>5 DEF Jobs
    <3>4. job' \in Jobs
      BY <3>2, <3>3 DEF Jobs
    <3> QED
      BY <3>2, <3>3, <3>4 DEF JobTried
  <2> QED
    BY <2>2, <2>3, <2>4, <2>5
<1>4. Typed'
  BY <1>1, <1>2, <1>3 DEF Typed
<1>5. Placed'
  BY <1>1, RestIs DEF Placed, Tasks
<1>6. IdsApart' /\ AnswersKnown'
  BY <1>1, RestIs, RestBrings DEF IdsApart, AnswersKnown
<1>7. RowOrMaker'
  BY <1>1, RestBrings DEF RowOrMaker, Of
<1>8. WeatherApart'
  BY <1>1, RestBrings DEF WeatherApart
<1>9. SeenKept'
  BY <1>1, <1>2 DEF SeenKept, Of
<1>10. DaysAgree'
  BY <1>1, RestIs, RestBrings DEF DaysAgree, Plain
<1> QED
  BY <1>3, <1>4, <1>5, <1>6, <1>7, <1>8, <1>9, <1>10

-----------------------------------------------------------------------------
(* Tasks that begin.                                                       *)

\* A new task shares the sources it asks for with whoever asks them or made
\* their row.
LEMMA MakersBegin ==
  ASSUME Typed, Placed, RowOrMaker, NEW t \in Tasks, NEW n,
         task' = [task EXCEPT ![t] = n], rows' = rows, twice \subseteq twice',
         \A s \in Sources \ twice' :
           Makes(n, s) => /\ Of(s) = {}
                          /\ \A u \in Tasks \ {t} : ~Makes(task[u], s)
  PROVE  RowOrMaker'
<1>1. task'[t] = n /\ \A u \in Tasks \ {t} : task'[u] = task[u]
  BY OneTask
<1> SUFFICES ASSUME NEW s \in Sources \ twice'
             PROVE  /\ \A q, p \in Of(s) : q = p
                    /\ \A u \in Tasks : Makes(task'[u], s) => Of(s) = {}
                    /\ \A u, v \in Tasks :
                         Makes(task'[u], s) /\ Makes(task'[v], s) => u = v
  BY DEF RowOrMaker, Of
<1>2. /\ \A q, p \in Of(s) : q = p
      /\ \A u \in Tasks : Makes(task[u], s) => Of(s) = {}
      /\ \A u, v \in Tasks : Makes(task[u], s) /\ Makes(task[v], s) => u = v
  BY DEF RowOrMaker
<1> QED
  BY <1>1, <1>2

\* Who makes a row of a source asks for it.
LEMMA MakersAsk ==
  ASSUME Typed, Placed, NEW t \in Tasks, NEW s, Makes(task[t], s)
  PROVE  t \in Asking(s)
<1>1. /\ task[t].op # "rest" /\ task[t] \in TaskRecs
      /\ task[t].left \in Seq(Sources) /\ task[t].left # <<>>
  BY DEF Makes, Placed, Sound, Typed, TaskRecs
<1>2. Head(task[t].left) = task[t].left[1] /\ 1 \in DOMAIN task[t].left
  BY <1>1, HeadTailProperties
<1>3. \E i \in DOMAIN task[t].left : task[t].left[i] = s
  BY <1>2 DEF Makes
<1> QED
  BY <1>1, <1>3 DEF Asking

\* Every task begins by asking.
LEMMA AskFirst ==
  ASSUME NEW op
  PROVE  <<"ask">> \in TodosOf(op) /\ <<"ask">> \in Seq(Calls) /\ Head(<<"ask">>) = "ask"
<1>1. TodosOf(op) \in {RefreshTodos, CreateTodos, CollectTodos}
  BY Zenon DEF TodosOf
<1>2. /\ <<"ask">> \in RefreshTodos /\ <<"ask">> \in CreateTodos
      /\ <<"ask">> \in CollectTodos
  BY Zenon DEF RefreshTodos, CreateTodos, CollectTodos
<1> QED
  BY <1>1, <1>2, TodoParts, Zenon

\* The worker takes the job.
LEMMA TakeStep ==
  ASSUME IInv, TakeJob
  PROVE  IInv'
<1> USE DEF IInv
<1> DEFINE n == [Rest EXCEPT !.op = "collect", !.todo = <<"ask">>, !.left = Order,
                             !.day = reported]
<1>1. /\ job.at = "waiting" /\ job' = [job EXCEPT !.at = "running", !.tries = @ + 1]
      /\ task' = [task EXCEPT ![Worker] = n]
      /\ twice' = twice \cup Shared(Sources)
      /\ UNCHANGED <<reported, day, rows, meteo, crossed, seen, lost>>
  BY DEF TakeJob, claim
<1>2. Worker \in Tasks /\ reported \in Int
  BY SourceAssumption, FlightsAssumption DEF Tasks, Typed
<1>3. /\ n.op = "collect" /\ n.todo = <<"ask">> /\ n.left = Order /\ n.day = reported
      /\ n.answer = NoFlight
  BY DEF Rest
<1>4. n \in TaskRecs
  <2> DEFINE a == [Rest EXCEPT !.op = "collect"]
             b == [a EXCEPT !.todo = <<"ask">>]
             c == [b EXCEPT !.left = Order]
             d == [c EXCEPT !.day = reported]
  <2>1. Rest \in TaskRecs /\ <<"ask">> \in Seq(Calls) /\ Order \in Seq(Sources)
    BY RestIs, AskFirst, SourceAssumption
  <2>2. a \in TaskRecs
    BY <2>1 DEF TaskRecs
  <2>3. b \in TaskRecs
    <3> HIDE DEF a
    <3> QED
      BY <1>2, <2>1, <2>2 DEF TaskRecs
  <2>4. c \in TaskRecs
    <3> HIDE DEF a, b
    <3> QED
      BY <1>2, <2>1, <2>3 DEF TaskRecs
  <2>5. d \in TaskRecs
    <3> HIDE DEF a, b, c
    <3> QED
      BY <1>2, <2>1, <2>4 DEF TaskRecs
  <2>6. n = d
    OBVIOUS
  <2> QED
    BY <2>5, <2>6, Zenon
<1>5. n.todo \in TodosOf(n.op)
  BY <1>3, AskFirst, Zenon
<1>6. Head(n.todo) = "ask"
  BY <1>3, AskFirst, Zenon
<1> HIDE DEF n
<1>8. Sound(n) /\ ~Answered(n) /\ ~Calling(n, "add") /\ \A s : ~Replaces(n, s)
  BY <1>3, <1>5, <1>6, SourceAssumption
     DEF Sound, Different, Answered, Calling, Replaces
<1>9. task[Worker].op \in {"rest", "collect"} /\ \A s : ~Replaces(task[Worker], s)
  BY DEF Placed, Replaces
<1>10. job' \in Jobs /\ JobTried'
  <2>1. /\ job \in Jobs /\ job.tries \in 0..Attempts /\ job.tries < Attempts
        /\ Attempts \in Nat
    BY <1>1, LimitAssumption DEF Jobs, JobTried, Typed
  <2>2. job.tries + 1 \in 0..Attempts /\ job.tries + 1 > 0
    BY <2>1
  <2>3. job' = [at |-> "running", tries |-> job.tries + 1, stalled |-> job.stalled]
    BY <1>1, <2>1 DEF Jobs
  <2>4. job.stalled \in BOOLEAN
    BY <2>1 DEF Jobs
  <2> QED
    BY <2>2, <2>3, <2>4 DEF Jobs, JobTried
<1>11. Typed'
  <2>1. twice' \subseteq Sources
    BY <1>1 DEF Shared, Typed
  <2> QED
    BY <1>1, <1>2, <1>4, <1>10, <2>1, OneTask DEF Typed
<1>12. Placed'
  <2>1. task'[Worker] = n /\ \A u \in Tasks \ {Worker} : task'[u] = task[u]
    BY <1>1, <1>2, OneTask
  <2> QED
    BY <1>3, <1>8, <2>1, TaskAssumption DEF Placed, Tasks
<1>13. IdsApart' /\ AnswersKnown'
  BY <1>1, <1>2, <1>3, <1>8, IdsKept, AnswersKept
<1>14. RowOrMaker'
  <2>1. \A s \in Sources \ twice' : Of(s) = {} /\ \A u \in Tasks : ~Makes(task[u], s)
    BY <1>1, MakersAsk DEF Shared
  <2> QED
    BY <1>1, <1>2, <2>1, MakersBegin
<1>15. WeatherApart'
  BY <1>1, <1>2, <1>8, WeatherKept
<1>16. SeenKept'
  BY <1>1, <1>2, <1>9, SeenStays
<1>17. DaysAgree'
  <2>1. Plain(reported) => day' = reported /\ \A q \in rows' : q.flight = reported
    BY <1>1 DEF DaysAgree
  <2> QED
    BY <1>1, <1>2, <1>3, <1>8, <2>1, DaysKept
<1> QED
  BY <1>10, <1>11, <1>12, <1>13, <1>14, <1>15, <1>16, <1>17

\* A request of the back office about a source, of a row that has it.
LEMMA StaffStep ==
  ASSUME IInv, NEW h \in Http, NEW op \in {"refresh", "create"},
         NEW source \in Sources, NEW row \in Nat,
         BeginStaff(h, op, source, row),
         op = "refresh" => \A r \in rows : r.id = row => r.source = source,
         twice \subseteq twice', twice' \subseteq Sources,
         op = "create" => /\ Of(source) = {}
                          /\ source \in twice' \/ Asking(source) = {}
  PROVE  IInv'
<1> USE DEF IInv
<1> DEFINE n == [Rest EXCEPT !.op = op, !.todo = <<"ask">>, !.left = <<source>>,
                             !.day = day, !.row = row]
<1>1. /\ task[h].op = "rest" /\ task' = [task EXCEPT ![h] = n]
      /\ UNCHANGED <<reported, day, rows, meteo, job, crossed, seen, lost>>
  BY DEF BeginStaff, claim
<1>2. h \in Tasks /\ day \in Int
  BY FlightsAssumption DEF Tasks, Typed
<1>3. /\ n.op = op /\ n.todo = <<"ask">> /\ n.left = <<source>> /\ n.day = day
      /\ n.row = row /\ n.answer = NoFlight
  BY DEF Rest
<1>4. <<"ask">> \in Seq(Calls) /\ Head(<<"ask">>) = "ask"
  BY AskFirst
<1>5. /\ <<source>> \in Seq(Sources) /\ Head(<<source>>) = source /\ <<source>> # <<>>
      /\ \A i, j \in DOMAIN <<source>> : i = j
  OBVIOUS
<1>6. n \in TaskRecs
  <2> DEFINE a == [Rest EXCEPT !.op = op]
             b == [a EXCEPT !.todo = <<"ask">>]
             c == [b EXCEPT !.left = <<source>>]
             d == [c EXCEPT !.day = day]
             e == [d EXCEPT !.row = row]
  <2>1. Rest \in TaskRecs /\ <<"ask">> \in Seq(Calls)
    BY RestIs, AskFirst
  <2>2. a \in TaskRecs
    BY <2>1 DEF TaskRecs
  <2>3. b \in TaskRecs
    <3> HIDE DEF a
    <3> QED
      BY <1>2, <1>4, <1>5, <2>1, <2>2 DEF TaskRecs
  <2>4. c \in TaskRecs
    <3> HIDE DEF a, b
    <3> QED
      BY <1>2, <1>4, <1>5, <2>1, <2>3 DEF TaskRecs
  <2>5. d \in TaskRecs
    <3> HIDE DEF a, b, c
    <3> QED
      BY <1>2, <1>4, <1>5, <2>1, <2>4 DEF TaskRecs
  <2>6. e \in TaskRecs
    <3> HIDE DEF a, b, c, d
    <3> QED
      BY <1>2, <1>4, <1>5, <2>1, <2>5 DEF TaskRecs
  <2>7. n = e
    OBVIOUS
  <2> QED
    BY <2>6, <2>7, Zenon
<1>7. Head(n.todo) = "ask" /\ Head(n.left) = source /\ n.left # <<>> /\ Different(n.left)
  BY <1>3, <1>4, <1>5, Zenon DEF Different
<1>8. n.todo \in TodosOf(n.op)
  BY <1>3, AskFirst, Zenon
<1> HIDE DEF n
<1>9. Sound(n) /\ ~Answered(n) /\ ~Calling(n, "add")
  BY <1>3, <1>7, <1>8 DEF Sound, Answered, Calling
<1>10. \A s : Makes(n, s) => op = "create" /\ s = source
  BY <1>3, <1>7 DEF Makes
<1>11. \A s : ~Replaces(task[h], s)
  BY <1>1 DEF Replaces
<1>12. task'[h] = n /\ \A u \in Tasks \ {h} : task'[u] = task[u]
  BY <1>1, <1>2, OneTask
<1>13. Typed' /\ JobTried'
  BY <1>1, <1>2, <1>6, OneTask DEF Typed, JobTried
<1>14. Placed'
  BY <1>3, <1>9, <1>12, TaskAssumption DEF Placed, Tasks
<1>15. IdsApart'
  <2>1. \A p, q \in rows' : p.id = q.id => p = q
    BY <1>1 DEF IdsApart
  <2>2. ASSUME NEW u \in Tasks, NEW q \in rows',
               task'[u].op = "refresh", q.id = task'[u].row
        PROVE  q.source = Head(task'[u].left)
    <3>1. CASE u = h
      BY <1>1, <1>3, <1>7, <1>12, <2>2, <3>1
    <3>2. CASE u # h
      BY <1>1, <1>12, <2>2, <3>2 DEF IdsApart
    <3> QED
      BY <3>1, <3>2
  <2> QED
    BY <2>1, <2>2 DEF IdsApart
<1>16. AnswersKnown'
  BY <1>1, <1>2, <1>9, AnswersKept
<1>17. RowOrMaker'
  <2>1. \A s \in Sources \ twice' : Makes(n, s) =>
          Of(s) = {} /\ \A u \in Tasks \ {h} : ~Makes(task[u], s)
    BY <1>10, MakersAsk
  <2> QED
    BY <1>1, <1>2, <2>1, MakersBegin
<1>18. WeatherApart'
  BY <1>1, <1>2, <1>9, WeatherKept
<1>19. SeenKept'
  BY <1>1, <1>2, <1>11, SeenStays
<1>20. DaysAgree'
  <2>1. Plain(reported) => /\ day' = reported /\ \A q \in rows' : q.flight = reported
                           /\ n.day = reported
    BY <1>1, <1>3 DEF DaysAgree
  <2> QED
    BY <1>1, <1>2, <1>9, <2>1, DaysKept
<1> QED
  BY <1>13, <1>14, <1>15, <1>16, <1>17, <1>18, <1>19, <1>20

\* The back office has a row refreshed.
LEMMA RefreshStep ==
  ASSUME IInv, NEW h \in Http, Refresh(h)
  PROVE  IInv'
<1>1. PICK r \in rows : /\ BeginStaff(h, "refresh", r.source, r.id)
                        /\ UNCHANGED twice
  BY DEF Refresh
<1>2. /\ r.source \in Sources /\ r.id \in Nat /\ twice \subseteq Sources
      /\ \A q \in rows : q.id = r.id => q.source = r.source
  BY DEF IInv, Typed, Rows, IdsApart
<1> QED
  BY <1>1, <1>2, StaffStep

\* The back office asks for a source that has no row.
LEMMA CreateStep ==
  ASSUME IInv, NEW h \in Http, NEW s \in Offered, CreateStatus(h, s)
  PROVE  IInv'
<1>1. /\ Of(s) = {} /\ BeginStaff(h, "create", s, NoRow)
      /\ twice' = twice \cup Shared({s})
  BY DEF CreateStatus
<1>2. s \in Sources /\ twice' \subseteq Sources /\ NoRow \in Nat
  BY <1>1, SourceAssumption DEF IInv, Typed, Shared, NoRow
<1>3. s \in twice' \/ Asking(s) = {}
  BY <1>1 DEF Shared
<1> QED
  BY <1>1, <1>2, <1>3, StaffStep

-----------------------------------------------------------------------------
\* A claim that is created has no rows and its job waits.
LEMMA InitIInv == Init => IInv
<1> SUFFICES ASSUME Init
             PROVE  IInv
  OBVIOUS
<1> USE DEF Init
<1>1. /\ task \in [Tasks -> TaskRecs] /\ \A t \in Tasks : task[t] = Rest
      /\ Worker \in Tasks /\ Http \subseteq Tasks
  BY RestIs DEF Tasks
<1>2. IsFiniteSet(rows) /\ rows \subseteq Rows
  BY FS_EmptySet
<1>3. job \in Jobs /\ JobTried
  BY LimitAssumption DEF Jobs, JobTried
<1>4. Typed
  BY <1>1, <1>2, <1>3, SourceAssumption DEF Typed
<1>5. Placed /\ IdsApart /\ AnswersKnown
  BY <1>1, RestIs, RestBrings DEF Placed, IdsApart, AnswersKnown
<1>6. RowOrMaker /\ WeatherApart /\ SeenKept /\ DaysAgree
  BY <1>1, RestIs, RestBrings DEF RowOrMaker, WeatherApart, SeenKept, DaysAgree, Of
<1> QED
  BY <1>3, <1>4, <1>5, <1>6 DEF IInv

\* Every step of Next, and a stuttering one.
LEMMA NextIInv ==
  ASSUME IInv, [Next]_vars
  PROVE  IInv'
<1>1. CASE TakeJob
  BY <1>1, TakeStep
<1>2. ASSUME NEW h \in Http, Refresh(h)
      PROVE  IInv'
  BY <1>2, RefreshStep
<1>3. ASSUME NEW h \in Http, NEW s \in Offered, CreateStatus(h, s)
      PROVE  IInv'
  BY <1>3, CreateStep
<1>4. ASSUME NEW t \in Tasks, Proceed(t)
      PROVE  IInv'
  BY <1>4, AskStep, ClearStep, AddStep, DeleteStep, DateStep, RowStep DEF Proceed
<1>5. ASSUME NEW t \in Tasks, Throw(t) \/ DeleteThrows(t)
      PROVE  IInv'
  BY <1>5, BreakStep DEF Throw, DeleteThrows
<1>6. CASE Crash
  BY <1>6, CrashStep
<1>7. CASE UNCHANGED vars
  BY <1>7 DEF vars, IInv, Typed, JobTried, Placed, IdsApart, AnswersKnown,
              RowOrMaker, WeatherApart, SeenKept, DaysAgree, Of, Plain
<1> QED
  BY <1>1, <1>2, <1>3, <1>4, <1>5, <1>6, <1>7 DEF Next

\* The invariant holds in every state.
THEOREM Invariance == Spec => []IInv
<1>1. Init => IInv
  BY InitIInv
<1>2. IInv /\ [Next]_vars => IInv'
  BY NextIInv
<1> QED
  BY <1>1, <1>2, PTL DEF Spec

\* The flight data of a claim are well formed: the day is one of the calendar,
\* ids are of one row, and a task in progress has a source and a call left
\* (TypeOK).
THEOREM TypeCorrect == Spec => []TypeOK
<1>1. IInv => TypeOK
  <2> SUFFICES ASSUME IInv
               PROVE  TypeOK
    OBVIOUS
  <2>1. /\ reported \in Reported /\ day \in Days /\ rows \subseteq Rows
        /\ meteo \in Nat /\ job \in Jobs
        /\ twice \subseteq Sources /\ seen \subseteq Sources /\ lost \subseteq Sources
    BY DEF IInv, Typed
  <2>2. ASSUME NEW t \in Tasks, task[t].op # "rest"
        PROVE  task[t].left # <<>> /\ task[t].todo # <<>>
    <3>1. /\ task[t].left # <<>> /\ task[t].todo \in TodosOf(task[t].op)
          /\ task[t].op \in {"refresh", "create", "collect"}
      BY <2>2 DEF IInv, Typed, Placed, Sound, TaskRecs
    <3>2. Onward(task[t].op, task[t].todo)
      BY <3>1, TodosGoOn
    <3> QED
      BY <3>1, <3>2 DEF Onward
  <2>3. \A r, q \in rows : r.id = q.id => r = q
    BY DEF IInv, IdsApart
  <2> QED
    BY <2>1, <2>2, <2>3, Zenon DEF TypeOK, Rows, Jobs
<1> QED
  BY <1>1, Invariance, PTL

\* A finite set whose elements are all equal has at most one.
LEMMA AtMostOne ==
  ASSUME NEW S, IsFiniteSet(S), \A x, y \in S : x = y
  PROVE  Cardinality(S) \in {0, 1}
<1>1. CASE S = {}
  BY <1>1, FS_EmptySet
<1>2. CASE S # {}
  <2>1. PICK x \in S : TRUE
    BY <1>2
  <2>2. S = {x}
    BY <2>1
  <2> QED
    BY <2>2, FS_Singleton
<1> QED
  BY <1>1, <1>2

\* What the sources said is stored once and stays, and there is one state of
\* the weather, however the job, its attempts and the requests of the back
\* office interleave, but for the causes the property names (RowsOfSources).
THEOREM RowsStayOfSources == Spec => []RowsOfSources
<1>1. IInv => RowsOfSources
  <2> SUFFICES ASSUME IInv
               PROVE  RowsOfSources
    OBVIOUS
  <2>1. ASSUME NEW s \in Sources, s \notin twice
        PROVE  ~(Cardinality(Of(s)) > 1)
    <3>1. IsFiniteSet(Of(s))
      BY FS_Subset DEF IInv, Typed, Of
    <3>2. \A r, q \in Of(s) : r = q
      BY <2>1 DEF IInv, RowOrMaker
    <3>3. Cardinality(Of(s)) \in {0, 1}
      BY <3>1, <3>2, AtMostOne
    <3> QED
      BY <3>3
  <2>2. OneRowPerSource
    BY <2>1 DEF OneRowPerSource
  <2>3. SourcesKept
    BY DEF IInv, SeenKept, Replaces, SourcesKept, Source
  <2>4. OneWeather
    BY DEF IInv, WeatherApart, OneWeather
  <2> QED
    BY <2>2, <2>3, <2>4 DEF RowsOfSources
<1> QED
  BY <1>1, Invariance, PTL

-----------------------------------------------------------------------------
(* What is read from an answer.                                            *)

\* The greater of two numbers.
LEMMA MaxIs ==
  ASSUME NEW a \in Int, NEW b \in Int
  PROVE  Max({a, b}) = IF a >= b THEN a ELSE b
<1> DEFINE m == IF a >= b THEN a ELSE b
<1>1. m \in {a, b} /\ \A y \in {a, b} : m >= y
  OBVIOUS
<1>2. \A x \in {a, b} : (\A y \in {a, b} : x >= y) => x = m
  OBVIOUS
<1>3. Max({a, b}) = CHOOSE x \in {a, b} : \A y \in {a, b} : x >= y
  BY Zenon DEF Max
<1> HIDE DEF m
<1>4. Max({a, b}) = m
  BY <1>1, <1>2, <1>3
<1> QED
  BY <1>4 DEF m

\* The time at the gate comes first.
LEMMA GateFirst ==
  ASSUME NEW times \in {s \in Seq(Int \cup {Missing}) : Len(s) > 0}, Known(times[1])
  PROVE  FirstKnown(times) = times[1]
<1>1. 1 \in DOMAIN times /\ DOMAIN times \subseteq Nat \ {0}
  OBVIOUS
<1> DEFINE P(i) == Known(times[i]) /\ \A j \in 1..(i - 1) : ~Known(times[j])
<1>2. P(1)
  OBVIOUS
<1>3. \A i \in DOMAIN times : P(i) => i = 1
  <2> SUFFICES ASSUME NEW i \in DOMAIN times, i # 1, P(i)
               PROVE  FALSE
    OBVIOUS
  <2>1. 1 \in 1..(i - 1)
    BY <1>1
  <2> QED
    BY <2>1
<1>4. (CHOOSE i \in DOMAIN times : P(i)) = 1
  <2> HIDE DEF P
  <2> QED
    BY <1>1, <1>2, <1>3
<1> QED
  BY <1>1, <1>4 DEF FirstKnown

\* The delay of a flight that landed, of whichever source it is read.
LEMMA DelayIs ==
  ASSUME NEW s \in Sources, NEW f \in Answers, f.state = "Landed", Known(f.gate)
  PROVE  \/ Delay(s, f) = f.gate - f.due
         \/ s = "OAG" /\ f.gate = f.due
         \/ s = "FLIGHT_IO" /\ f.gate < f.due /\ Delay(s, f) = 0
         \/ s = "FLIGHT_IO" /\ f.gate \div HoursOfYear # f.due \div HoursOfYear
<1>1. /\ f.gate \in Int /\ f.due \in Nat /\ Missing \notin Int
      /\ {f.gate, f.ground, f.expected} \subseteq Int \cup {Missing}
  BY FlightsAssumption DEF Known
<1>2. /\ FirstKnown(<<f.gate, f.ground, f.expected>>) = f.gate
      /\ FirstKnown(<<f.gate, f.ground>>) = f.gate
  <2>1. /\ <<f.gate, f.ground, f.expected>> \in {x \in Seq(Int \cup {Missing}) : Len(x) > 0}
        /\ <<f.gate, f.ground, f.expected>>[1] = f.gate
    BY <1>1
  <2>2. /\ <<f.gate, f.ground>> \in {x \in Seq(Int \cup {Missing}) : Len(x) > 0}
        /\ <<f.gate, f.ground>>[1] = f.gate
    BY <1>1
  <2>3. FirstKnown(<<f.gate, f.ground, f.expected>>) = f.gate
    BY <2>1, GateFirst
  <2>4. FirstKnown(<<f.gate, f.ground>>) = f.gate
    BY <2>2, GateFirst
  <2> QED
    BY <2>3, <2>4
<1>3. Known(f.due) /\ Known(f.gate) /\ Known(0) /\ Known(f.gate - f.due)
  BY <1>1 DEF Known
<1>4. /\ Between(f.due, f.gate) = f.gate - f.due
      /\ OrZero(Between(f.due, f.gate)) = f.gate - f.due
  BY <1>3 DEF Between, OrZero
<1>5. CASE s = "OAG"
  <2>1. Delay(s, f) = OagDelay(f)
    BY <1>5 DEF Delay
  <2>2. f.gate # f.due => OagDelay(f) = f.gate - f.due
    BY <1>1, <1>2, <1>4 DEF OagDelay
  <2> QED
    BY <1>5, <2>1, <2>2
<1>6. CASE s = "FLIGHT_STATS"
  <2>1. Delay(s, f) = FlightStatsDelay(f)
    BY <1>6 DEF Delay
  <2>2. Max({0, f.gate - f.due}) = IF 0 >= f.gate - f.due THEN 0 ELSE f.gate - f.due
    BY <1>1, MaxIs
  <2>3. FlightStatsDelay(f) = f.gate - f.due
    BY <1>1, <1>2, <1>4, <2>2 DEF FlightStatsDelay
  <2> QED
    BY <2>1, <2>3
<1>7. CASE s = "FLIGHT_IO"
  <2> DEFINE year == f.gate \div HoursOfYear
             due  == InYear(f.due, year)
  <2>1. Delay(s, f) = FlightIoDelay(f)
    BY <1>7 DEF Delay
  <2>2. FlightIoDelay(f) = Max({0, f.gate - due})
    BY <1>2, <1>3 DEF FlightIoDelay
  <2>3. ASSUME year = f.due \div HoursOfYear
        PROVE  due = f.due
    BY <1>1, <2>3 DEF InYear, HoursOfYear
  <2>4. ASSUME due = f.due
        PROVE  Delay(s, f) = IF 0 >= f.gate - f.due THEN 0 ELSE f.gate - f.due
    <3>1. Max({0, f.gate - f.due}) = IF 0 >= f.gate - f.due THEN 0 ELSE f.gate - f.due
      BY <1>1, MaxIs
    <3> QED
      BY <2>1, <2>2, <2>4, <3>1
  <2>5. CASE year = f.due \div HoursOfYear
    <3>1. Delay(s, f) = IF 0 >= f.gate - f.due THEN 0 ELSE f.gate - f.due
      BY <2>3, <2>4, <2>5
    <3> HIDE DEF year, due
    <3>2. \/ f.gate - f.due = 0
          \/ f.gate - f.due > 0
          \/ f.gate < f.due /\ 0 >= f.gate - f.due
      BY <1>1
    <3> QED
      BY <1>1, <1>7, <3>1, <3>2
  <2> QED
    BY <1>7, <2>5
<1>8. CASE s \notin {"OAG", "FLIGHT_STATS", "FLIGHT_IO"}
  BY <1>4, <1>8 DEF Delay
<1> QED
  BY <1>5, <1>6, <1>7, <1>8

\* The flights that are called cancelled.
LEMMA CancelledIs ==
  ASSUME NEW s \in Sources, NEW f \in Answers
  PROVE  /\ f.state = "Canceled" => Cancelled(s, f)
         /\ Cancelled(s, f) => \/ f.state \in {"Canceled", "Diverted"}
                               \/ f.state = "Scheduled" /\ s = "OAG"
  BY FlightsAssumption DEF Cancelled, OagCancelled, States

\* A task in progress asks one of the five sources.
LEMMA AskedIs ==
  ASSUME IInv, NEW t \in Tasks, At(t, "ask")
  PROVE  Source(t) \in Sources
<1>1. task[t].left \in Seq(Sources) /\ task[t].left # <<>>
  BY DEF At, IInv, Typed, Placed, Sound, TaskRecs
<1> QED
  BY <1>1, HeadTailProperties DEF Source

\* Unless it leaves at night, or its date is written like another, the flight of
\* the customer is the one every row and the claim are about, whatever is
\* refreshed and however often; and what is read from an answer is the delay at
\* the gate and the cancellation, but for the cases the property names, for any
\* answer a source may give (AnswersFaithful).
THEOREM AnswersStayFaithful == Spec => []AnswersFaithful
<1>1. IInv => AnswersFaithful
  <2> SUFFICES ASSUME IInv
               PROVE  AnswersFaithful
    OBVIOUS
  <2>1. DayKept
    BY DEF IInv, DaysAgree, DayKept
  <2>2. {Source(t) : t \in {u \in Tasks : At(u, "ask")}} \subseteq Sources
    BY AskedIs
  <2>3. DelaysFaithful
    BY <2>2, DelayIs DEF DelaysFaithful
  <2>4. CancellationsFaithful
    BY <2>2, CancelledIs DEF CancellationsFaithful
  <2> QED
    BY <2>1, <2>3, <2>4 DEF AnswersFaithful
<1> QED
  BY <1>1, Invariance, PTL
=============================================================================
