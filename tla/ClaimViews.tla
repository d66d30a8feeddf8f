----------------------------- MODULE ClaimViews -----------------------------
(***************************************************************************)
(* What the back office sees of the claims while others work on them: the  *)
(* list, read page by page, with a query for every page; the statistics, a *)
(* transaction whose statements each see the latest commits; and the claims*)
(* with news, whose flag one request raises and another takes down.        *)
(*                                                                         *)
(* Times are the numbers of events.  Filters by what never changes (phone, *)
(* flight, airline, partner and so on) are left out.                       *)
(***************************************************************************)
EXTENDS Integers, FiniteSets

CONSTANTS
  Claims,    \* all claims there will be
  Old,       \* those that are there at the start
  Http,      \* requests about news in progress at the same time
  PageSize,  \* claims on a page
  Limit      \* bound on the events, see Spend

Roles == {"ADMIN", "ACCOUNTANT", "AGENT"}
Statuses == {"CLAIM_RECEIVED", "APPROVED", "PAID", "CLOSED"}

VARIABLES
  claim,    \* the claims
  reader,   \* who reads a list, how far they got, and what befell the list
  stats,    \* the statistics as far as they were read
  request,  \* the requests about news in progress
  clashed,  \* history: claims whose news arrived while staff looked at some
  spent     \* events so far

vars == <<claim, reader, stats, request, clashed, spent>>

Nobody == [role |-> "ADMIN", news |-> FALSE, page |-> 0, seen |-> {}, kept |-> {},
           left |-> FALSE]
NoStats == [at |-> "rest", since |-> 0, total |-> 0, paid |-> 0, approved |-> 0,
            active |-> 0, stirred |-> FALSE]
Rest == [op |-> "rest", at |-> "rest", claim |-> CHOOSE c \in Claims : TRUE]
At(h, op, step) == request[h].op = op /\ request[h].at = step
Go(h, step) == request' = [request EXCEPT ![h].at = step]
End(h) == request' = [request EXCEPT ![h] = Rest]
Now == Cardinality(Old) + spent + 1
Spend == spent < Limit /\ spent' = spent + 1

There == {c \in Claims : claim[c].there}

NewRow(exists, time) ==
  [there |-> exists, created |-> time, assigned |-> time, updated |-> time,
   mine |-> FALSE, archived |-> FALSE, flag |-> FALSE, fresh |-> FALSE,
   status |-> "CLAIM_RECEIVED"]

\* The old claims, in any order, are the agent's and have news; the first may be
\* paid.
Init ==
  /\ \E rank \in [Old -> 1..Cardinality(Old)], first \in {"CLAIM_RECEIVED", "PAID"} :
       /\ \A c, d \in Old : rank[c] = rank[d] => c = d
       /\ claim = [c \in Claims |->
            IF c \in Old
            THEN [NewRow(TRUE, rank[c]) EXCEPT
                    !.mine = TRUE, !.flag = TRUE, !.fresh = TRUE,
                    !.status = IF rank[c] = 1 THEN first ELSE @]
            ELSE NewRow(FALSE, 0)]
  /\ reader = Nobody /\ stats = NoStats
  /\ request = [h \in Http |-> Rest]
  /\ clashed = {} /\ spent = 0

-----------------------------------------------------------------------------
(* The list: getUserClaims.                                                *)

\* The claims of the list: an agent's own, those with news where only they are
\* asked for.
ListedOf(claims) ==
  {c \in Claims : /\ claims[c].there /\ ~claims[c].archived
                  /\ reader.role = "AGENT" => claims[c].mine
                  /\ reader.news => claims[c].flag}
Listed == ListedOf(claim)

\* The order is by assignment for all but administrators.
Time(row) == IF reader.role # "ADMIN" THEN row.assigned
             ELSE IF reader.news THEN row.updated ELSE row.created

Place(c) == Cardinality({d \in Listed : Time(claim[d]) >= Time(claim[c])})

\* Variant: pages are counted from nought.
PageFromNought(page) ==
  {c \in Listed : Place(c) > page * PageSize /\ Place(c) <= (page + 1) * PageSize}

\* The latest first.
Page(page) ==
  {c \in Listed : Place(c) > (page - 1) * PageSize /\ Place(c) <= page * PageSize}

BeginList(role, news) ==
  /\ reader.page = 0
  /\ Spend
  /\ reader' = [Nobody EXCEPT !.role = role, !.news = news, !.page = 1]
  /\ UNCHANGED <<claim, stats, request, clashed>>

\* The first page says from when on the reader follows the list.
ReadPage ==
  /\ reader.page > 0
  /\ reader' = [reader EXCEPT !.seen = @ \cup Page(reader.page),
                              !.kept = IF reader.page = 1 THEN Listed ELSE @,
                              !.left = @ /\ reader.page > 1,
                              !.page = IF @ * PageSize >= Cardinality(Listed) THEN -1
                                       ELSE @ + 1]
  /\ UNCHANGED <<claim, stats, request, clashed, spent>>

\* A reader who has come to the end puts the list aside.
CloseList ==
  /\ reader.page = -1
  /\ reader' = Nobody
  /\ UNCHANGED <<claim, stats, request, clashed, spent>>

\* What a change of the claims does to the list that is being read, and to the
\* statistics.
Followed ==
  /\ reader' = IF reader.page < 1 THEN reader
               ELSE [reader EXCEPT
                      !.kept = {c \in @ \cap ListedOf(claim') :
                                  Time(claim'[c]) = Time(claim[c])},
                      !.left = @ \/ ~(Listed \subseteq ListedOf(claim'))]
  /\ stats' = [stats EXCEPT !.stirred = @ \/ stats.at # "rest"]

-----------------------------------------------------------------------------
(* The statistics: getClaimsStats.                                         *)

BeginStats(since) ==
  /\ stats.at = "rest"
  /\ Spend
  /\ stats' = [NoStats EXCEPT !.at = "total", !.since = since]
  /\ UNCHANGED <<claim, reader, request, clashed>>

Count(statuses) ==
  Cardinality({c \in There : /\ claim[c].created > stats.since
                             /\ claim[c].status \in statuses
                             /\ ~claim[c].archived})

ReadStats ==
  /\ stats' = CASE stats.at = "total" ->
                     [stats EXCEPT !.at = "paid", !.total = Count(Statuses)]
                [] stats.at = "paid" ->
                     [stats EXCEPT !.at = "approved", !.paid = Count({"PAID"})]
                [] stats.at = "approved" ->
                     [stats EXCEPT !.at = "active", !.approved = Count({"APPROVED"})]
                [] stats.at = "active" ->
                     [stats EXCEPT !.at = "done",
                                   !.active = Count(Statuses \ {"PAID", "CLOSED"})]
                [] stats.at = "done" -> NoStats
  /\ UNCHANGED <<claim, reader, request, clashed, spent>>

-----------------------------------------------------------------------------
(* News.                                                                   *)

Begin(h, op, step, c) ==
  /\ request[h].op = "rest" /\ c \in There
  /\ Spend
  /\ request' = [request EXCEPT ![h] = [op |-> op, at |-> step, claim |-> c]]
  /\ clashed' = IF \E k \in Http : request[k].claim = c /\ {request[k].op, op} = {"save", "view"}
                THEN clashed \cup {c} ELSE clashed
  /\ UNCHANGED <<claim, reader, stats>>

Of(h) == request[h].claim
Row(h) == claim[Of(h)]

\* A claim that is gone by now ends the request.
Write(h, row, step) ==
  /\ IF Of(h) \in There
     THEN /\ claim' = [claim EXCEPT ![Of(h)] = row]
          /\ IF step = "rest" THEN End(h) ELSE Go(h, step)
     ELSE End(h) /\ UNCHANGED claim
  /\ Followed
  /\ UNCHANGED <<clashed, spent>>

\* saveRecentUpdate: the flag, the time, then the row itself.
SaveRaises(h) ==
  /\ At(h, "save", "flag")
  /\ Write(h, [Row(h) EXCEPT !.flag = TRUE], "time")

SaveStamps(h) ==
  /\ At(h, "save", "time")
  /\ Write(h, [Row(h) EXCEPT !.updated = Now], "row")

SaveAdds(h) ==
  /\ At(h, "save", "row")
  /\ Write(h, [Row(h) EXCEPT !.fresh = TRUE], "rest")

\* patchHasRecentUpdates: the rows are viewed, then the flag goes down.
ViewMarks(h) ==
  /\ At(h, "view", "rows")
  /\ Write(h, [Row(h) EXCEPT !.fresh = FALSE], "flag")

ViewLowers(h) ==
  /\ At(h, "view", "flag")
  /\ Write(h, [Row(h) EXCEPT !.flag = FALSE], "rest")

\* A call throws: a request that has raised the flag leaves it.
Throw(h) ==
  /\ request[h].op # "rest"
  /\ Spend
  /\ End(h)
  /\ UNCHANGED <<claim, reader, stats, clashed>>

-----------------------------------------------------------------------------
(* Other work on a claim.                                                  *)

Change(c, row) ==
  /\ c \in There
  /\ Spend
  /\ claim' = [claim EXCEPT ![c] = row]
  /\ Followed
  /\ UNCHANGED <<request, clashed>>

CreateClaim(c) ==
  /\ c \notin There /\ claim[c].created = 0
  /\ Spend
  /\ claim' = [claim EXCEPT ![c] = NewRow(TRUE, Now)]
  /\ Followed
  /\ UNCHANGED <<request, clashed>>

AddAgent(c) == Change(c, [claim[c] EXCEPT !.assigned = Now, !.mine = TRUE])

DeleteAgent(c) == Change(c, [claim[c] EXCEPT !.assigned = Now, !.mine = FALSE])
ArchiveClaim(c) == Change(c, [claim[c] EXCEPT !.archived = ~@])
UpdateStatus(c, status) == Change(c, [claim[c] EXCEPT !.status = status])

DeleteClaim(c) == Change(c, [claim[c] EXCEPT !.there = FALSE])

-----------------------------------------------------------------------------
Next ==
  \/ \E role \in Roles, news \in BOOLEAN : BeginList(role, news)
  \/ ReadPage \/ CloseList
  \/ \E since \in {0, 1} : BeginStats(since)
  \/ stats.at # "rest" /\ ReadStats
  \/ \E h \in Http :
       \/ \E c \in Claims : Begin(h, "save", "flag", c) \/ Begin(h, "view", "rows", c)
       \/ SaveRaises(h) \/ SaveStamps(h) \/ SaveAdds(h)
       \/ ViewMarks(h) \/ ViewLowers(h) \/ Throw(h)
  \/ \E c \in Claims :
       \/ CreateClaim(c) \/ AddAgent(c) \/ DeleteAgent(c) \/ ArchiveClaim(c)
       \/ DeleteClaim(c)
       \/ \E status \in Statuses \ {claim[c].status} : UpdateStatus(c, status)

Spec == Init /\ [][Next]_vars

-----------------------------------------------------------------------------
(* Properties.                                                             *)

\* Every variable has the shape the code gives it; every claim has a time to be
\* put in order by.
TypeOK ==
  /\ \A c \in Claims : /\ claim[c].status \in Statuses
                       /\ claim[c].created <= claim[c].assigned
                       /\ claim[c].created <= claim[c].updated
  /\ reader.role \in Roles
  /\ clashed \subseteq Claims

\* Whoever reads a list to its end has seen every claim that stayed in its
\* place in it, unless one left the list meanwhile; new claims and those that
\* move to the front make nobody miss another.
NothingSkipped ==
  reader.page = -1 => reader.left \/ reader.kept \subseteq reader.seen

\* The numbers of the statistics agree, unless claims changed while they were
\* read.
StatsAgree ==
  stats.at = "done" => \/ stats.stirred
                       \/ /\ stats.paid + stats.active <= stats.total
                          /\ stats.approved <= stats.active

\* A claim with news nobody has seen is among those with news, unless staff
\* looked at it while news arrived.
NewsShown ==
  \A c \in There \ clashed : claim[c].fresh => claim[c].flag

\* What staff see fits the claims there are, in each of these ways.
ViewsConsistent == NothingSkipped /\ StatsAgree /\ NewsShown
=============================================================================
