--------------------------- MODULE PassengerLinks ---------------------------
(***************************************************************************)
(* The links a passenger signs or sends documents with: made by staff or   *)
(* by the customer, shortened, opened, and good for one use.  A link holds *)
(* a token that is revoked before anything else is done with it, so every  *)
(* later refusal leaves a link that is spent for nothing.                  *)
(*                                                                         *)
(* A link for a passport is like one for other documents and is not told   *)
(* apart.  Links are named by the order they were made in; every await     *)
(* that matters is a step.                                                 *)
(***************************************************************************)
EXTENDS Integers, Sequences, FiniteSets

CONSTANTS
  Customer,  \* the passenger who made the claim
  Others,    \* the other passengers, who may be minors
  Http,      \* requests in progress at the same time
  Limit      \* bound on the events, see Spend

Passengers == Others \cup {Customer}
Kinds == {"ASSIGNMENT", "DOCUMENT"}

VARIABLES
  person,   \* what the links depend on, of each passenger
  copied,   \* the record of the links copied for a passenger, by kind
  links,    \* the links, in the order they were made
  request,  \* the requests in progress
  seen,     \* history: links that were found valid and noted as opened
  used,     \* history, by link: signatures and uploads it led to
  met,      \* history: links two requests held at the same time
  refused,  \* history: links whose signature was refused, and what was missing
  broken,   \* history: links with a request that came to grief
  spent     \* events so far

vars == <<person, copied, links, request, seen, used, met, refused, broken, spent>>
history == <<seen, used, met, refused, broken>>

Rest == [op |-> "rest", at |-> "rest", of |-> Customer, kind |-> "ASSIGNMENT",
         link |-> 0, minor |-> FALSE, requires |-> FALSE]
At(h, op, step) == request[h].op = op /\ request[h].at = step
Go(h, step) == request' = [request EXCEPT ![h].at = step]
End(h) == request' = [request EXCEPT ![h] = Rest]
Link(h) == request[h].link
Of(h) == links[Link(h)].of

Spend == spent < Limit /\ spent' = spent + 1

\* createOtherPassengers: as the form has it, for what the handler finds out
\* about the age is dropped.
Created(p) ==
  {q \in [minor : BOOLEAN, birthday : BOOLEAN, parents : {FALSE}, asked : {TRUE},
          signed : {FALSE}] : p = Customer => q.birthday /\ ~q.minor}

Init ==
  /\ person \in [Passengers -> UNION {Created(p) : p \in Passengers}]
  /\ \A p \in Passengers : person[p] \in Created(p)
  /\ copied = [p \in Passengers |-> [k \in Kinds |-> [made |-> FALSE, opened |-> FALSE]]]
  /\ links = <<>>
  /\ request = [h \in Http |-> Rest]
  /\ seen = {} /\ used = <<>>
  /\ met = {} /\ refused = {} /\ broken = {} /\ spent = 0

Begin(h, op, step, l) ==
  /\ request[h].op = "rest"
  /\ Spend
  /\ request' = [request EXCEPT ![h] = [Rest EXCEPT !.op = op, !.at = step, !.link = l]]
  /\ met' = IF \E k \in Http : request[k].op # "rest" /\ Link(k) = l
            THEN met \cup {l} ELSE met
  /\ UNCHANGED <<person, copied, links, seen, used, refused, broken>>

-----------------------------------------------------------------------------
(* Copying a link.                                                         *)

BeginCopy(h, p, kind) ==
  /\ request[h].op = "rest"
  /\ Spend
  /\ request' = [request EXCEPT ![h] =
       [Rest EXCEPT !.op = "copy", !.at = "read", !.of = p, !.kind = kind]]
  /\ UNCHANGED <<person, copied, links, history>>

\* requireParentInfo: the page is to ask for the parents of a minor.
RequireParentInfo(p) == person[p].minor /\ ~person[p].parents

\* Variant: every link that is copied is recorded.
CopyReadsAll(h) ==
  /\ At(h, "copy", "read")
  /\ request' = [request EXCEPT ![h].at = "upsert",
                   ![h].minor = person[request[h].of].minor,
                   ![h].requires = RequireParentInfo(request[h].of)]
  /\ UNCHANGED <<person, copied, links, history, spent>>

\* The customer's links are not recorded.
CopyReads(h) ==
  /\ At(h, "copy", "read")
  /\ request' = [request EXCEPT ![h].at = IF request[h].of = Customer THEN "link"
                                                                      ELSE "upsert",
                   ![h].minor = person[request[h].of].minor,
                   ![h].requires = RequireParentInfo(request[h].of)]
  /\ UNCHANGED <<person, copied, links, history, spent>>

Record(h, row) ==
  /\ At(h, "copy", "upsert")
  /\ copied' = [copied EXCEPT ![request[h].of][request[h].kind] = row]
  /\ Go(h, "link")
  /\ UNCHANGED <<person, links, history, spent>>

\* Variant: a record that is there is updated, none is made.
UpdatesRecord(h) ==
  Record(h, copied[request[h].of][request[h].kind])

\* createIfNotExist
CopyRecords(h) ==
  Record(h, [copied[request[h].of][request[h].kind] EXCEPT !.made = TRUE])

\* The answer does not wait for redis to keep the short link.
CopyAnswers(h) ==
  /\ At(h, "copy", "link")
  /\ links' = Append(links, [of |-> request[h].of, kind |-> request[h].kind,
                             minor |-> request[h].minor, requires |-> request[h].requires,
                             short |-> "sending", token |-> "good", resolved |-> FALSE])
  /\ used' = Append(used, 0)
  /\ End(h)
  /\ UNCHANGED <<person, copied, seen, met, refused, broken, spent>>

KeepShort(l) ==
  /\ links[l].short = "sending"
  /\ links' = [links EXCEPT ![l].short = "kept"]
  /\ UNCHANGED <<person, copied, request, history, spent>>

-----------------------------------------------------------------------------
(* Opening it: getShortenLink.                                             *)

\* The original link is in the answer, be it valid or not.
OpenGets(h) ==
  /\ At(h, "open", "get")
  /\ IF links[Link(h)].short = "kept"
     THEN Go(h, "verify") /\ links' = [links EXCEPT ![Link(h)].resolved = TRUE]
     ELSE End(h) /\ UNCHANGED links
  /\ UNCHANGED <<person, copied, history, spent>>

OpenVerifies(h) ==
  /\ At(h, "open", "verify")
  /\ IF links[Link(h)].token = "good" /\ Of(h) # Customer THEN Go(h, "mark") ELSE End(h)
  /\ UNCHANGED <<person, copied, links, history, spent>>

\* markAsOpened, of whatever record there is.
OpenMarks(h) ==
  /\ At(h, "open", "mark")
  /\ copied' = [copied EXCEPT ![Of(h)][links[Link(h)].kind].opened =
                  copied[Of(h)][links[Link(h)].kind].made]
  /\ seen' = seen \cup {Link(h)}
  /\ End(h)
  /\ UNCHANGED <<person, links, used, met, refused, broken, spent>>

-----------------------------------------------------------------------------
(* Using it.                                                               *)

Verifies(h) ==
  /\ request[h].op \in {"sign", "upload"} /\ request[h].at = "verify"
  /\ IF links[Link(h)].token = "good" THEN Go(h, "revoke") ELSE End(h)
  /\ UNCHANGED <<person, copied, links, history, spent>>

Revokes(h) ==
  /\ request[h].at = "revoke"
  /\ links' = [links EXCEPT ![Link(h)].token =
                 IF @ = "expired" THEN @ ELSE "revoked"]
  /\ Go(h, IF request[h].op = "upload" THEN "save" ELSE "passenger")
  /\ UNCHANGED <<person, copied, history, spent>>

Uses(h) == used' = [used EXCEPT ![Link(h)] = @ + 1]

UploadSaves(h) ==
  /\ At(h, "upload", "save")
  /\ Uses(h)
  /\ End(h)
  /\ UNCHANGED <<person, copied, links, seen, met, refused, broken, spent>>

\* The page gives the names of parents when the link told it to ask for them.
SignReads(h) ==
  /\ At(h, "sign", "passenger")
  /\ IF RequireParentInfo(Of(h)) /\ ~links[Link(h)].requires
     THEN End(h) /\ refused' = refused \cup {<<Link(h), "parents">>}
     ELSE /\ request' = [request EXCEPT ![h].minor = person[Of(h)].minor,
               ![h].at = IF RequireParentInfo(Of(h)) THEN "parents"
                         ELSE IF Of(h) = Customer THEN "enqueue" ELSE "close"]
          /\ UNCHANGED refused
  /\ UNCHANGED <<person, copied, links, seen, used, met, broken, spent>>

SignSavesParents(h) ==
  /\ At(h, "sign", "parents")
  /\ person' = [person EXCEPT ![Of(h)].parents = TRUE]
  /\ request' = [request EXCEPT ![h].at = "close", ![h].minor = person[Of(h)].minor]
  /\ UNCHANGED <<copied, links, history, spent>>

\* The customer's request is closed behind the signature, others before it.
SignCloses(h) ==
  /\ At(h, "sign", "close")
  /\ person' = [person EXCEPT ![Of(h)].asked = FALSE]
  /\ Go(h, IF Of(h) = Customer THEN "mark" ELSE "enqueue")
  /\ UNCHANGED <<copied, links, history, spent>>

\* What saveSignature of a minor still finds missing.
Missing(h) ==
  {what \in {"birthday", "parents"} : request[h].minor /\ ~person[Of(h)][what]}

SignEnqueues(h) ==
  /\ At(h, "sign", "enqueue")
  /\ IF Missing(h) # {}
     THEN End(h) /\ refused' = refused \cup ({Link(h)} \X Missing(h)) /\ UNCHANGED used
     ELSE /\ Uses(h)
          /\ Go(h, IF Of(h) = Customer THEN "close" ELSE "mark")
          /\ UNCHANGED refused
  /\ UNCHANGED <<person, copied, links, seen, met, broken, spent>>

SignMarks(h) ==
  /\ At(h, "sign", "mark")
  /\ person' = [person EXCEPT ![Of(h)].signed = TRUE]
  /\ End(h)
  /\ UNCHANGED <<copied, links, history, spent>>

-----------------------------------------------------------------------------
(* Staff, time and trouble.                                                *)

MakeMinor(p) ==
  /\ ~person[p].minor
  /\ Spend
  /\ person' = [person EXCEPT ![p].minor = TRUE]
  /\ UNCHANGED <<copied, links, request, history>>

\* Token and short link last for the same thirty days.
Expire(l) ==
  /\ links[l].token # "expired"
  /\ Spend
  /\ links' = [links EXCEPT ![l].token = "expired", ![l].short = "gone"]
  /\ UNCHANGED <<person, copied, request, history>>

Stop ==
  /\ request' = [h \in Http |-> Rest]
  /\ broken' = broken \cup {Link(h) : h \in Http}
  /\ links' = [l \in DOMAIN links |-> IF links[l].short = "sending"
                                      THEN [links[l] EXCEPT !.short = "gone"]
                                      ELSE links[l]]

Throw(h) ==
  /\ request[h].op # "rest"
  /\ Spend
  /\ End(h)
  /\ broken' = broken \cup {Link(h)}
  /\ UNCHANGED <<person, copied, links, seen, used, met, refused>>

\* Also a short link redis refuses: nobody handles that error.
Restart == Spend /\ Stop /\ UNCHANGED <<person, copied, seen, used, met, refused>>

-----------------------------------------------------------------------------
Proceed(h) ==
  \/ CopyReads(h) \/ CopyRecords(h) \/ CopyAnswers(h)
  \/ OpenGets(h) \/ OpenVerifies(h) \/ OpenMarks(h)
  \/ Verifies(h) \/ Revokes(h) \/ UploadSaves(h)
  \/ SignReads(h) \/ SignSavesParents(h) \/ SignCloses(h) \/ SignEnqueues(h)
  \/ SignMarks(h)

Use(h, l) ==
  \/ Begin(h, "open", "get", l)
  \/ /\ links[l].resolved
     /\ Begin(h, IF links[l].kind = "DOCUMENT" THEN "upload" ELSE "sign", "verify", l)

Next ==
  \/ \E h \in Http : \/ Proceed(h) \/ Throw(h)
                     \/ \E p \in Passengers, kind \in Kinds : BeginCopy(h, p, kind)
                     \/ \E l \in DOMAIN links : Use(h, l)
  \/ \E l \in DOMAIN links : KeepShort(l) \/ Expire(l)
  \/ \E p \in Others : MakeMinor(p)
  \/ Restart

Spec == Init /\ [][Next]_vars

-----------------------------------------------------------------------------
(* Properties.                                                             *)

Busy(l) == \E h \in Http : request[h].op # "rest" /\ Link(h) = l

\* Every variable has the shape the code gives it; a link is noted as opened
\* where it is recorded, and the customer's never is.
TypeOK ==
  /\ \A p \in Passengers, k \in Kinds : copied[p][k].opened => copied[p][k].made
  /\ \A k \in Kinds : ~copied[Customer][k].made
  /\ ~person[Customer].minor
  /\ \A l \in DOMAIN links : /\ links[l].of \in Passengers /\ links[l].kind \in Kinds
                             /\ links[l].short \in {"sending", "kept", "gone"}
                             /\ links[l].token \in {"good", "revoked", "expired"}

\* A link leads to one signature or upload, unless two requests held it.
LinkUsedOnce == \A l \in DOMAIN links : used[l] > 1 => l \in met

\* A link that is spent led to a signature or an upload, or is about to,
\* unless the passenger became a minor after it was made or is a minor of
\* unknown birthday, or there was an error.
SpentLinkUsed ==
  \A l \in DOMAIN links :
    links[l].token = "revoked" =>
      \/ used[l] > 0 \/ Busy(l) \/ l \in broken
      \/ <<l, "parents">> \in refused /\ ~links[l].minor
      \/ <<l, "birthday">> \in refused

\* What staff asked a passenger to sign is off their list once it is signed or
\* on the way, unless it was refused for the birthday or there was an error.
ClosedIsSigned ==
  \A p \in Passengers :
    \/ person[p].asked
    \/ \E l \in DOMAIN links :
         links[l].of = p /\ (used[l] > 0 \/ Busy(l) \/ l \in broken
                             \/ <<l, "birthday">> \in refused)

\* A passenger whose link was found valid is known to have opened one of the
\* kind, however often links are copied.
OpenedStaysOpened ==
  \A l \in seen : copied[links[l].of][links[l].kind].opened

\* What became of the links fits what they led to, in each of these ways.
LinksConsistent ==
  /\ LinkUsedOnce
  /\ SpentLinkUsed
  /\ ClosedIsSigned
  /\ OpenedStaysOpened
=============================================================================
