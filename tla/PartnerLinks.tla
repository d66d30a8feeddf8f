----------------------------- MODULE PartnerLinks -----------------------------
(***************************************************************************)
(* Partners, their referral links and what is counted for them: who became *)
(* a partner, the links they made, the visits counted for a link, the      *)
(* claims credited to a partner, and the statistics that add it up.        *)
(* Commissions and payouts are ReferralCommission's.                       *)
(*                                                                         *)
(* A partner is named by its user and never removed; a link is named by    *)
(* the request that made it.  Every await that matters is a step.          *)
(***************************************************************************)
EXTENDS Integers, FiniteSets

CONSTANTS
  Users,    \* who may become a partner
  Codes,    \* referral codes
  Sources,  \* sources of a code, one link each
  Claims,   \* claims that may come
  Http,     \* requests in progress at the same time
  Limit     \* bound on the events, see Spend

None == "none"
NotMade == [by |-> None, referrer |-> None, made |-> FALSE]
NoLink == [id |-> 0, clicks |-> 0, of |-> None]

VARIABLES
  role,     \* the users with a role of partners: PARTNER or AFFILIATE
  code,     \* by user: the code of the partner the user is, or None
  link,     \* by code and source: the link there is
  claim,    \* the claims and who is credited
  request,  \* the requests in progress
  visits,   \* history: visits that began while a link was there, by link
  early,    \* history: claims that came while nobody had the code
  broken,   \* history: partners, visits and answers with trouble, and the users
            \* who have the role from an administrator's edit
  short,    \* history: a partner's total fell short of the sum of the days
  spent     \* events so far

vars == <<role, code, link, claim, request, visits, early, broken, short, spent>>
history == <<visits, early, broken, short>>
stored == <<role, code, link, claim>>

Links == Codes \X Sources
Rest == [op |-> "rest", at |-> "rest", user |-> None, code |-> None, source |-> None,
         claim |-> None, id |-> 0, sum |-> 0]
At(h, op, step) == request[h].op = op /\ request[h].at = step
Place(h) == <<request[h].code, request[h].source>>
Go(h, step) == request' = [request EXCEPT ![h].at = step]
End(h) == request' = [request EXCEPT ![h] = Rest]
Only == UNCHANGED <<stored, history, spent>>

Spend == spent < Limit /\ spent' = spent + 1

Init ==
  /\ role = {} /\ code = [u \in Users |-> None]
  /\ link = [l \in Links |-> NoLink]
  /\ claim = [c \in Claims |-> NotMade]
  /\ request = [h \in Http |-> Rest]
  /\ visits = [id \in 1..Limit |-> 0]
  /\ early = {} /\ broken = {} /\ short = FALSE /\ spent = 0

\* getPartnerByReferralCode: codes are unique.
PartnersOf(c) == {u \in Users : code[u] = c}

Begin(h, step, r) ==
  /\ request[h] = Rest
  /\ Spend
  /\ request' = [request EXCEPT ![h] = [r EXCEPT !.at = step]]
  /\ UNCHANGED stored

Fail(h, what) == End(h) /\ broken' = broken \cup {what}

-----------------------------------------------------------------------------
(* Becoming a partner: the role comes first.                               *)

BeginPartner(h, u, c) ==
  /\ Begin(h, "role", [Rest EXCEPT !.op = "partner", !.user = u, !.code = c])
  /\ UNCHANGED history

\* The role is the one of the request, PARTNER unless it names another.
UpdateRole(h) ==
  /\ At(h, "partner", "role")
  /\ \E given \in BOOLEAN :
       role' = IF given THEN role \cup {request[h].user} ELSE role \ {request[h].user}
  /\ Go(h, "look")
  /\ UNCHANGED <<code, link, claim, history, spent>>

LookForPartner(h) ==
  /\ At(h, "partner", "look")
  /\ IF code[request[h].user] # None THEN End(h) ELSE Go(h, "create")
  /\ Only

\* Settings, payment and partner in one transaction; user and code are unique.
CreatePartner(h) ==
  /\ At(h, "partner", "create")
  /\ IF code[request[h].user] # None \/ PartnersOf(request[h].code) # {}
     THEN Fail(h, <<"partner", request[h].user>>) /\ UNCHANGED code
     ELSE /\ code' = [code EXCEPT ![request[h].user] = request[h].code]
          /\ End(h) /\ UNCHANGED broken
  /\ UNCHANGED <<role, link, claim, visits, early, short, spent>>

\* UserController: an administrator makes a user with a role or gives one to a
\* user there is, whether or not there is a partner; or takes it away.
EditRole(u) ==
  /\ Spend
  /\ IF u \in role THEN role' = role \ {u} /\ broken' = broken \ {<<"role", u>>}
                    ELSE role' = role \cup {u} /\ broken' = broken \cup {<<"role", u>>}
  /\ UNCHANGED <<code, link, claim, request, visits, early, short>>

-----------------------------------------------------------------------------
(* Links.                                                                  *)

\* An administrator names the code; a partner's own is looked up.
BeginLink(h, c, s) ==
  /\ Begin(h, "look", [Rest EXCEPT !.op = "link", !.code = c, !.source = s,
                                   !.id = spent + 1])
  /\ UNCHANGED history

LookForLink(h) ==
  /\ At(h, "link", "look")
  /\ IF PartnersOf(request[h].code) = {} \/ link[Place(h)] # NoLink
     THEN End(h) ELSE Go(h, "create")
  /\ Only

\* createReferralLinks: code and source are unique.
CreateLink(h) ==
  /\ At(h, "link", "create")
  /\ IF link[Place(h)] # NoLink
     THEN UNCHANGED link
     ELSE link' = [link EXCEPT ![Place(h)] =
            [id |-> request[h].id, clicks |-> 0,
             of |-> CHOOSE u \in PartnersOf(request[h].code) : TRUE]]
  /\ End(h)
  /\ UNCHANGED <<role, code, claim, history, spent>>

BeginDelete(h, l) ==
  /\ link[l] # NoLink
  /\ Begin(h, "delete", [Rest EXCEPT !.op = "delete", !.code = l[1], !.source = l[2],
                                     !.id = link[l].id])
  /\ UNCHANGED history

\* The link that was found, with its clicks.
DeleteLink(h) ==
  /\ At(h, "delete", "delete")
  /\ link' = [link EXCEPT ![Place(h)] = IF @.id = request[h].id THEN NoLink ELSE @]
  /\ broken' = broken \cup {<<"answer", k>> : k \in {k \in Http : request[k].op = "stats"}}
  /\ End(h)
  /\ UNCHANGED <<role, code, claim, visits, early, short, spent>>

-----------------------------------------------------------------------------
(* Visits.                                                                 *)

BeginClick(h, l) ==
  /\ Begin(h, "find", [Rest EXCEPT !.op = "click", !.code = l[1], !.source = l[2]])
  /\ visits' = [id \in 1..Limit |-> visits[id] + IF id = link[l].id THEN 1 ELSE 0]
  /\ UNCHANGED <<early, broken, short>>

FindLink(h) ==
  /\ At(h, "click", "find")
  /\ IF link[Place(h)] = NoLink THEN End(h)
     ELSE request' = [request EXCEPT ![h].at = "count", ![h].id = link[Place(h)].id]
  /\ Only

\* saveReferralClick counts for the link it found; that it is gone is an error
\* that is written to the log.
CountClick(h) ==
  /\ At(h, "click", "count")
  /\ link' = [link EXCEPT ![Place(h)].clicks =
                IF link[Place(h)].id = request[h].id THEN @ + 1 ELSE @]
  /\ End(h)
  /\ UNCHANGED <<role, code, claim, history, spent>>

-----------------------------------------------------------------------------
(* Claims: credited as they come, and by the back office.                  *)

BeginClaim(h, c, referrer) ==
  /\ ~claim[c].made /\ \A k \in Http : request[k].claim # c
  /\ Begin(h, "partner", [Rest EXCEPT !.op = "claim", !.claim = c, !.code = referrer])
  /\ early' = IF PartnersOf(referrer) = {} THEN early \cup {c} ELSE early
  /\ UNCHANGED <<visits, broken, short>>

BeginAssign(h, c, referrer) ==
  /\ Begin(h, "partner", [Rest EXCEPT !.op = "assign", !.claim = c, !.code = referrer])
  /\ UNCHANGED history

\* A claim keeps the referrer nobody is known for; the back office is refused.
LookUpReferrer(h) ==
  /\ request[h].op \in {"claim", "assign"} /\ request[h].at = "partner"
  /\ LET found == PartnersOf(request[h].code) IN
     IF found = {} /\ request[h].op = "assign" THEN End(h)
     ELSE request' = [request EXCEPT ![h].at = "save",
            ![h].user = IF found = {} THEN None ELSE CHOOSE u \in found : TRUE]
  /\ Only

SaveReferrer(h) ==
  /\ request[h].op \in {"claim", "assign"} /\ request[h].at = "save"
  /\ claim' = [claim EXCEPT ![request[h].claim] =
       IF request[h].op = "claim" \/ @.made
       THEN [by |-> request[h].user, referrer |-> request[h].code, made |-> TRUE] ELSE @]
  /\ End(h)
  /\ UNCHANGED <<role, code, link, history, spent>>

\* deleteFromPartnerBulk
Unassign(c) ==
  /\ claim[c].made /\ claim[c].referrer # None
  /\ Spend
  /\ claim' = [claim EXCEPT ![c].by = None, ![c].referrer = None]
  /\ UNCHANGED <<role, code, link, request, history>>

-----------------------------------------------------------------------------
(* Statistics: a transaction whose statements see what is committed        *)
(* meanwhile.  Visits are within the days that are shown.                  *)

\* The clicks of the links at some places, one by one.
Clicks(places) ==
  Cardinality({c \in Links \X (1..Limit) : c[1] \in places /\ c[2] <= link[c[1]].clicks})

\* Of a partner, or of the code and the source an administrator selected.
BeginStats(h, u, c, s) ==
  /\ u # None => code[u] # None
  /\ Begin(h, "days", [Rest EXCEPT !.op = "stats", !.user = u, !.code = c, !.source = s])
  /\ broken' = broken \ {<<"answer", h>>}
  /\ UNCHANGED <<visits, early, short>>

\* The days of a selection are those of the source, whoever's.
SumDays(h) ==
  /\ At(h, "stats", "days")
  /\ request' = [request EXCEPT ![h].at = "total", ![h].sum = Clicks(
       {l \in Links : /\ request[h].user # None => link[l].of = request[h].user
                      /\ request[h].source # None => l[2] = request[h].source})]
  /\ Only

SumTotal(h) ==
  /\ At(h, "stats", "total")
  /\ short' = (short \/
       /\ <<"answer", h>> \notin broken /\ request[h].code = None
       /\ request[h].sum > Clicks(
            {l \in Links : /\ request[h].user # None => link[l].of = request[h].user
                           /\ request[h].code # None => l = Place(h)}))
  /\ End(h)
  /\ UNCHANGED <<stored, visits, early, broken, spent>>

-----------------------------------------------------------------------------
\* A call throws, or the process ends for one of its requests.
Throw(h) ==
  /\ request[h] # Rest
  /\ Spend
  /\ Fail(h, IF request[h].op = "click" THEN <<"visit", Place(h)>>
                                        ELSE <<"partner", request[h].user>>)
  /\ UNCHANGED <<stored, visits, early, short>>

Proceed(h) ==
  \/ UpdateRole(h) \/ LookForPartner(h) \/ CreatePartner(h)
  \/ LookForLink(h) \/ CreateLink(h) \/ DeleteLink(h)
  \/ FindLink(h) \/ CountClick(h)
  \/ LookUpReferrer(h) \/ SaveReferrer(h)
  \/ SumDays(h) \/ SumTotal(h)

Enter(h) ==
  \/ \E u \in Users, c \in Codes : BeginPartner(h, u, c)
  \/ \E l \in Links : BeginLink(h, l[1], l[2]) \/ BeginDelete(h, l) \/ BeginClick(h, l)
                      \/ BeginStats(h, None, l[1], l[2])
  \/ \E c \in Claims, r \in Codes : \/ BeginClaim(h, c, r)
                                    \/ claim[c].made /\ BeginAssign(h, c, r)
  \/ \E u \in Users \cup {None} : BeginStats(h, u, None, None)

Next ==
  \/ \E h \in Http : Enter(h) \/ Proceed(h) \/ Throw(h)
  \/ \E c \in Claims : Unassign(c)
  \/ \E u \in Users : EditRole(u)

Spec == Init /\ [][Next]_vars

-----------------------------------------------------------------------------
(* Properties.                                                             *)

\* Every variable has the shape the code gives it.
TypeOK ==
  /\ role \subseteq Users
  /\ \A u \in Users : code[u] \in Codes \cup {None}
  /\ \A l \in Links : /\ link[l].id \in 0..Limit /\ link[l].clicks \in 0..Limit
                      /\ link[l].of \in Users \cup {None}
  /\ \A c \in Claims : claim[c].by \in Users \cup {None}

\* Whoever has the role of a partner is one, unless an administrator gave it by
\* itself (ReferralLinksController refuses such a user), or the request that
\* gave it is in progress, found the code taken or came to grief.
RoleHasPartner ==
  \A u \in role : \/ code[u] # None \/ {<<"role", u>>, <<"partner", u>>} \cap broken # {}
                  \/ \E h \in Http : request[h].op = "partner" /\ request[h].user = u

\* A link is that of the partner with its code, whom the statistics credit.
LinkOfItsCode == \A l \in Links : link[l] # NoLink => code[link[l].of] = l[1]

\* A visit that began while the link was there is counted for it, unless it is
\* in progress or came to grief.
VisitsCounted ==
  \A l \in Links : link[l] # NoLink =>
    \/ <<"visit", l>> \in broken
    \/ link[l].clicks + Cardinality({h \in Http : request[h].op = "click" /\ Place(h) = l})
         >= visits[link[l].id]

\* A claim with a referrer is credited to the partner of that code, unless
\* nobody had it when the claim came.
ReferrerCredited ==
  \A c \in Claims : claim[c].made /\ claim[c].referrer # None =>
    IF claim[c].by = None THEN c \in early
                          ELSE code[claim[c].by] = claim[c].referrer

\* The total of visits is never below the sum of the days in the same answer,
\* unless a link was deleted while it was put together or an administrator
\* selected one code of a source.
TotalsCoverDays == ~short

\* What is credited to partners fits together, in each of these ways.
CreditsConsistent ==
  /\ RoleHasPartner
  /\ LinkOfItsCode
  /\ VisitsCounted
  /\ ReferrerCredited
  /\ TotalsCoverDays
=============================================================================
