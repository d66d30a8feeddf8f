------------------------ MODULE SideComponentsProofs ------------------------
(***************************************************************************)
(* Theorems about the side components, for any passengers, requests and    *)
(* documents.  A behaviour moves one component, so an invariant of a       *)
(* component needs only the steps of its own.                              *)
(***************************************************************************)
EXTENDS SideInvariants, FiniteSetTheorems, TLAPS

-----------------------------------------------------------------------------
(* Links of passengers.                                                    *)

LEMMA LinkRest ==
  /\ Links!Rest \in LinkRequests /\ Links!Rest.op = "rest" /\ Links!Rest.at = "rest"
  /\ Links!Rest.link = 0 /\ ~Links!Rest.minor
  BY DEF Links!Rest, LinkRequests, Links!Passengers, Links!Kinds

LEMMA LinkGo ==
  ASSUME LinkShapes, NEW h \in Http, NEW step, Links!Go(h, step)
  PROVE  /\ linkRequest'[h].at = step /\ linkRequest'[h].op = linkRequest[h].op
         /\ linkRequest'[h].of = linkRequest[h].of /\ linkRequest'[h].kind = linkRequest[h].kind
         /\ linkRequest'[h].link = linkRequest[h].link
         /\ linkRequest'[h].minor = linkRequest[h].minor
         /\ linkRequest'[h].requires = linkRequest[h].requires
         /\ \A k \in Http \ {h} : linkRequest'[k] = linkRequest[k]
  BY DEF Links!Go, LinkShapes, LinkRequests

LEMMA LinkEnd ==
  ASSUME LinkShapes, NEW h \in Http, Links!End(h)
  PROVE  linkRequest'[h] = Links!Rest /\ \A k \in Http \ {h} : linkRequest'[k] = linkRequest[k]
  BY DEF Links!End, LinkShapes

\* The requests stay requests.
LEMMA LinkRequestsStay ==
  ASSUME LinkShapes, NEW h \in Http
  PROVE  /\ Links!End(h) => linkRequest' \in [Http -> LinkRequests]
         /\ \A step \in {"rest", "read", "upsert", "link", "get", "verify", "mark",
                         "revoke", "save", "passenger", "parents", "close",
                         "enqueue"} :
              Links!Go(h, step) => linkRequest' \in [Http -> LinkRequests]
<1>1. linkRequest[h] \in LinkRequests
  BY DEF LinkShapes
<1>2. \A step \in {"rest", "read", "upsert", "link", "get", "verify", "mark",
                   "revoke", "save", "passenger", "parents", "close", "enqueue"} :
        [linkRequest[h] EXCEPT !.at = step] \in LinkRequests
  BY <1>1 DEF LinkRequests
<1> QED
  BY <1>2, LinkRest DEF Links!End, Links!Go, LinkShapes

\* One link changes, and keeps whom and what it is for.
LEMMA LinkChanged ==
  ASSUME LinkShapes, NEW l \in DOMAIN links, NEW row \in LinkRows,
         links' = [links EXCEPT ![l] = row]
  PROVE  /\ links' \in Seq(LinkRows) /\ Len(links') = Len(links)
         /\ DOMAIN links' = DOMAIN links /\ links'[l] = row
         /\ \A m \in DOMAIN links \ {l} : links'[m] = links[m]
  BY DEF LinkShapes

LEMMA LinkFields ==
  ASSUME LinkShapes
  PROVE  /\ \A l \in DOMAIN links :
              /\ links[l] \in LinkRows /\ links[l].of \in Links!Passengers
              /\ links[l].kind \in Links!Kinds
         /\ \A l \in DOMAIN links : l \in Nat \ {0} /\ used[l] \in Nat
<1>1. \A l \in DOMAIN links : links[l] \in LinkRows /\ l \in Nat \ {0}
  BY DEF LinkShapes
<1>2. \A l \in DOMAIN links : used[l] \in Nat
  BY DEF LinkShapes
<1> QED
  BY <1>1, <1>2 DEF LinkRows

\* What became of the links stays so while those past the check stay where they
\* are.
LEMMA LinkFrame ==
  ASSUME LinkSpent, LinkClosed,
         \A l \in DOMAIN links :
           /\ l \in DOMAIN links' /\ links'[l].of = links[l].of
           /\ links'[l].minor = links[l].minor
           /\ links'[l].token = "revoked" => links[l].token = "revoked"
           /\ used[l] > 0 => used'[l] > 0,
         \A l \in DOMAIN links' \ DOMAIN links : links'[l].token # "revoked",
         refused \subseteq refused', linkBroken \subseteq linkBroken',
         \A p \in Links!Passengers : holder'[p].asked = holder[p].asked,
         \A h \in Http : Late(h) => linkRequest'[h] = linkRequest[h]
  PROVE  LinkSpent' /\ LinkClosed'
<1>1. LinkSpent'
  BY DEF LinkSpent, Late, Links!Link
<1>2. LinkClosed'
  <2> SUFFICES ASSUME NEW p \in Links!Passengers, ~holder'[p].asked
               PROVE  \E l \in DOMAIN links' :
                        /\ links'[l].of = p
                        /\ \/ used'[l] > 0 \/ l \in linkBroken'
                           \/ <<l, "birthday">> \in refused'
                           \/ \E h \in Http : Links!At(h, "sign", "enqueue")' /\ Links!Link(h)' = l
    BY DEF LinkClosed
  <2>1. PICK l \in DOMAIN links :
          /\ links[l].of = p
          /\ \/ used[l] > 0 \/ l \in linkBroken \/ <<l, "birthday">> \in refused
             \/ \E h \in Http : Links!At(h, "sign", "enqueue") /\ Links!Link(h) = l
    BY DEF LinkClosed
  <2>2. \A h \in Http : Links!At(h, "sign", "enqueue") =>
                         Links!At(h, "sign", "enqueue")' /\ Links!Link(h)' = Links!Link(h)
    BY DEF Late, Links!At, Links!Link
  <2> QED
    BY <2>1, <2>2
<1> QED
  BY <1>1, <1>2

LEMMA LinkShapesInit == Links!Init => LinkShapes
<1> SUFFICES ASSUME Links!Init
             PROVE  LinkShapes
  OBVIOUS
<1>1. \A p \in Links!Passengers : Links!Created(p) \subseteq People
  BY DEF Links!Created, People
<1>2. holder \in [Links!Passengers -> People]
  BY <1>1 DEF Links!Init
<1>3. copied \in [Links!Passengers -> [Links!Kinds -> [made : BOOLEAN, opened : BOOLEAN]]]
  BY DEF Links!Init
<1> QED
  BY <1>2, <1>3, LinkRest DEF Links!Init, LinkShapes

LEMMA LinkInit == Links!Init => LinkInv
<1> SUFFICES ASSUME Links!Init
             PROVE  LinkInv
  OBVIOUS
<1>1. LinkShapes
  BY LinkShapesInit
<1>2. /\ \A h \in Http : linkRequest[h] = Links!Rest
      /\ links = <<>> /\ DOMAIN links = {} /\ seen = {}
      /\ \A p \in Links!Passengers, k \in Links!Kinds : ~copied[p][k].made /\ ~copied[p][k].opened
      /\ Customer \in Links!Passengers
  BY DEF Links!Init, Links!Passengers
<1>3. /\ \A p \in Links!Passengers : holder[p] \in Links!Created(p)
      /\ \A p \in Links!Passengers : holder[p].asked
      /\ ~holder[Customer].minor
  BY <1>2 DEF Links!Init, Links!Created
<1>4. LinkSteps
  BY <1>2, LinkRest DEF LinkSteps, Links!At
<1>5. LinkRecords /\ LinkAsks
  BY <1>2, <1>3, LinkRest DEF LinkRecords, LinkAsks, Links!At
<1>6. LinkUses /\ LinkSole /\ LinkSpent /\ LinkClosed /\ Links!OpenedStaysOpened
  BY <1>2, <1>3, LinkRest DEF LinkUses, LinkSole, LinkSpent, LinkClosed,
     Links!OpenedStaysOpened, Late, Holds
<1> QED
  BY <1>1, <1>4, <1>5, <1>6 DEF LinkInv

-----------------------------------------------------------------------------
(* Copying a link.                                                         *)

\* Steps that change a request and what it is about, and no link.
LEMMA LinkBegins ==
  ASSUME LinkInv, NEW h \in Http, NEW p \in Links!Passengers, NEW kind \in Links!Kinds,
         Links!BeginCopy(h, p, kind)
  PROVE  LinkInv'
<1> DEFINE new == [Links!Rest EXCEPT !.op = "copy", !.at = "read", !.of = p, !.kind = kind]
<1>1. /\ new \in LinkRequests /\ new.op = "copy" /\ new.at = "read" /\ new.of = p
      /\ linkRequest[h].op = "rest"
      /\ linkRequest' = [linkRequest EXCEPT ![h] = new]
      /\ UNCHANGED <<holder, copied, links, seen, used, linkMet, refused, linkBroken>>
  BY LinkRest DEF Links!BeginCopy, Links!history, LinkRequests
<1> HIDE DEF new
<1>2. /\ linkRequest' \in [Http -> LinkRequests]
      /\ linkRequest'[h] = new /\ \A k \in Http \ {h} : linkRequest'[k] = linkRequest[k]
  BY <1>1 DEF LinkInv, LinkShapes
<1>3. LinkShapes'
  BY <1>1, <1>2 DEF LinkInv, LinkShapes
<1>4. LinkSteps' /\ LinkRecords' /\ LinkAsks'
  BY <1>1, <1>2 DEF LinkInv, LinkSteps, LinkRecords, LinkAsks, Links!At,
      Links!Link, Links!Of
<1>5. LinkUses' /\ LinkSole'
  BY <1>1, <1>2 DEF LinkInv, LinkUses, LinkSole, Late, Before, Holds,
      Links!Link, Links!Of
<1>6. LinkSpent'
  BY <1>1, <1>2 DEF LinkInv, LinkSpent, Late, Links!Link
<1>7. LinkClosed' /\ Links!OpenedStaysOpened'
  BY <1>1, <1>2 DEF LinkInv, LinkClosed, Links!OpenedStaysOpened, Links!At,
      Links!Link
<1> QED
  BY <1>3, <1>4, <1>5, <1>6, <1>7 DEF LinkInv

\* Where a request goes on and nothing else changes that its parts speak of.
LEMMA LinkReads ==
  ASSUME LinkInv, NEW h \in Http, Links!CopyReads(h)
  PROVE  LinkInv'
<1> DEFINE old == linkRequest[h]
           step == IF old.of = Customer THEN "link" ELSE "upsert"
           new == [old EXCEPT !.at = step, !.minor = holder[old.of].minor,
                              !.requires = Links!RequireParentInfo(old.of)]
<1>1. old \in LinkRequests /\ holder[old.of] \in People /\ old.op = "copy"
  BY DEF Links!CopyReads, Links!At, LinkInv, LinkShapes, LinkRequests
<1>2. /\ new \in LinkRequests /\ new.op = "copy" /\ new.of = old.of
      /\ new.at = IF old.of = Customer THEN "link" ELSE "upsert"
      /\ new.minor /\ ~holder[old.of].parents => new.requires
  BY <1>1 DEF LinkRequests, People, Links!RequireParentInfo
<1>3. /\ linkRequest' = [linkRequest EXCEPT ![h] = new]
      /\ UNCHANGED <<holder, copied, links, seen, used, linkMet, refused, linkBroken>>
  BY DEF Links!CopyReads, Links!history
<1> HIDE DEF new
<1>4. /\ linkRequest' \in [Http -> LinkRequests]
      /\ linkRequest'[h] = new /\ \A k \in Http \ {h} : linkRequest'[k] = linkRequest[k]
  BY <1>2, <1>3 DEF LinkInv, LinkShapes
<1>5. LinkShapes'
  BY <1>3, <1>4 DEF LinkInv, LinkShapes
<1>6. LinkSteps' /\ LinkRecords' /\ LinkAsks'
  BY <1>1, <1>2, <1>3, <1>4
     DEF LinkInv, LinkSteps, LinkRecords, LinkAsks, Links!At, Links!Link,
         Links!Of
<1>7. LinkUses' /\ LinkSole'
  BY <1>1, <1>2, <1>3, <1>4
     DEF LinkInv, LinkUses, LinkSole, Late, Before, Holds, Links!Link, Links!Of
<1>8. LinkSpent' /\ LinkClosed' /\ Links!OpenedStaysOpened'
  BY <1>1, <1>3, <1>4, LinkFrame DEF LinkInv, Late, Links!OpenedStaysOpened
<1> QED
  BY <1>5, <1>6, <1>7, <1>8 DEF LinkInv

LEMMA LinkRecorded ==
  ASSUME LinkInv, NEW h \in Http, Links!CopyRecords(h)
  PROVE  LinkInv'
<1> DEFINE p == linkRequest[h].of
           kind == linkRequest[h].kind
           row == [copied[p][kind] EXCEPT !.made = TRUE]
<1>1. /\ linkRequest[h].op = "copy" /\ linkRequest[h].at = "upsert" /\ p # Customer
      /\ p \in Links!Passengers /\ kind \in Links!Kinds
  BY DEF Links!CopyRecords, Links!Record, Links!At, LinkInv, LinkSteps,
      LinkShapes, LinkRequests
<1>2. /\ row \in [made : BOOLEAN, opened : BOOLEAN]
      /\ row.made /\ row.opened = copied[p][kind].opened
  <2>1. copied[p][kind] \in [made : BOOLEAN, opened : BOOLEAN]
    BY <1>1 DEF LinkInv, LinkShapes
  <2> QED
    BY <2>1
<1>3. /\ copied' = [copied EXCEPT ![p][kind] = row]
      /\ Links!Go(h, "link")
      /\ UNCHANGED <<holder, links, seen, used, linkMet, refused, linkBroken>>
  BY DEF Links!CopyRecords, Links!Record, Links!history
<1> HIDE DEF p, kind, row
<1>4. /\ copied' \in [Links!Passengers -> [Links!Kinds -> [made : BOOLEAN, opened : BOOLEAN]]]
      /\ copied'[p][kind] = row
      /\ \A q \in Links!Passengers, k \in Links!Kinds :
           q # p \/ k # kind => copied'[q][k] = copied[q][k]
  BY <1>1, <1>2, <1>3 DEF LinkInv, LinkShapes
<1>5. /\ \A q \in Links!Passengers, k \in Links!Kinds :
           /\ copied[q][k].made => copied'[q][k].made
           /\ copied'[q][k].opened = copied[q][k].opened
      /\ copied'[p][kind].made
      /\ \A k \in Links!Kinds : copied'[Customer][k] = copied[Customer][k]
  BY <1>1, <1>2, <1>4 DEF Links!Passengers
<1>6. /\ linkRequest'[h].at = "link" /\ linkRequest'[h].op = "copy"
      /\ linkRequest'[h].of = p /\ linkRequest'[h].kind = kind
      /\ linkRequest'[h].minor = linkRequest[h].minor
      /\ linkRequest'[h].requires = linkRequest[h].requires
      /\ \A k \in Http \ {h} : linkRequest'[k] = linkRequest[k]
      /\ linkRequest' \in [Http -> LinkRequests]
  BY <1>1, <1>3, LinkGo, LinkRequestsStay DEF LinkInv, p, kind
<1>7. LinkShapes'
  BY <1>3, <1>4, <1>6 DEF LinkInv, LinkShapes
<1>8. \A l \in DOMAIN links : links[l].of \in Links!Passengers /\ links[l].kind \in Links!Kinds
  BY LinkFields DEF LinkInv
<1>9. \A k \in Http : linkRequest[k].of \in Links!Passengers /\ linkRequest[k].kind \in Links!Kinds
  BY DEF LinkInv, LinkShapes, LinkRequests
<1>10. LinkSteps'
  BY <1>1, <1>3, <1>6 DEF LinkInv, LinkSteps, Links!At, Links!Link, Links!Of
<1>11. LinkRecords'
  BY <1>1, <1>3, <1>5, <1>6, <1>8, <1>9 DEF LinkInv, LinkRecords, Links!At
<1>12. LinkAsks'
  BY <1>1, <1>3, <1>6 DEF LinkInv, LinkAsks, Links!Of, Links!Link, p
<1>13. LinkUses' /\ LinkSole'
  BY <1>1, <1>3, <1>6
     DEF LinkInv, LinkUses, LinkSole, Late, Before, Holds, Links!Link, Links!Of
<1>14. LinkSpent' /\ LinkClosed'
  BY <1>1, <1>3, <1>6, LinkFrame DEF LinkInv, Late
<1>15. Links!OpenedStaysOpened'
  BY <1>3, <1>5, <1>8 DEF LinkInv, LinkShapes, Links!OpenedStaysOpened
<1> QED
  BY <1>7, <1>10, <1>11, <1>12, <1>13, <1>14, <1>15 DEF LinkInv

\* The answer makes a link; what was said of the links before it still holds.
LEMMA LinkAnswered ==
  ASSUME LinkInv, NEW h \in Http, Links!CopyAnswers(h)
  PROVE  LinkInv'
<1> DEFINE old == linkRequest[h]
           n == Len(links) + 1
           new == [of |-> old.of, kind |-> old.kind, minor |-> old.minor,
                   requires |-> old.requires, short |-> "sending", token |-> "good",
                   resolved |-> FALSE]
<1>1. /\ old.op = "copy" /\ old.at = "link" /\ old \in LinkRequests
      /\ links' = Append(links, new) /\ used' = Append(used, 0)
      /\ Links!End(h)
      /\ UNCHANGED <<holder, copied, seen, linkMet, refused, linkBroken>>
  BY DEF Links!CopyAnswers, Links!At, LinkInv, LinkShapes
<1>2. /\ new \in LinkRows /\ new.of = old.of /\ new.kind = old.kind
      /\ new.minor = old.minor /\ new.requires = old.requires
      /\ new.token = "good"
  BY <1>1 DEF LinkRequests, LinkRows
<1> HIDE DEF new
<1>3. links \in Seq(LinkRows) /\ used \in Seq(Nat) /\ Len(used) = Len(links)
  BY DEF LinkInv, LinkShapes
<1>4. /\ links' \in Seq(LinkRows) /\ used' \in Seq(Nat)
      /\ Len(links') = Len(links) + 1 /\ Len(used') = Len(used) + 1
      /\ Len(links) \in Nat
      /\ DOMAIN links = 1..Len(links) /\ DOMAIN links' = 1..Len(links')
      /\ \A l \in 1..Len(links) : links'[l] = links[l]
      /\ \A l \in 1..Len(used) : used'[l] = used[l]
      /\ links'[Len(links) + 1] = new /\ used'[Len(used) + 1] = 0
  BY <1>1, <1>2, <1>3
<1>5. /\ n \notin DOMAIN links /\ DOMAIN links' = DOMAIN links \cup {n}
      /\ \A l \in DOMAIN links : links'[l] = links[l] /\ used'[l] = used[l]
      /\ links'[n] = new /\ used'[n] = 0
  BY <1>3, <1>4
<1> HIDE DEF n
<1>6. /\ linkRequest'[h] = Links!Rest /\ \A k \in Http \ {h} : linkRequest'[k] = linkRequest[k]
      /\ linkRequest' \in [Http -> LinkRequests]
  BY <1>1, LinkEnd, LinkRequestsStay DEF LinkInv
<1>7. LinkShapes'
  BY <1>1, <1>3, <1>4, <1>5, <1>6 DEF LinkInv, LinkShapes
<1>8. LinkSteps'
  BY <1>1, <1>5, <1>6, LinkRest DEF LinkInv, LinkSteps, Links!At, Links!Link,
      Links!Of
<1>9. LinkRecords'
  <2>1. \A k \in Http : Links!At(k, "copy", "link")' => Links!At(k, "copy", "link") /\ k # h
    BY <1>6, LinkRest DEF Links!At
  <2>2. new.of # Customer => copied[new.of][new.kind].made
    BY <1>1, <1>2 DEF LinkInv, LinkRecords, Links!At
  <2>3. \A l \in DOMAIN links' : links'[l].of # Customer =>
                                  copied[links'[l].of][links'[l].kind].made
    BY <1>5, <2>2 DEF LinkInv, LinkRecords
  <2> QED
    BY <1>1, <1>6, <2>1, <2>3 DEF LinkInv, LinkRecords
<1>10. \A k \in Http : linkRequest[k].op \in {"open", "sign", "upload"} =>
         Links!Link(k) \in DOMAIN links
  BY DEF LinkInv, LinkSteps
<1>11. LinkAsks'
  BY <1>1, <1>2, <1>5, <1>6, <1>10, LinkRest DEF LinkInv, LinkAsks, Links!Of,
      Links!Link
<1>12. LinkUses' /\ LinkSole'
  <2>1. \A k \in Http : linkRequest'[k].op \in {"open", "sign", "upload"} =>
          /\ linkRequest'[k] = linkRequest[k] /\ Links!Link(k) \in DOMAIN links
          /\ links'[Links!Link(k)] = links[Links!Link(k)] /\ used'[Links!Link(k)] = used[Links!Link(k)]
    BY <1>5, <1>6, <1>10, LinkRest
  <2>2. LinkUses'
    BY <1>2, <1>5, <2>1 DEF LinkInv, LinkUses, Late, Before, Links!Link,
        Links!Of
  <2>3. \A k \in Http : ~(linkRequest'[k].op \in {"open", "sign", "upload"}
                          /\ linkRequest'[k].link = n)
    BY <1>5, <2>1 DEF Links!Link
  <2>4. \A l \in DOMAIN links' \ linkMet' : l \in DOMAIN links \ linkMet \/ l = n
    BY <1>1, <1>5
  <2>5. LinkSole'
    BY <1>5, <2>1, <2>3, <2>4 DEF LinkInv, LinkSole, Holds, Late, Before,
        Links!Link, Links!Of
  <2> QED
    BY <2>2, <2>5
<1>13. LinkSpent' /\ LinkClosed'
  BY <1>1, <1>2, <1>5, <1>6, LinkFrame DEF LinkInv, Late
<1>14. Links!OpenedStaysOpened'
  BY <1>1, <1>5 DEF LinkInv, LinkShapes, Links!OpenedStaysOpened
<1> QED
  BY <1>7, <1>8, <1>9, <1>11, <1>12, <1>13, <1>14 DEF LinkInv

-----------------------------------------------------------------------------
(* Opening and using a link.                                               *)

\* A request that begins with a link, and with it the note of who meets it.
LEMMA LinkTaken ==
  ASSUME LinkInv, NEW h \in Http, NEW l \in DOMAIN links, Links!Use(h, l)
  PROVE  LinkInv'
<1>1. PICK op \in {"open", "upload", "sign"}, step \in {"get", "verify"} :
        /\ Links!Begin(h, op, step, l)
        /\ step = IF op = "open" THEN "get" ELSE "verify"
  BY DEF Links!Use
<1> DEFINE new == [Links!Rest EXCEPT !.op = op, !.at = step, !.link = l]
<1>2. l \in Nat
  BY DEF LinkInv, LinkShapes
<1>3. /\ new \in LinkRequests /\ new.op = op /\ new.at = step /\ new.link = l
      /\ linkRequest[h].op = "rest"
      /\ linkRequest' = [linkRequest EXCEPT ![h] = new]
      /\ UNCHANGED <<holder, copied, links, seen, used, refused, linkBroken>>
      /\ linkMet \subseteq linkMet'
      /\ l \in linkMet' \/ \A k \in Http : linkRequest[k].op # "rest" => Links!Link(k) # l
  BY <1>1, <1>2, LinkRest DEF Links!Begin, LinkRequests
<1> HIDE DEF new
<1>4. /\ linkRequest' \in [Http -> LinkRequests]
      /\ linkRequest'[h] = new /\ \A k \in Http \ {h} : linkRequest'[k] = linkRequest[k]
  BY <1>3 DEF LinkInv, LinkShapes
<1>5. LinkShapes'
  BY <1>3, <1>4 DEF LinkInv, LinkShapes
<1>6. LinkSteps' /\ LinkRecords' /\ LinkAsks'
  BY <1>1, <1>3, <1>4
     DEF LinkInv, LinkSteps, LinkRecords, LinkAsks, Links!At, Links!Link,
         Links!Of
<1>7. LinkUses'
  BY <1>1, <1>3, <1>4 DEF LinkInv, LinkUses, Late, Before, Links!Link, Links!Of
<1>8. LinkSole'
  BY <1>1, <1>3, <1>4 DEF LinkInv, LinkSole, Late, Before, Holds, Links!Link,
      Links!Of
<1>9. LinkSpent' /\ LinkClosed' /\ Links!OpenedStaysOpened'
  BY <1>1, <1>3, <1>4
     DEF LinkInv, LinkSpent, LinkClosed, Links!OpenedStaysOpened, Late,
         Links!At, Links!Link
<1> QED
  BY <1>5, <1>6, <1>7, <1>8, <1>9 DEF LinkInv

\* Steps that use no link, put none past the check and at most end requests:
\* those past the check by an error.
LEMMA LinkQuiet ==
  ASSUME LinkInv, LinkShapes', LinkSteps',
         \A h \in Http :
           \/ linkRequest'[h] = linkRequest[h]
           \/ linkRequest'[h] = Links!Rest /\ (Late(h) => Links!Link(h) \in linkBroken')
           \/ /\ linkRequest[h].op = "open" /\ linkRequest'[h].op = "open"
              /\ linkRequest'[h].link = linkRequest[h].link
              /\ linkRequest'[h].minor = linkRequest[h].minor,
         DOMAIN links' = DOMAIN links,
         \A l \in DOMAIN links :
           /\ links'[l].of = links[l].of /\ links'[l].kind = links[l].kind
           /\ links'[l].minor = links[l].minor
           /\ links'[l].requires = links[l].requires
           /\ links'[l].token \in {links[l].token, "expired"},
         UNCHANGED <<holder, copied, seen, used, linkMet>>,
         refused \subseteq refused', linkBroken \subseteq linkBroken'
  PROVE  LinkInv'
<1>1. \A h \in Http : linkRequest'[h].op # "rest" =>
        /\ linkRequest'[h].op = linkRequest[h].op /\ linkRequest'[h].link = linkRequest[h].link
        /\ linkRequest'[h].op # "open" => linkRequest'[h] = linkRequest[h]
  BY LinkRest
<1>2. \A h \in Http : Late(h)' => Late(h) /\ linkRequest'[h] = linkRequest[h]
  BY <1>1, LinkRest DEF Late
<1>3. \A h \in Http : Links!Link(h) \in DOMAIN links /\ linkRequest[h].op # "rest"
                      => Links!Of(h)' = Links!Of(h) \/ linkRequest'[h] = Links!Rest
  BY <1>1, LinkRest DEF Links!Of, Links!Link
<1>4. \A h \in Http : linkRequest[h].op \in {"open", "sign", "upload"} =>
                       Links!Link(h) \in DOMAIN links
  BY DEF LinkInv, LinkSteps
<1>5. LinkRecords'
  BY <1>1 DEF Links!At, LinkInv, LinkRecords
<1>6. LinkAsks'
  BY <1>1, <1>4 DEF LinkInv, LinkAsks, Links!Of, Links!Link
<1>7. LinkUses'
  BY <1>4, <1>2 DEF Late, Before, Links!Of, Links!Link, LinkInv, LinkUses
<1>8. LinkSole'
  BY <1>1, LinkRest, <1>2, <1>4 DEF Holds, Links!Link, Before, Late, Links!Of,
     LinkInv, LinkSole
<1>9. \A h \in Http : Late(h) => \/ Late(h)' /\ linkRequest'[h] = linkRequest[h]
                                \/ Links!Link(h) \in linkBroken'
  BY DEF Late
<1>10. LinkSpent'
  BY <1>9 DEF LinkInv, LinkSpent, Links!Link
<1>11. LinkClosed'
  <2>1. \A h \in Http : Links!At(h, "sign", "enqueue") =>
          \/ Links!At(h, "sign", "enqueue")' /\ Links!Link(h)' = Links!Link(h)
          \/ Links!Link(h) \in linkBroken'
    BY <1>9 DEF Links!At, Links!Link, Late
  <2> SUFFICES ASSUME NEW p \in Links!Passengers, ~holder[p].asked
               PROVE  \E l \in DOMAIN links :
                        /\ links'[l].of = p
                        /\ \/ used[l] > 0 \/ l \in linkBroken' \/ <<l, "birthday">> \in refused'
                           \/ \E h \in Http : Links!At(h, "sign", "enqueue")' /\ Links!Link(h)' = l
    BY DEF LinkClosed
  <2>2. PICK l \in DOMAIN links :
          /\ links[l].of = p
          /\ \/ used[l] > 0 \/ l \in linkBroken \/ <<l, "birthday">> \in refused
             \/ \E h \in Http : Links!At(h, "sign", "enqueue") /\ Links!Link(h) = l
    BY DEF LinkInv, LinkClosed
  <2> QED
    BY <2>1, <2>2
<1>12. Links!OpenedStaysOpened'
  BY DEF LinkInv, LinkShapes, Links!OpenedStaysOpened
<1> QED
  BY <1>5, <1>6, <1>7, <1>8, <1>10, <1>11, <1>12 DEF LinkInv

\* A row of a link where one field changes.
LEMMA LinkShort ==
  ASSUME LinkInv, NEW l \in DOMAIN links, NEW row \in LinkRows,
         links' = [links EXCEPT ![l] = row],
         \/ row.token = links[l].token \/ row.token = "expired",
         row.of = links[l].of, row.kind = links[l].kind,
         row.minor = links[l].minor, row.requires = links[l].requires
  PROVE  /\ links' \in Seq(LinkRows) /\ Len(links') = Len(links)
         /\ DOMAIN links' = DOMAIN links
         /\ \A m \in DOMAIN links :
           /\ links'[m].of = links[m].of /\ links'[m].kind = links[m].kind
           /\ links'[m].minor = links[m].minor
           /\ links'[m].requires = links[m].requires
           /\ links'[m].token \in {links[m].token, "expired"}
  BY LinkChanged DEF LinkInv

LEMMA LinkGets ==
  ASSUME LinkInv, NEW h \in Http, Links!OpenGets(h)
  PROVE  LinkInv'
<1> DEFINE l == Links!Link(h)
           row == [links[l] EXCEPT !.resolved = TRUE]
<1>1. /\ linkRequest[h].op = "open" /\ linkRequest[h].at = "get" /\ l \in DOMAIN links
      /\ links[l] \in LinkRows
      /\ UNCHANGED <<holder, copied, seen, used, linkMet, refused, linkBroken>>
  BY LinkFields DEF Links!OpenGets, Links!At, LinkInv, LinkSteps, Links!history
<1>2. CASE links[l].short = "kept"
  <2>1. Links!Go(h, "verify") /\ links' = [links EXCEPT ![l] = row]
    BY <1>2 DEF Links!OpenGets
  <2>2. /\ row \in LinkRows /\ row.token = links[l].token
        /\ row.of = links[l].of /\ row.kind = links[l].kind
        /\ row.minor = links[l].minor /\ row.requires = links[l].requires
    BY <1>1 DEF LinkRows
  <2> HIDE DEF row
  <2>3. /\ links' \in Seq(LinkRows) /\ Len(links') = Len(links)
        /\ DOMAIN links' = DOMAIN links
        /\ \A m \in DOMAIN links :
           /\ links'[m].of = links[m].of /\ links'[m].kind = links[m].kind
           /\ links'[m].minor = links[m].minor
           /\ links'[m].requires = links[m].requires
           /\ links'[m].token \in {links[m].token, "expired"}
    BY <1>1, <2>1, <2>2, LinkShort
  <2>4. /\ linkRequest'[h].at = "verify" /\ linkRequest'[h].op = "open"
        /\ linkRequest'[h].link = linkRequest[h].link
        /\ linkRequest'[h].minor = linkRequest[h].minor
        /\ \A k \in Http \ {h} : linkRequest'[k] = linkRequest[k]
        /\ linkRequest' \in [Http -> LinkRequests]
    BY <1>1, <2>1, LinkGo, LinkRequestsStay DEF LinkInv
  <2>5. LinkShapes'
    BY <1>1, <2>3, <2>4 DEF LinkInv, LinkShapes
  <2>6. LinkSteps'
    BY <1>1, <2>3, <2>4 DEF LinkInv, LinkSteps, Links!At, Links!Of, Links!Link
  <2> QED
    BY <1>1, <2>3, <2>4, <2>5, <2>6, LinkQuiet
<1>3. CASE links[l].short # "kept"
  BY <1>3, LinkEnd, LinkRequestsStay, <1>1, LinkRest, LinkQuiet DEF Links!OpenGets,
     LinkInv, LinkShapes, LinkSteps, Links!At, Links!Of, Links!Link, Late
<1> QED
  BY <1>2, <1>3

LEMMA LinkChecks ==
  ASSUME LinkInv, NEW h \in Http, Links!OpenVerifies(h)
  PROVE  LinkInv'
<1>1. /\ linkRequest[h].op = "open" /\ Links!Link(h) \in DOMAIN links
      /\ UNCHANGED <<holder, copied, links, seen, used, linkMet, refused, linkBroken>>
      /\ \/ Links!Go(h, "mark") /\ Links!Of(h) # Customer
         \/ Links!End(h)
  BY DEF Links!OpenVerifies, Links!At, LinkInv, LinkSteps, Links!history
<1>2. /\ \A k \in Http \ {h} : linkRequest'[k] = linkRequest[k]
      /\ linkRequest' \in [Http -> LinkRequests]
      /\ \/ /\ Links!Of(h) # Customer
            /\ linkRequest'[h].at = "mark" /\ linkRequest'[h].op = "open"
            /\ linkRequest'[h].link = linkRequest[h].link
            /\ linkRequest'[h].minor = linkRequest[h].minor
         \/ linkRequest'[h] = Links!Rest
  BY <1>1, LinkGo, LinkRequestsStay, LinkEnd DEF LinkInv
<1>3. LinkShapes' /\ LinkSteps'
  BY <1>1, <1>2, LinkRest DEF LinkInv, LinkShapes, LinkSteps, Links!At,
      Links!Of, Links!Link
<1>4. ~Late(h)
  BY <1>1 DEF Late
<1> QED
  BY <1>1, <1>2, <1>3, <1>4, LinkQuiet

LEMMA LinkMarked ==
  ASSUME LinkInv, NEW h \in Http, Links!OpenMarks(h)
  PROVE  LinkInv'
<1> DEFINE l == Links!Link(h)
           p == Links!Of(h)
           kind == links[l].kind
           row == [copied[p][kind] EXCEPT !.opened = copied[p][kind].made]
<1>1. /\ linkRequest[h].op = "open" /\ linkRequest[h].at = "mark" /\ p # Customer
      /\ l \in DOMAIN links /\ p = links[l].of
      /\ p \in Links!Passengers /\ kind \in Links!Kinds
  BY LinkFields DEF Links!OpenMarks, Links!At, LinkInv, LinkSteps, Links!Of
<1>2. copied[p][kind].made
  BY <1>1 DEF LinkInv, LinkRecords
<1>3. row \in [made : BOOLEAN, opened : BOOLEAN] /\ row.made /\ row.opened
  <2>1. copied[p][kind] \in [made : BOOLEAN, opened : BOOLEAN]
    BY <1>1 DEF LinkInv, LinkShapes
  <2> QED
    BY <1>2, <2>1
<1>4. /\ copied' = [copied EXCEPT ![p][kind] = row]
      /\ seen' = seen \cup {l} /\ Links!End(h)
      /\ UNCHANGED <<holder, links, used, linkMet, refused, linkBroken>>
  BY DEF Links!OpenMarks
<1> HIDE DEF row, kind, p, l
<1>5. /\ copied' \in [Links!Passengers -> [Links!Kinds -> [made : BOOLEAN, opened : BOOLEAN]]]
      /\ copied'[p][kind] = row
      /\ \A q \in Links!Passengers, k \in Links!Kinds :
           q # p \/ k # kind => copied'[q][k] = copied[q][k]
  BY <1>1, <1>3, <1>4 DEF LinkInv, LinkShapes
<1>6. /\ \A q \in Links!Passengers, k \in Links!Kinds :
           /\ copied[q][k].made => copied'[q][k].made
           /\ copied[q][k].opened => copied'[q][k].opened
           /\ (copied[q][k].opened => copied[q][k].made)
                => (copied'[q][k].opened => copied'[q][k].made)
      /\ \A k \in Links!Kinds : copied'[Customer][k] = copied[Customer][k]
  BY <1>1, <1>3, <1>5 DEF Links!Passengers
<1>7. /\ linkRequest'[h] = Links!Rest /\ \A k \in Http \ {h} : linkRequest'[k] = linkRequest[k]
      /\ linkRequest' \in [Http -> LinkRequests]
  BY <1>4, LinkEnd, LinkRequestsStay DEF LinkInv
<1>8. LinkShapes' /\ LinkSteps'
  <2>1. LinkShapes'
    BY <1>1, <1>4, <1>5, <1>7 DEF LinkInv, LinkShapes
  <2>2. LinkSteps'
    BY <1>4, <1>7, LinkRest DEF LinkInv, LinkSteps, Links!At, Links!Of,
        Links!Link
  <2> QED
    BY <2>1, <2>2
<1>9. \A m \in DOMAIN links : links[m].of \in Links!Passengers /\ links[m].kind \in Links!Kinds
  BY LinkFields DEF LinkInv
<1>10. \A k \in Http : linkRequest[k].of \in Links!Passengers /\ linkRequest[k].kind \in Links!Kinds
  BY DEF LinkInv, LinkShapes, LinkRequests
<1>11. LinkRecords'
  BY <1>7, LinkRest, <1>6, <1>10, <1>9, <1>4 DEF Links!At, LinkInv, LinkRecords
<1>12. LinkAsks' /\ LinkUses' /\ LinkSole'
  BY <1>1, <1>4, <1>7, LinkRest
     DEF LinkInv, LinkAsks, LinkUses, LinkSole, Late, Before, Holds,
         Links!Link, Links!Of
<1>13. LinkSpent' /\ LinkClosed'
  BY <1>1, <1>4, <1>7, LinkFrame DEF LinkInv, Late
<1>14. Links!OpenedStaysOpened'
  BY <1>1, <1>3, <1>4, <1>5, <1>6, <1>9 DEF LinkInv, LinkShapes,
      Links!OpenedStaysOpened, kind
<1> QED
  BY <1>8, <1>11, <1>12, <1>13, <1>14 DEF LinkInv

-----------------------------------------------------------------------------
(* Signing and sending documents.                                          *)

\* What a request past the check or with a link knows of it.
LEMMA LinkHeld ==
  ASSUME LinkInv
  PROVE  \A h \in Http : linkRequest[h].op \in {"open", "sign", "upload"} =>
           /\ Links!Link(h) \in DOMAIN links /\ Links!Link(h) \in Nat
           /\ Links!Of(h) = links[Links!Link(h)].of /\ Links!Of(h) \in Links!Passengers
           /\ used[Links!Link(h)] \in Nat
  BY LinkFields DEF LinkInv, LinkSteps, Links!Of

LEMMA LinkPasses ==
  ASSUME LinkInv, NEW h \in Http, Links!Verifies(h)
  PROVE  LinkInv'
<1>1. /\ linkRequest[h].op \in {"sign", "upload"} /\ linkRequest[h].at = "verify"
      /\ Links!Link(h) \in DOMAIN links /\ ~Late(h)
      /\ UNCHANGED <<holder, copied, links, seen, used, linkMet, refused, linkBroken>>
  BY LinkHeld DEF Links!Verifies, Links!history, Late
<1>2. CASE links[Links!Link(h)].token = "good"
  <2>1. /\ linkRequest'[h].at = "revoke" /\ linkRequest'[h].op = linkRequest[h].op
        /\ linkRequest'[h].link = linkRequest[h].link
        /\ \A k \in Http \ {h} : linkRequest'[k] = linkRequest[k]
        /\ linkRequest' \in [Http -> LinkRequests]
    BY <1>2, LinkGo, LinkRequestsStay DEF LinkInv, Links!Verifies
  <2>2. LinkShapes'
    BY <1>1, <2>1 DEF LinkInv, LinkShapes
  <2>3. LinkSteps' /\ LinkRecords'
    BY <1>1, <2>1 DEF LinkInv, LinkSteps, LinkRecords, Links!At, Links!Of,
        Links!Link
  <2>4. LinkAsks'
    BY <1>1, <2>1 DEF LinkInv, LinkAsks, Links!Of, Links!Link
  <2>5. used[Links!Link(h)] = 0
    BY <1>1, <1>2 DEF LinkInv, LinkUses
  <2>6. LinkUses'
    BY <1>1, <2>1, <2>5 DEF LinkInv, LinkUses, Late, Before, Links!Of,
        Links!Link
  <2>7. LinkSole'
    BY <1>1, <2>1, <2>5 DEF LinkInv, LinkSole, Holds, Late, Before, Links!Of,
        Links!Link
  <2>8. LinkSpent' /\ LinkClosed'
    BY <1>1, <2>1, LinkFrame DEF LinkInv, Late
  <2>9. Links!OpenedStaysOpened'
    BY <1>1 DEF LinkInv, Links!OpenedStaysOpened
  <2> QED
    BY <2>2, <2>3, <2>4, <2>6, <2>7, <2>8, <2>9 DEF LinkInv
<1>3. CASE links[Links!Link(h)].token # "good"
  <2>1. /\ linkRequest'[h] = Links!Rest /\ \A k \in Http \ {h} : linkRequest'[k] = linkRequest[k]
        /\ linkRequest' \in [Http -> LinkRequests]
    BY <1>3, LinkEnd, LinkRequestsStay DEF LinkInv, Links!Verifies
  <2>2. LinkShapes'
    BY <1>1, <2>1 DEF LinkInv, LinkShapes
  <2>3. LinkSteps'
    BY <1>1, <2>1, LinkRest DEF LinkInv, LinkSteps, Links!At, Links!Of,
        Links!Link
  <2> QED
    BY <1>1, <2>1, <2>2, <2>3, LinkQuiet
<1> QED
  BY <1>2, <1>3

LEMMA LinkRevoked ==
  ASSUME LinkInv, NEW h \in Http, Links!Revokes(h)
  PROVE  LinkInv'
<1> DEFINE l == Links!Link(h)
           row == [links[l] EXCEPT !.token = IF @ = "expired" THEN @ ELSE "revoked"]
           step == IF linkRequest[h].op = "upload" THEN "save" ELSE "passenger"
<1>1. /\ linkRequest[h].at = "revoke" /\ linkRequest[h].op \in {"sign", "upload"}
      /\ l \in DOMAIN links /\ links[l] \in LinkRows
      /\ Late(h) /\ Before(h)
  BY LinkRest, LinkHeld, LinkFields DEF Links!Revokes, LinkInv, LinkSteps, LinkShapes,
     LinkRequests, Late, Before
<1>2. /\ links' = [links EXCEPT ![l] = row] /\ Links!Go(h, step)
      /\ UNCHANGED <<holder, copied, seen, used, linkMet, refused, linkBroken>>
  BY DEF Links!Revokes, Links!history
<1>3. /\ row \in LinkRows /\ row.of = links[l].of /\ row.kind = links[l].kind
      /\ row.minor = links[l].minor /\ row.requires = links[l].requires
      /\ row.token \in {"revoked", "expired"}
  BY <1>1 DEF LinkRows
<1>4. /\ linkRequest'[h].at = step /\ linkRequest'[h].op = linkRequest[h].op
      /\ linkRequest'[h].link = linkRequest[h].link /\ linkRequest'[h].minor = linkRequest[h].minor
      /\ \A k \in Http \ {h} : linkRequest'[k] = linkRequest[k]
      /\ linkRequest' \in [Http -> LinkRequests]
  BY <1>2, LinkGo, LinkRequestsStay DEF LinkInv
<1> HIDE DEF row, l
<1>5. /\ links' \in Seq(LinkRows) /\ Len(links') = Len(links)
      /\ DOMAIN links' = DOMAIN links
      /\ \A m \in DOMAIN links :
           /\ links'[m].of = links[m].of /\ links'[m].kind = links[m].kind
           /\ links'[m].minor = links[m].minor
           /\ links'[m].requires = links[m].requires
           /\ links'[m].token = "good" => links[m].token = "good" /\ m # l
           /\ links[m].token # "good" => links'[m].token # "good"
           /\ m # l => links'[m] = links[m]
      /\ links'[l].token # "good"
  BY <1>1, <1>2, <1>3, LinkChanged DEF LinkInv
<1>6. \A k \in Http : linkRequest[k].op \in {"open", "sign", "upload"} =>
        /\ Links!Link(k) \in DOMAIN links /\ Links!Link(k)' = Links!Link(k) /\ Links!Of(k)' = Links!Of(k)
  BY <1>4, <1>5, LinkHeld DEF Links!Link, Links!Of
<1>7. LinkShapes'
  BY <1>2, <1>4, <1>5 DEF LinkInv, LinkShapes
<1>8. LinkSteps'
  BY <1>1, <1>4, <1>5, <1>6 DEF LinkInv, LinkSteps, Links!At
<1>9. LinkRecords'
  BY <1>1, <1>4, <1>2, <1>5 DEF Links!At, LinkInv, LinkRecords
<1>10. LinkAsks'
  BY <1>4, <1>6, <1>1, <1>2, <1>5 DEF LinkInv, LinkAsks
<1>11. LinkUses'
  <2>1. \A k \in Http : Late(k)' => Late(k) /\ Links!Link(k)' = Links!Link(k)
                                    /\ Links!Link(k) \in DOMAIN links
    BY <1>1, <1>4, <1>6 DEF Late
  <2>2. \A k \in Http : Late(k)' /\ ~Before(k)' => ~Before(k)
    BY <1>1, <1>4, <1>6 DEF Before, Late
  <2>3. \A k \in Http \ {h} : Late(k)' => linkRequest'[k] = linkRequest[k]
    BY <1>4
  <2>4. \A k \in Http : Late(k)' /\ linkRequest'[k].at # "revoke" =>
                         links'[Links!Link(k)].token # "good"
    BY <1>5, <2>1, <2>3 DEF l, LinkInv, LinkUses
  <2> QED
    BY <1>2, <1>5, <2>1, <2>2, <2>4 DEF LinkInv, LinkUses
<1>12. LinkSole'
  BY <1>4, <1>6, <1>1, <1>2, <1>5 DEF Holds, Links!Link, Before, Late, LinkInv,
     LinkSole
<1>13. \A k \in Http : Late(k) => Late(k)' /\ Links!Link(k)' = Links!Link(k)
  BY <1>1, <1>4, <1>6 DEF Late
<1>14. LinkSpent'
  BY <1>2, <1>5, <1>1, <1>13 DEF LinkSpent, l, LinkInv
<1>15. LinkClosed'
  <2> SUFFICES ASSUME NEW p \in Links!Passengers, ~holder'[p].asked
               PROVE  \E m \in DOMAIN links' :
                        /\ links'[m].of = p
                        /\ \/ used'[m] > 0 \/ m \in linkBroken' \/ <<m, "birthday">> \in refused'
                           \/ \E k \in Http : Links!At(k, "sign", "enqueue")' /\ Links!Link(k)' = m
    BY DEF LinkClosed
  <2>1. PICK m \in DOMAIN links :
          /\ links[m].of = p
          /\ \/ used[m] > 0 \/ m \in linkBroken \/ <<m, "birthday">> \in refused
             \/ \E k \in Http : Links!At(k, "sign", "enqueue") /\ Links!Link(k) = m
    BY <1>2 DEF LinkInv, LinkClosed
  <2>2. \A k \in Http : Links!At(k, "sign", "enqueue") =>
                         Links!At(k, "sign", "enqueue")' /\ Links!Link(k)' = Links!Link(k)
    BY <1>1, <1>4 DEF Links!At, Links!Link
  <2> QED
    <3>1. m \in DOMAIN links' /\ links'[m].of = p
      BY <1>5, <2>1
    <3>2. UNCHANGED <<used, linkBroken, refused>>
      BY <1>2
    <3> QED
      BY <2>1, <2>2, <3>1, <3>2
<1>16. Links!OpenedStaysOpened'
  BY <1>2, <1>5 DEF LinkInv, LinkShapes, Links!OpenedStaysOpened
<1> QED
  BY <1>7, <1>8, <1>9, <1>10, <1>11, <1>12, <1>14, <1>15, <1>16 DEF LinkInv

\* A use of a link, by a request that has not used it yet.
LEMMA LinkUsed ==
  ASSUME LinkInv, NEW h \in Http, Late(h), Before(h), linkRequest[h].at # "revoke", Links!Uses(h),
         UNCHANGED <<holder, links, linkMet>>, refused \subseteq refused', linkBroken \subseteq linkBroken',
         ~Before(h)',
         \/ linkRequest'[h] = Links!Rest
         \/ /\ linkRequest'[h].op = "sign" /\ linkRequest'[h].link = Links!Link(h)
            /\ linkRequest'[h].at # "revoke",
         \A k \in Http \ {h} : linkRequest'[k] = linkRequest[k]
  PROVE  /\ used' \in Seq(Nat) /\ Len(used') = Len(links)
         /\ LinkUses' /\ LinkSole' /\ LinkSpent' /\ LinkClosed'
<1> DEFINE l == Links!Link(h)
<1>1. /\ l \in DOMAIN links /\ l \in Nat /\ used[l] \in Nat
      /\ used \in Seq(Nat) /\ Len(used) = Len(links) /\ DOMAIN used = DOMAIN links
      /\ \A m \in DOMAIN links : used[m] \in Nat
  BY LinkHeld DEF LinkInv, LinkShapes, Late
<1>2. /\ used' \in Seq(Nat) /\ Len(used') = Len(links)
      /\ used'[l] = used[l] + 1 /\ \A m \in DOMAIN links \ {l} : used'[m] = used[m]
  BY <1>1 DEF Links!Uses
<1>3. \A m \in DOMAIN links : /\ used[m] > 0 => used'[m] > 0
                              /\ used'[m] # 0 \/ m # l
                              /\ m = l => used'[m] > 0
  BY <1>1, <1>2
<1>4. \A k \in Http : Late(k)' =>
        /\ Late(k) /\ Links!Link(k)' = Links!Link(k) /\ Links!Link(k) \in DOMAIN links
        /\ Links!Of(k)' = Links!Of(k) /\ (k # h => linkRequest'[k] = linkRequest[k])
  BY LinkRest, LinkHeld DEF Late, Links!Link, Links!Of
<1>5. \A k \in Http : Late(k)' => (Before(k)' <=> (k # h /\ Before(k)))
  BY <1>4 DEF Before
<1>6. links[l].token # "good"
  BY DEF LinkInv, LinkUses
<1>7. LinkUses'
  BY <1>4, <1>6, <1>3, <1>5, <1>2 DEF LinkInv, LinkUses
<1>8. LinkSole'
  BY LinkRest, <1>2, <1>5 DEF LinkSole, Holds, Late, Links!Link, LinkInv, Before
<1>9. LinkSpent'
  BY <1>3 DEF Late, Links!Link, LinkInv, LinkSpent
<1>10. LinkClosed'
  BY <1>3 DEF Links!At, Links!Link, LinkClosed, LinkInv
<1> QED
  BY <1>2, <1>7, <1>8, <1>9, <1>10

\* An end of a request disturbs nothing said of the others.
LEMMA LinkEnds ==
  ASSUME LinkInv, NEW h \in Http, linkRequest'[h] = Links!Rest,
         \A k \in Http \ {h} : linkRequest'[k] = linkRequest[k],
         UNCHANGED <<holder, copied, links>>
  PROVE  LinkSteps' /\ LinkRecords' /\ LinkAsks'
  BY LinkRest DEF LinkInv, LinkSteps, Links!At, Links!Of, Links!Link, LinkRecords,
     LinkAsks

\* A passenger who was off the list stays so with a reason.
LEMMA LinkOff ==
  ASSUME LinkClosed, NEW p \in Links!Passengers, ~holder[p].asked,
         UNCHANGED <<links, used, linkBroken>>, refused \subseteq refused',
         \A h \in Http : Links!At(h, "sign", "enqueue") =>
                           Links!At(h, "sign", "enqueue")' /\ Links!Link(h)' = Links!Link(h)
  PROVE  \E l \in DOMAIN links' :
           /\ links'[l].of = p
           /\ \/ used'[l] > 0 \/ l \in linkBroken' \/ <<l, "birthday">> \in refused'
              \/ \E h \in Http : Links!At(h, "sign", "enqueue")' /\ Links!Link(h)' = l
  BY DEF LinkClosed

LEMMA LinkStaysClosed ==
  ASSUME LinkClosed, UNCHANGED <<links, used, linkBroken>>, refused \subseteq refused',
         \A p \in Links!Passengers : holder'[p].asked = holder[p].asked,
         \A h \in Http : Links!At(h, "sign", "enqueue") =>
                           Links!At(h, "sign", "enqueue")' /\ Links!Link(h)' = Links!Link(h)
  PROVE  LinkClosed'
  BY LinkOff DEF LinkClosed

LEMMA LinkSaved ==
  ASSUME LinkInv, NEW h \in Http, Links!UploadSaves(h)
  PROVE  LinkInv'
  BY LinkEnd, LinkRequestsStay, LinkRest, LinkUsed, LinkEnds DEF Links!UploadSaves,
     Links!At, Late, Before, LinkInv, LinkShapes, Links!OpenedStaysOpened

\* Whom a signature of a minor finds: a link that did not ask for the parents
\* was not made for a minor.
LEMMA LinkSignReads ==
  ASSUME LinkInv, NEW h \in Http, Links!SignReads(h)
  PROVE  LinkInv'
<1> DEFINE l == Links!Link(h)
           p == Links!Of(h)
<1>1. /\ linkRequest[h].op = "sign" /\ linkRequest[h].at = "passenger"
      /\ l \in DOMAIN links /\ p = links[l].of /\ p \in Links!Passengers
      /\ Late(h) /\ Before(h)
      /\ UNCHANGED <<holder, copied, links, seen, used, linkMet, linkBroken>>
  BY LinkHeld DEF Links!SignReads, Links!At, Late, Before
<1>2. CASE Links!RequireParentInfo(p) /\ ~links[l].requires
  <2>1. Links!End(h) /\ refused' = refused \cup {<<l, "parents">>}
    BY <1>2 DEF Links!SignReads
  <2>2. /\ linkRequest'[h] = Links!Rest /\ \A k \in Http \ {h} : linkRequest'[k] = linkRequest[k]
        /\ linkRequest' \in [Http -> LinkRequests]
    BY <2>1, LinkEnd, LinkRequestsStay DEF LinkInv
  <2>3. ~links[l].minor
    BY <1>1, <1>2 DEF LinkInv, LinkAsks, Links!RequireParentInfo
  <2>4. LinkShapes'
    BY <1>1, <2>2 DEF LinkInv, LinkShapes
  <2>5. LinkSteps' /\ LinkRecords' /\ LinkAsks'
    BY <1>1, <2>2, LinkEnds
  <2>6. LinkUses' /\ LinkSole'
    BY <1>1, <2>2, LinkRest DEF LinkInv, LinkUses, LinkSole, Holds, Late,
        Before, Links!Of, Links!Link
  <2>7. LinkSpent'
    BY <2>2, <1>1, <2>1, <2>3 DEF Late, Links!Link, LinkInv, LinkSpent
  <2>8. LinkClosed'
    BY <1>1, <2>2, <2>1, LinkStaysClosed DEF Links!At, Links!Link, LinkInv
  <2>9. Links!OpenedStaysOpened'
    BY <1>1 DEF LinkInv, Links!OpenedStaysOpened
  <2> QED
    BY <2>4, <2>5, <2>6, <2>7, <2>8, <2>9 DEF LinkInv
<1>3. CASE ~(Links!RequireParentInfo(p) /\ ~links[l].requires)
  <2> DEFINE step == IF Links!RequireParentInfo(p) THEN "parents"
                     ELSE IF p = Customer THEN "enqueue" ELSE "close"
             new == [linkRequest[h] EXCEPT !.minor = holder[p].minor, !.at = step]
  <2>1. /\ linkRequest' = [linkRequest EXCEPT ![h] = new]
        /\ refused' = refused
    BY <1>3 DEF Links!SignReads
  <2>2. /\ new \in LinkRequests /\ new.op = "sign" /\ new.at = step
        /\ new.link = l /\ new.minor = holder[p].minor
    BY <1>1 DEF LinkInv, LinkShapes, LinkRequests, People, Links!Link
  <2> HIDE DEF new
  <2>3. /\ linkRequest'[h] = new /\ \A k \in Http \ {h} : linkRequest'[k] = linkRequest[k]
        /\ linkRequest' \in [Http -> LinkRequests]
    BY <2>1, <2>2 DEF LinkInv, LinkShapes
  <2>4. /\ step \in {"parents", "enqueue", "close"}
        /\ step = "parents" => p # Customer
        /\ step = "close" => p # Customer
        /\ step \in {"enqueue", "close"} /\ holder[p].minor => holder[p].parents
    BY DEF Links!RequireParentInfo, LinkInv, LinkRecords
  <2> HIDE DEF step
  <2>5. \A k \in Http : Links!Link(k)' = Links!Link(k) /\ Links!Of(k)' = Links!Of(k)
    BY <1>1, <2>2, <2>3 DEF Links!Of, Links!Link
  <2>6. LinkShapes'
    BY <1>1, <2>1, <2>3 DEF LinkInv, LinkShapes
  <2>7. LinkSteps'
    BY <1>1, <2>2, <2>3, <2>4, <2>5 DEF LinkInv, LinkSteps, Links!At
  <2>8. LinkRecords' /\ LinkAsks'
    BY <1>1, <2>2, <2>3, <2>4, <2>5 DEF LinkInv, LinkRecords, LinkAsks,
        Links!At
  <2>9. \A k \in Http : /\ Late(k)' <=> Late(k)
                        /\ Before(k)' <=> Before(k)
    BY <1>1, <2>2, <2>3, <2>4, <2>5 DEF Late, Before
  <2>10. \A k \in Http, m \in DOMAIN links : Holds(k, m)' <=> Holds(k, m)
    BY <1>1, <2>2, <2>3, <2>5 DEF Holds
  <2>11. LinkUses'
    BY <1>1, <2>2, <2>3, <2>5, <2>9 DEF LinkInv, LinkUses
  <2>12. LinkSole'
    BY <1>1, <2>9, <2>10 DEF LinkInv, LinkSole
  <2>13. LinkSpent'
    BY <1>1, <2>1, <2>5, <2>9 DEF LinkInv, LinkSpent
  <2>14. LinkClosed'
    BY <1>1, <2>3, <2>1, <2>5, LinkStaysClosed DEF Links!At, LinkInv
  <2>15. Links!OpenedStaysOpened'
    BY <1>1 DEF LinkInv, Links!OpenedStaysOpened
  <2> QED
    BY <2>6, <2>7, <2>8, <2>11, <2>12, <2>13, <2>14, <2>15 DEF LinkInv
<1> QED
  BY <1>2, <1>3

\* What a person is changes, for the better.
LEMMA LinkPersonChanged ==
  ASSUME LinkShapes, NEW p \in Links!Passengers, NEW row \in People,
         holder' = [holder EXCEPT ![p] = row]
  PROVE  /\ holder' \in [Links!Passengers -> People] /\ holder'[p] = row
         /\ \A q \in Links!Passengers \ {p} : holder'[q] = holder[q]
  BY DEF LinkShapes

LEMMA LinkParents ==
  ASSUME LinkInv, NEW h \in Http, Links!SignSavesParents(h)
  PROVE  LinkInv'
<1> DEFINE p == Links!Of(h)
           row == [holder[p] EXCEPT !.parents = TRUE]
           new == [linkRequest[h] EXCEPT !.at = "close", !.minor = holder[p].minor]
<1>1. /\ linkRequest[h].op = "sign" /\ linkRequest[h].at = "parents"
      /\ Links!Link(h) \in DOMAIN links /\ p = links[Links!Link(h)].of /\ p \in Links!Passengers
      /\ p # Customer
      /\ holder' = [holder EXCEPT ![p] = row]
      /\ linkRequest' = [linkRequest EXCEPT ![h] = new]
      /\ UNCHANGED <<copied, links, seen, used, linkMet, refused, linkBroken>>
  BY LinkHeld DEF Links!SignSavesParents, Links!At, LinkInv, LinkSteps,
      Links!history
<1>2. holder[p] \in People /\ linkRequest[h] \in LinkRequests
  BY <1>1 DEF LinkInv, LinkShapes
<1>3. /\ row \in People /\ row.parents /\ row.minor = holder[p].minor
      /\ row.asked = holder[p].asked
      /\ new \in LinkRequests /\ new.op = "sign" /\ new.at = "close"
      /\ new.link = Links!Link(h)
  BY <1>1, <1>2 DEF People, LinkRequests, Links!Link
<1> HIDE DEF row, new
<1>4. /\ holder' \in [Links!Passengers -> People]
      /\ \A q \in Links!Passengers : /\ holder'[q].minor = holder[q].minor
                                     /\ holder'[q].asked = holder[q].asked
                                     /\ holder[q].parents => holder'[q].parents
      /\ holder'[p].parents
  BY <1>1, <1>3, LinkPersonChanged DEF LinkInv
<1>5. /\ linkRequest'[h] = new /\ \A k \in Http \ {h} : linkRequest'[k] = linkRequest[k]
      /\ linkRequest' \in [Http -> LinkRequests]
  BY <1>1, <1>3 DEF LinkInv, LinkShapes
<1>6. /\ \A k \in Http : Links!Link(k)' = Links!Link(k) /\ Links!Of(k)' = Links!Of(k)
      /\ \A k \in Http : linkRequest[k].of \in Links!Passengers
      /\ \A m \in DOMAIN links : links[m].of \in Links!Passengers
      /\ Customer \in Links!Passengers
  BY <1>1, <1>3, <1>5, LinkFields DEF Links!Of, Links!Link, LinkInv,
      LinkShapes, LinkRequests, Links!Passengers
<1>7. LinkShapes'
  BY <1>1, <1>4, <1>5 DEF LinkInv, LinkShapes
<1>8. LinkSteps'
  BY <1>1, <1>3, <1>5, <1>6 DEF LinkInv, LinkSteps, Links!At
<1>9. LinkRecords'
  BY <1>1, <1>3, <1>4, <1>5, <1>6 DEF LinkInv, LinkRecords, Links!At
<1>10. LinkAsks'
  BY <1>1, <1>3, <1>4, <1>5, <1>6, LinkHeld DEF LinkInv, LinkAsks
<1>11. \A k \in Http : (Late(k)' <=> Late(k)) /\ (Before(k)' <=> Before(k))
  BY <1>1, <1>3, <1>5, <1>6 DEF Late, Before
<1>12. \A k \in Http, m \in DOMAIN links : Holds(k, m)' <=> Holds(k, m)
  BY <1>1, <1>3, <1>5, <1>6 DEF Holds
<1>13. LinkUses'
  BY <1>1, <1>3, <1>5, <1>6, <1>11 DEF LinkInv, LinkUses
<1>14. LinkSole'
  BY <1>1, <1>11, <1>12 DEF LinkInv, LinkSole
<1>15. LinkSpent'
  BY <1>1, <1>6, <1>11 DEF LinkInv, LinkSpent
<1>16. LinkClosed'
  BY <1>1, <1>5, <1>4, <1>6, LinkStaysClosed DEF Links!At, LinkInv, Links!Link
<1>17. Links!OpenedStaysOpened'
  BY <1>1 DEF LinkInv, Links!OpenedStaysOpened
<1> QED
  BY <1>7, <1>8, <1>9, <1>10, <1>13, <1>14, <1>15, <1>16, <1>17 DEF LinkInv

LEMMA LinkCloses ==
  ASSUME LinkInv, NEW h \in Http, Links!SignCloses(h)
  PROVE  LinkInv'
<1> DEFINE l == Links!Link(h)
           p == Links!Of(h)
           row == [holder[p] EXCEPT !.asked = FALSE]
           step == IF p = Customer THEN "mark" ELSE "enqueue"
<1>1. /\ linkRequest[h].op = "sign" /\ linkRequest[h].at = "close"
      /\ l \in DOMAIN links /\ p = links[l].of /\ p \in Links!Passengers
      /\ holder' = [holder EXCEPT ![p] = row] /\ Links!Go(h, step)
      /\ UNCHANGED <<copied, links, seen, used, linkMet, refused, linkBroken>>
  BY LinkHeld DEF Links!SignCloses, Links!At, Links!history
<1>2. holder[p] \in People
  BY <1>1 DEF LinkInv, LinkShapes
<1>3. /\ row \in People /\ row.parents = holder[p].parents
      /\ row.minor = holder[p].minor
  BY <1>2 DEF People
<1> HIDE DEF row
<1>4. /\ holder' \in [Links!Passengers -> People]
      /\ \A q \in Links!Passengers : /\ holder'[q].minor = holder[q].minor
                                     /\ holder'[q].parents = holder[q].parents
                                     /\ q # p => holder'[q].asked = holder[q].asked
  BY <1>1, <1>3, LinkPersonChanged DEF LinkInv
<1>5. /\ linkRequest'[h].at = step /\ linkRequest'[h].op = "sign"
      /\ linkRequest'[h].link = l /\ linkRequest'[h].minor = linkRequest[h].minor
      /\ \A k \in Http \ {h} : linkRequest'[k] = linkRequest[k]
      /\ linkRequest' \in [Http -> LinkRequests]
  BY <1>1, LinkGo, LinkRequestsStay DEF LinkInv, Links!Link
<1>6. /\ \A k \in Http : Links!Link(k)' = Links!Link(k) /\ Links!Of(k)' = Links!Of(k)
      /\ \A k \in Http : linkRequest[k].of \in Links!Passengers
      /\ \A m \in DOMAIN links : links[m].of \in Links!Passengers
      /\ Customer \in Links!Passengers
  BY <1>1, <1>5, LinkFields DEF Links!Of, Links!Link, LinkInv, LinkShapes,
      LinkRequests, Links!Passengers
<1>7. LinkShapes'
  BY <1>1, <1>4, <1>5 DEF LinkInv, LinkShapes
<1>8. LinkSteps'
  <2>1. linkRequest'[h].at \in {"mark", "enqueue"}
    BY <1>5
  <2> HIDE DEF step
  <2> QED
    BY <1>1, <1>5, <1>6, <2>1 DEF LinkInv, LinkSteps, Links!At
<1>9. LinkRecords'
  BY <1>5, <1>1, <1>4, <1>6 DEF Links!At, LinkInv, LinkRecords
<1>10. LinkAsks'
  BY <1>1, <1>5, LinkHeld, <1>4, <1>6 DEF LinkInv, LinkAsks
<1>11. \A k \in Http : (Late(k)' <=> Late(k)) /\ (Before(k)' <=> Before(k))
  BY <1>1, <1>5, <1>6 DEF Late, Before
<1>12. \A k \in Http, m \in DOMAIN links : Holds(k, m)' <=> Holds(k, m)
  BY <1>1, <1>5, <1>6 DEF Holds
<1>13. LinkUses'
  BY <1>1, <1>5, <1>6, <1>11 DEF LinkInv, LinkUses
<1>14. LinkSole'
  BY <1>1, <1>11, <1>12 DEF LinkInv, LinkSole
<1>15. LinkSpent'
  BY <1>1, <1>6, <1>11 DEF LinkInv, LinkSpent
<1>16. LinkClosed'
  BY <1>1, <1>5, <1>4, <1>6, LinkOff DEF LinkClosed, Links!At, LinkInv, Links!Link,
     Late, Before, LinkUses
<1>17. Links!OpenedStaysOpened'
  BY <1>1 DEF LinkInv, Links!OpenedStaysOpened
<1> QED
  BY <1>7, <1>8, <1>9, <1>10, <1>13, <1>14, <1>15, <1>16, <1>17 DEF LinkInv

\* A signature is refused only for the birthday, or it is a use.
LEMMA LinkSigns ==
  ASSUME LinkInv, NEW h \in Http, Links!SignEnqueues(h)
  PROVE  LinkInv'
<1> DEFINE l == Links!Link(h)
           step == IF Links!Of(h) = Customer THEN "close" ELSE "mark"
<1>1. /\ linkRequest[h].op = "sign" /\ linkRequest[h].at = "enqueue"
      /\ l \in DOMAIN links /\ Links!Of(h) = links[l].of
      /\ Late(h) /\ Before(h)
      /\ UNCHANGED <<holder, copied, links, seen, linkMet, linkBroken>>
  BY LinkHeld DEF Links!SignEnqueues, Links!At, Late, Before
<1>2. CASE Links!Missing(h) # {}
  <2>1. Links!End(h) /\ refused' = refused \cup ({l} \X Links!Missing(h)) /\ UNCHANGED used
    BY <1>2 DEF Links!SignEnqueues
  <2>2. /\ linkRequest'[h] = Links!Rest /\ \A k \in Http \ {h} : linkRequest'[k] = linkRequest[k]
        /\ linkRequest' \in [Http -> LinkRequests]
    BY <2>1, LinkEnd, LinkRequestsStay DEF LinkInv
  <2>3. <<l, "birthday">> \in refused'
    BY <1>1, <1>2, <2>1 DEF LinkInv, LinkAsks, Links!Missing
  <2>4. refused \subseteq refused'
    BY <2>1
  <2>5. LinkShapes'
    BY <1>1, <2>1, <2>2 DEF LinkInv, LinkShapes
  <2>6. LinkSteps' /\ LinkRecords' /\ LinkAsks'
    BY <1>1, <2>2, LinkEnds
  <2>7. LinkUses' /\ LinkSole'
    BY <1>1, <2>1, <2>2, LinkRest
       DEF LinkInv, LinkUses, LinkSole, Holds, Late, Before, Links!Of,
           Links!Link
  <2>8. \A k \in Http \ {h} : /\ Late(k) => Late(k)' /\ Links!Link(k)' = Links!Link(k)
                              /\ Links!At(k, "sign", "enqueue") =>
                                   Links!At(k, "sign", "enqueue")' /\ Links!Link(k)' = Links!Link(k)
    BY <2>2 DEF Late, Links!Link, Links!At
  <2>9. LinkSpent'
    BY <1>1, <2>1, <2>3, <2>4, <2>8 DEF LinkInv, LinkSpent
  <2>10. LinkClosed'
    <3> SUFFICES ASSUME NEW p \in Links!Passengers, ~holder'[p].asked
                 PROVE  \E m \in DOMAIN links' :
                          /\ links'[m].of = p
                          /\ \/ used'[m] > 0 \/ m \in linkBroken'
                             \/ <<m, "birthday">> \in refused'
                             \/ \E k \in Http : Links!At(k, "sign", "enqueue")' /\ Links!Link(k)' = m
      BY DEF LinkClosed
    <3>1. PICK m \in DOMAIN links :
            /\ links[m].of = p
            /\ \/ used[m] > 0 \/ m \in linkBroken \/ <<m, "birthday">> \in refused
               \/ \E k \in Http : Links!At(k, "sign", "enqueue") /\ Links!Link(k) = m
      BY <1>1 DEF LinkInv, LinkClosed
    <3>2. UNCHANGED <<links, used, linkBroken>>
      BY <1>1, <2>1
    <3> QED
      BY <2>3, <2>4, <2>8, <3>1, <3>2
  <2>11. Links!OpenedStaysOpened'
    BY <1>1 DEF LinkInv, Links!OpenedStaysOpened
  <2> QED
    BY <2>5, <2>6, <2>7, <2>9, <2>10, <2>11 DEF LinkInv
<1>3. CASE Links!Missing(h) = {}
  <2>1. Links!Uses(h) /\ Links!Go(h, step) /\ UNCHANGED refused
    BY <1>3 DEF Links!SignEnqueues
  <2>2. /\ linkRequest'[h].at = step /\ linkRequest'[h].op = "sign"
        /\ linkRequest'[h].link = l /\ linkRequest'[h].minor = linkRequest[h].minor
        /\ \A k \in Http \ {h} : linkRequest'[k] = linkRequest[k]
        /\ linkRequest' \in [Http -> LinkRequests]
    BY <1>1, <2>1, LinkGo, LinkRequestsStay DEF LinkInv, Links!Link
  <2>3. /\ step \in {"close", "mark"}
        /\ step = "close" => Links!Of(h) = Customer
        /\ \A k \in Http : Links!Link(k)' = Links!Link(k) /\ Links!Of(k)' = Links!Of(k)
    BY <1>1, <2>2 DEF Links!Of, Links!Link
  <2> HIDE DEF step
  <2>4. ~Before(h)'
    BY <2>2, <2>3 DEF Before, Late
  <2>5. /\ used' \in Seq(Nat) /\ Len(used') = Len(links)
        /\ LinkUses' /\ LinkSole' /\ LinkSpent' /\ LinkClosed'
    BY <1>1, <2>1, <2>2, <2>3, <2>4, LinkUsed
  <2>6. LinkShapes'
    BY <1>1, <2>2, <2>5 DEF LinkInv, LinkShapes
  <2>7. LinkSteps'
    BY <1>1, <2>2, <2>3 DEF LinkInv, LinkSteps, Links!At
  <2>8. LinkRecords'
    BY <1>1, <2>2, <2>3 DEF LinkInv, LinkRecords, Links!At
  <2>9. LinkAsks'
    BY <1>1, <2>2, <2>3 DEF LinkInv, LinkAsks
  <2>10. Links!OpenedStaysOpened'
    BY <1>1 DEF LinkInv, Links!OpenedStaysOpened
  <2> QED
    BY <2>5, <2>6, <2>7, <2>8, <2>9, <2>10 DEF LinkInv
<1> QED
  BY <1>2, <1>3

\* Another fact about a person: nothing said of it but that it is a boolean.
LEMMA LinkPersonOnly ==
  ASSUME LinkInv, NEW p \in Links!Passengers, NEW row \in People,
         holder' = [holder EXCEPT ![p] = row],
         row.parents = holder[p].parents, row.asked = holder[p].asked,
         p = Customer => ~row.minor,
         UNCHANGED <<copied, links, linkRequest, seen, used, linkMet, refused, linkBroken>>
  PROVE  LinkInv'
<1>1. /\ holder' \in [Links!Passengers -> People]
      /\ \A q \in Links!Passengers : /\ holder'[q].parents = holder[q].parents
                                     /\ holder'[q].asked = holder[q].asked
      /\ ~holder'[Customer].minor
  BY LinkPersonChanged DEF LinkInv, LinkRecords, Links!Passengers
<1>2. /\ \A k \in Http : linkRequest[k].of \in Links!Passengers
      /\ \A m \in DOMAIN links : links[m].of \in Links!Passengers
  BY LinkFields DEF LinkInv, LinkShapes, LinkRequests
<1>3. LinkShapes' /\ LinkSteps'
  BY <1>1 DEF LinkInv, LinkShapes, LinkSteps, Links!At, Links!Of, Links!Link
<1>4. LinkRecords'
  BY <1>1 DEF LinkInv, LinkRecords, Links!At
<1>5. LinkAsks'
  BY <1>1, <1>2, LinkHeld DEF LinkInv, LinkAsks, Links!Of, Links!Link
<1>6. LinkUses' /\ LinkSole' /\ LinkSpent'
  BY DEF LinkInv, LinkUses, LinkSole, LinkSpent, Holds, Late, Before,
      Links!Of, Links!Link
<1>7. LinkClosed'
  BY <1>1 DEF LinkInv, LinkClosed, Links!At, Links!Link
<1>8. Links!OpenedStaysOpened'
  BY DEF LinkInv, Links!OpenedStaysOpened
<1> QED
  BY <1>3, <1>4, <1>5, <1>6, <1>7, <1>8 DEF LinkInv

LEMMA LinkMinor ==
  ASSUME LinkInv, SideAssumption, NEW p \in Others, Links!MakeMinor(p)
  PROVE  LinkInv'
<1> DEFINE row == [holder[p] EXCEPT !.minor = TRUE]
<1>1. /\ p \in Links!Passengers /\ p # Customer /\ holder[p] \in People
      /\ holder' = [holder EXCEPT ![p] = row]
      /\ UNCHANGED <<copied, links, linkRequest, seen, used, linkMet, refused, linkBroken>>
  BY DEF Links!MakeMinor, Links!Passengers, SideAssumption, Links!history,
      LinkInv, LinkShapes
<1>2. /\ row \in People /\ row.parents = holder[p].parents
      /\ row.asked = holder[p].asked
  BY <1>1 DEF People
<1> HIDE DEF row
<1> QED
  BY <1>1, <1>2, LinkPersonOnly

\* The end of a signature, which was used before.
LEMMA LinkSigned ==
  ASSUME LinkInv, NEW h \in Http, Links!SignMarks(h)
  PROVE  LinkInv'
<1> DEFINE p == Links!Of(h)
           row == [holder[p] EXCEPT !.signed = TRUE]
<1>1. /\ linkRequest[h].op = "sign" /\ linkRequest[h].at = "mark"
      /\ Links!Link(h) \in DOMAIN links /\ p \in Links!Passengers
      /\ holder' = [holder EXCEPT ![p] = row] /\ Links!End(h)
      /\ UNCHANGED <<copied, links, seen, used, linkMet, refused, linkBroken>>
      /\ Late(h) /\ ~Before(h)
  BY LinkHeld DEF Links!SignMarks, Links!At, Links!history, Late, Before
<1>2. holder[p] \in People
  BY <1>1 DEF LinkInv, LinkShapes
<1>3. /\ row \in People /\ row.parents = holder[p].parents
      /\ row.asked = holder[p].asked /\ row.minor = holder[p].minor
  BY <1>2 DEF People
<1> HIDE DEF row
<1>4. /\ holder' \in [Links!Passengers -> People]
      /\ \A q \in Links!Passengers : /\ holder'[q].parents = holder[q].parents
                                     /\ holder'[q].asked = holder[q].asked
                                     /\ holder'[q].minor = holder[q].minor
  BY <1>1, <1>3, LinkPersonChanged DEF LinkInv
<1>5. /\ \A k \in Http : linkRequest[k].of \in Links!Passengers
      /\ \A m \in DOMAIN links : links[m].of \in Links!Passengers
      /\ Customer \in Links!Passengers
  BY LinkFields DEF LinkInv, LinkShapes, LinkRequests, Links!Passengers
<1>6. /\ linkRequest'[h] = Links!Rest /\ \A k \in Http \ {h} : linkRequest'[k] = linkRequest[k]
      /\ linkRequest' \in [Http -> LinkRequests]
  BY <1>1, LinkEnd, LinkRequestsStay DEF LinkInv
<1>7. used[Links!Link(h)] > 0
  BY <1>1 DEF LinkInv, LinkUses
<1>8. LinkShapes'
  BY <1>1, <1>4, <1>6 DEF LinkInv, LinkShapes
<1>9. LinkSteps'
  BY <1>1, <1>6, LinkRest DEF LinkInv, LinkSteps, Links!At, Links!Of,
      Links!Link
<1>10. LinkRecords'
  BY <1>1, <1>4, <1>5, <1>6, LinkRest DEF LinkInv, LinkRecords, Links!At
<1>11. LinkAsks'
  BY <1>1, <1>4, <1>5, <1>6, LinkRest, LinkHeld DEF LinkInv, LinkAsks,
      Links!Of, Links!Link
<1>12. LinkUses' /\ LinkSole'
  BY <1>1, <1>6, LinkRest DEF LinkInv, LinkUses, LinkSole, Holds, Late,
      Before, Links!Of, Links!Link
<1>13. \A k \in Http \ {h} : /\ Late(k) => Late(k)' /\ Links!Link(k)' = Links!Link(k)
                             /\ Links!At(k, "sign", "enqueue") =>
                                  Links!At(k, "sign", "enqueue")' /\ Links!Link(k)' = Links!Link(k)
  BY <1>6 DEF Late, Links!Link, Links!At
<1>14. LinkSpent'
  BY <1>1, <1>7, <1>13 DEF LinkInv, LinkSpent
<1>15. LinkClosed'
  BY <1>1, <1>4, <1>13, LinkStaysClosed DEF Links!At, LinkInv
<1>16. Links!OpenedStaysOpened'
  BY <1>1 DEF LinkInv, Links!OpenedStaysOpened
<1> QED
  BY <1>8, <1>9, <1>10, <1>11, <1>12, <1>14, <1>15, <1>16 DEF LinkInv

-----------------------------------------------------------------------------
(* Time and trouble.                                                       *)

\* A link alone changes: it is kept, or expires.
LEMMA LinkAlone ==
  ASSUME LinkInv, NEW l \in DOMAIN links, Links!KeepShort(l) \/ Links!Expire(l)
  PROVE  LinkInv'
<1> DEFINE row == IF Links!KeepShort(l) THEN [links[l] EXCEPT !.short = "kept"]
                  ELSE [links[l] EXCEPT !.token = "expired", !.short = "gone"]
<1>1. /\ links[l] \in LinkRows
      /\ UNCHANGED <<holder, copied, linkRequest, seen, used, linkMet, refused, linkBroken>>
      /\ links' = [links EXCEPT ![l] = row]
  BY LinkFields DEF LinkInv, Links!KeepShort, Links!Expire, Links!history
<1>2. /\ row \in LinkRows /\ row.token \in {links[l].token, "expired"}
      /\ row.of = links[l].of /\ row.kind = links[l].kind
      /\ row.minor = links[l].minor /\ row.requires = links[l].requires
  BY <1>1 DEF LinkRows
<1> HIDE DEF row
<1>3. /\ links' \in Seq(LinkRows) /\ Len(links') = Len(links)
      /\ DOMAIN links' = DOMAIN links
      /\ \A m \in DOMAIN links :
           /\ links'[m].of = links[m].of /\ links'[m].kind = links[m].kind
           /\ links'[m].minor = links[m].minor
           /\ links'[m].requires = links[m].requires
           /\ links'[m].token \in {links[m].token, "expired"}
  BY <1>1, <1>2, LinkShort
<1>4. LinkShapes'
  BY <1>1, <1>3 DEF LinkInv, LinkShapes
<1>5. LinkSteps'
  BY <1>1, <1>3, LinkHeld DEF LinkInv, LinkSteps, Links!At, Links!Of,
      Links!Link
<1> QED
  BY <1>1, <1>3, <1>4, <1>5, LinkQuiet

LEMMA LinkThrown ==
  ASSUME LinkInv, NEW h \in Http, Links!Throw(h)
  PROVE  LinkInv'
  BY LinkEnd, LinkRequestsStay, LinkEnds, LinkQuiet DEF Links!Throw, LinkInv,
     LinkShapes

LEMMA LinkRestarts ==
  ASSUME LinkInv, Links!Restart
  PROVE  LinkInv'
<1> DEFINE row(l) == IF links[l].short = "sending"
                     THEN [links[l] EXCEPT !.short = "gone"] ELSE links[l]
<1>1. /\ linkRequest' = [h \in Http |-> Links!Rest]
      /\ linkBroken' = linkBroken \cup {Links!Link(h) : h \in Http}
      /\ links' = [l \in DOMAIN links |-> row(l)]
      /\ UNCHANGED <<holder, copied, seen, used, linkMet, refused>>
  BY DEF Links!Restart, Links!Stop
<1>2. links \in Seq(LinkRows) /\ DOMAIN links = 1..Len(links) /\ Len(links) \in Nat
  BY DEF LinkInv, LinkShapes
<1>3. \A l \in DOMAIN links :
        /\ row(l) \in LinkRows
        /\ row(l).of = links[l].of /\ row(l).kind = links[l].kind
        /\ row(l).minor = links[l].minor /\ row(l).requires = links[l].requires
        /\ row(l).token = links[l].token
  <2> TAKE l \in DOMAIN links
  <2>1. links[l] \in LinkRows
    BY <1>2
  <2> QED
    BY <2>1 DEF LinkRows
<1> HIDE DEF row
<1>4. /\ DOMAIN links' = DOMAIN links
      /\ \A l \in DOMAIN links :
           /\ links'[l] \in LinkRows
           /\ links'[l].of = links[l].of /\ links'[l].kind = links[l].kind
           /\ links'[l].minor = links[l].minor
           /\ links'[l].requires = links[l].requires
           /\ links'[l].token = links[l].token
  BY <1>1, <1>3
<1>5. links' \in Seq(LinkRows) /\ Len(links') = Len(links)
  BY <1>1, <1>2, <1>4
<1>6. \A h \in Http : linkRequest'[h] = Links!Rest /\ Links!Link(h) \in linkBroken'
  BY <1>1
<1>7. LinkShapes'
  BY <1>1, <1>4, <1>5, LinkRest DEF LinkInv, LinkShapes
<1>8. LinkSteps'
  BY <1>6, LinkRest DEF LinkSteps, Links!At
<1>9. linkBroken \subseteq linkBroken'
  BY <1>1
<1> QED
  BY <1>1, <1>4, <1>6, <1>7, <1>8, <1>9, LinkQuiet

-----------------------------------------------------------------------------

\* Every step keeps the invariant.
LEMMA LinkNext ==
  ASSUME LinkInv, SideAssumption, Links!Next
  PROVE  LinkInv'
<1>1. ASSUME NEW h \in Http, Links!Proceed(h) PROVE LinkInv'
  BY <1>1, LinkReads, LinkRecorded, LinkAnswered, LinkGets, LinkChecks,
      LinkMarked,
     LinkPasses, LinkRevoked, LinkSaved, LinkSignReads, LinkParents,
     LinkCloses,
     LinkSigns, LinkSigned DEF Links!Proceed
<1> QED
  BY <1>1, LinkThrown, LinkBegins, LinkTaken, LinkAlone, LinkMinor,
      LinkRestarts
     DEF Links!Next

\* What is promised of the links is part of it.
LEMMA LinkPromises == LinkInv => Links!LinksConsistent /\ Links!TypeOK
  BY LinkFields DEF Links!LinkUsedOnce, LinkInv, LinkSole, Late, Links!At, LinkSpent,
     Links!SpentLinkUsed, Links!Busy, LinkClosed, Links!ClosedIsSigned, LinkRecords,
     LinkRows, Links!TypeOK, Links!LinksConsistent

\* A step that changes nothing of the links keeps it as well.
LEMMA LinkStutters ==
  ASSUME LinkInv, UNCHANGED Links!vars
  PROVE  LinkInv'
<1>1. UNCHANGED <<holder, copied, links, linkRequest, seen, used, linkMet, refused, linkBroken>>
  BY DEF Links!vars
<1>2. LinkShapes' /\ LinkSteps'
  BY <1>1 DEF LinkInv, LinkShapes, LinkSteps, Links!At, Links!Of, Links!Link
<1>3. LinkRecords' /\ LinkAsks'
  BY <1>1 DEF LinkInv, LinkRecords, LinkAsks, Links!At, Links!Of, Links!Link
<1>4. LinkUses' /\ LinkSole'
  BY <1>1 DEF LinkInv, LinkUses, LinkSole, Holds, Late, Before, Links!Of,
      Links!Link
<1>5. LinkSpent' /\ LinkClosed' /\ Links!OpenedStaysOpened'
  BY <1>1 DEF LinkInv, LinkSpent, LinkClosed, Links!OpenedStaysOpened, Late,
      Links!At, Links!Link
<1> QED
  BY <1>2, <1>3, <1>4, <1>5 DEF LinkInv

\* A behaviour of the links stays one.
LEMMA LinksMove ==
  ASSUME [Next]_vars, moving = "links"
  PROVE  moving' = "links" /\ [Links!Next]_(Links!vars)
  BY DEF vars, linkVars, Links!vars, Next, MoveAccounts, MoveDiscrepancies,
     MoveAssignments, MoveLinks, MoveViews, MovePartners, MoveLetters, MoveCompensation,
     MovePayments, MoveAirports

LEMMA LinksInvariant == Spec => [](moving = "links" => LinkInv)
<1> DEFINE Inv == moving = "links" => LinkInv
<1>1. Init => Inv
  BY LinkInit DEF Init
<1>2. Inv /\ [Next]_vars => Inv'
  BY LinksMove, LinkNext, LinkStutters, SideAssumption DEF Next, vars, MoveAccounts,
     MoveDiscrepancies, MoveAssignments, MoveLinks, MoveViews, MovePartners, MoveLetters,
     MoveCompensation, MovePayments, MoveAirports
<1> QED
  BY <1>1, <1>2, PTL DEF Spec

\* Whatever the requests, however interleaved, stopped or thrown: a link leads to
\* one signature or upload unless two requests met on it, what is spent or off
\* the list has a reason, and what was opened stays noted as opened
\* (public-other-passenger.controller.ts, generate-links.controller.ts).
THEOREM SpecLinksConsistent == Spec => []LinksConsistent
<1>1. (moving = "links" => LinkInv) => LinksConsistent
  BY LinkPromises DEF LinksConsistent
<1> QED
  BY <1>1, LinksInvariant, PTL

-----------------------------------------------------------------------------
(* Discrepancies.                                                          *)

LEMMA HubRest ==
  /\ Hub!Rest \in HubTasks /\ Hub!Rest.op = "none" /\ Hub!Rest.at = "rest" /\ Hub!Rest.beside = {}
  BY DEF Hub!Rest, HubTasks, Hub!NoDocument

\* The tasks of an upload are none of staff's.
LEMMA HubKeys ==
  ASSUME SideAssumption
  PROVE  /\ \A d \in 1..(Limit - 1), kind \in Hub!Kinds :
              /\ <<d, kind>> \in Hub!Tasks \ Http
              /\ Hub!Doc(<<d, kind>>) = d /\ <<d, kind>>[2] = kind
         /\ \A k \in Hub!Tasks \ Http :
              /\ Hub!Doc(k) \in 1..(Limit - 1) /\ k[2] \in Hub!Kinds /\ k = <<Hub!Doc(k), k[2]>>
         /\ Http \subseteq Hub!Tasks /\ (Limit - 1) \in Int
  BY DEF SideAssumption, Hub!Tasks, Hub!Doc

LEMMA HubFields ==
  ASSUME HubShapes
  PROVE  /\ \A d \in DOMAIN docs : docs[d] \in HubDocs /\ d \in Nat \ {0} /\ d <= (Limit - 1)
         /\ \A n \in DOMAIN rows : rows[n] \in HubRows /\ n \in Nat \ {0}
         /\ \A k \in Hub!Tasks : task[k] \in HubTasks
         /\ DOMAIN docs = 1..Len(docs) /\ Len(docs) \in Nat
         /\ DOMAIN rows = 1..Len(rows) /\ Len(rows) \in Nat
  BY HubKeys, SideAssumption DEF HubShapes

\* Tasks go on or end, and come to no document that was removed.
LEMMA HubSame ==
  ASSUME HubInv, HubShapes', HubSteps', rows' = rows, HubAlike,
         \A k \in Hub!Tasks :
           \/ task'[k] = Hub!Rest
           \/ /\ task'[k].op = task[k].op /\ task'[k].beside = task[k].beside
              /\ task[k].op = "remove" => task'[k] = task[k],
         \A k \in Hub!Tasks, d \in DOMAIN docs :
           HubFirst(k, d)' => HubFirst(k, d) \/ docs[d].live,
         SideAssumption
  PROVE  /\ HubAbout' /\ HubMeets' /\ HubCloses' /\ HubOwn'
         /\ Hub!ActiveRowsLive' /\ HubNamed'
<1>1. HubAbout' /\ HubMeets' /\ HubCloses' /\ Hub!ActiveRowsLive'
  BY HubKeys, HubRest DEF HubInv, HubAbout, HubDoc, HubAlike, Hub!Leaving, HubFirst,
     HubMeets, HubCloses, Hub!At, Hub!ActiveRowsLive
<1>2. HubOwn'
  BY DEF HubInv, HubOwn, HubAlike
<1>3. HubNamed'
  BY DEF HubInv, HubNamed, HubNames, HubAlike, HubAbout, HubDoc, Hub!Signatures
<1> QED
  BY <1>1, <1>2, <1>3

\* An assignment stays compared, or a task of it that ends has a reason.
LEMMA HubPairs ==
  ASSUME HubInv, HubAlike, failed \subseteq failed',
         \A n \in Hub!Signatures : n \in Hub!Signatures' /\ rows'[n].docs = rows[n].docs,
         \A a \in DOMAIN docs :
           task'[<<a, "pair">>] = Hub!Rest =>
             \/ task[<<a, "pair">>] = Hub!Rest
             \/ a \in failed'
             \/ \A p \in Hub!Live("PASSPORT") : docs[p].passenger # docs[a].sentFor
             \/ \E n \in Hub!Signatures' : rows'[n].docs[1] = a
  PROVE  Hub!PairsCompared'
  BY DEF HubAlike, Hub!Live, Hub!PairsCompared, HubInv, HubOwn

LEMMA HubInit == Hub!Init => HubInv
  BY HubRest, HubKeys, SideAssumption DEF Hub!Init, HubShapes, SideAssumption,
     HubAbout, HubSteps, HubStep, HubMeets, HubCloses, HubFirst, Hub!At,
     Hub!ActiveRowsLive, HubOwn, HubNamed, Hub!PairsCompared, Hub!Signatures,
     Hub!Live, HubInv

\* A task changes alone.
LEMMA HubTaskChanged ==
  ASSUME HubShapes, NEW k \in Hub!Tasks, NEW new \in HubTasks,
         task' = [task EXCEPT ![k] = new]
  PROVE  /\ task' \in [Hub!Tasks -> HubTasks] /\ task'[k] = new
         /\ \A j \in Hub!Tasks \ {k} : task'[j] = task[j]
  BY DEF HubShapes

LEMMA HubEnd ==
  ASSUME HubShapes, NEW k \in Hub!Tasks, Hub!End(k)
  PROVE  /\ task' \in [Hub!Tasks -> HubTasks] /\ task'[k] = Hub!Rest
         /\ \A j \in Hub!Tasks \ {k} : task'[j] = task[j]
  BY HubTaskChanged, HubRest DEF Hub!End

LEMMA HubGo ==
  ASSUME HubShapes, NEW k \in Hub!Tasks,
         NEW step \in {"read", "row", "signPassport", "signAssignment", "document"},
         Hub!Go(k, step)
  PROVE  /\ task' \in [Hub!Tasks -> HubTasks]
         /\ task'[k].at = step /\ task'[k].op = task[k].op
         /\ task'[k].row = task[k].row /\ task'[k].passport = task[k].passport
         /\ task'[k].assignment = task[k].assignment
         /\ task'[k].score = task[k].score /\ task'[k].beside = task[k].beside
         /\ \A j \in Hub!Tasks \ {k} : task'[j] = task[j]
<1> DEFINE new == [task[k] EXCEPT !.at = step]
<1>1. task[k] \in HubTasks
  BY DEF HubShapes
<1>2. /\ new \in HubTasks /\ new.at = step /\ new.op = task[k].op
      /\ new.row = task[k].row /\ new.passport = task[k].passport
      /\ new.assignment = task[k].assignment
      /\ new.score = task[k].score /\ new.beside = task[k].beside
  BY <1>1 DEF HubTasks
<1>3. task' = [task EXCEPT ![k] = new]
  BY DEF Hub!Go
<1> HIDE DEF new
<1> QED
  BY <1>2, <1>3, HubTaskChanged

\* The tasks that stay where they are, and those that rest, are in order
\* as long as the documents are alike.
LEMMA HubOrder ==
  ASSUME HubInv, HubAlike, rows' = rows, failed \subseteq failed',
         NEW k \in Hub!Tasks, task'[k] = task[k] \/ task'[k] = Hub!Rest
  PROVE  HubStep(k)'
  BY HubRest DEF HubStep, Hub!Signatures, HubInv, HubSteps, HubDoc, HubAlike

\* A task that ends, or throws, with what it leaves behind.
LEMMA HubEnds ==
  ASSUME HubInv, SideAssumption, rows' = rows, HubAlike, failed \subseteq failed',
         docs' \in Seq(HubDocs), Len(docs') = Len(docs),
         failed' \subseteq DOMAIN docs, task' \in [Hub!Tasks -> HubTasks],
         \A k \in Hub!Tasks : task'[k] = task[k] \/ task'[k] = Hub!Rest,
         \A a \in DOMAIN docs :
           task'[<<a, "pair">>] = Hub!Rest =>
             \/ task[<<a, "pair">>] = Hub!Rest
             \/ a \in failed'
             \/ \A p \in Hub!Live("PASSPORT") : docs[p].passenger # docs[a].sentFor
  PROVE  HubInv'
  BY HubOrder, HubRest, HubSame, HubPairs DEF HubInv, HubShapes, HubAlike, HubSteps,
     HubFirst, Hub!Signatures

LEMMA HubPairKey ==
  ASSUME HubInv, SideAssumption, NEW a \in DOMAIN docs
  PROVE  /\ <<a, "pair">> \in Hub!Tasks \ Http
         /\ Hub!Doc(<<a, "pair">>) = a /\ <<a, "pair">>[2] = "pair"
<1>1. a \in 1..(Limit - 1)
  BY HubFields, HubKeys DEF HubInv
<1>2. "pair" \in Hub!Kinds
  BY DEF Hub!Kinds
<1> QED
  BY <1>1, <1>2, HubKeys

\* A task that goes on.
LEMMA HubGoes ==
  ASSUME HubInv, SideAssumption, rows' = rows, HubAlike, failed \subseteq failed',
         docs' \in Seq(HubDocs), Len(docs') = Len(docs),
         failed' \subseteq DOMAIN docs, task' \in [Hub!Tasks -> HubTasks],
         NEW k \in Hub!Tasks, \A j \in Hub!Tasks \ {k} : task'[j] = task[j],
         task'[k].op = task[k].op, task'[k].beside = task[k].beside,
         task[k].op \notin {"none", "remove"}, HubStep(k)',
         \A d \in DOMAIN docs : HubFirst(k, d)' => HubFirst(k, d) \/ docs[d].live
  PROVE  HubInv'
<1>1. HubShapes'
  BY DEF HubInv, HubShapes, HubAlike
<1>2. HubSteps'
  BY HubOrder DEF HubSteps
<1>3. \A j \in Hub!Tasks, d \in DOMAIN docs :
        HubFirst(j, d)' => HubFirst(j, d) \/ docs[d].live
  BY DEF HubFirst
<1>4. /\ HubAbout' /\ HubMeets' /\ HubCloses' /\ HubOwn'
      /\ Hub!ActiveRowsLive' /\ HubNamed'
  BY <1>1, <1>2, <1>3, HubSame
<1>5. Hub!PairsCompared'
  BY HubPairKey, HubRest, HubPairs DEF Hub!Signatures
<1> QED
  BY <1>1, <1>2, <1>4, <1>5 DEF HubInv

-----------------------------------------------------------------------------
(* The tasks of an upload.                                                 *)

\* A set of numbers up to n has a greatest one: else the numbers up to one of them
\* would be mapped into themselves by the successor, one to one and without
\* reaching 0, which no finite set allows.
LEMMA Greatest ==
  ASSUME NEW n \in Nat, NEW T \in SUBSET (1..n), T # {}
  PROVE  \E d \in T : \A e \in T : e <= d
<1> SUFFICES ASSUME \A d \in T : \E e \in T : ~(e <= d)
             PROVE  FALSE
  OBVIOUS
<1> DEFINE D == {m \in 0..n : \E e \in T : m <= e}
           next == [m \in D |-> m + 1]
<1>1. IsFiniteSet(D)
  <2>1. IsFiniteSet(0..n) /\ D \in SUBSET (0..n)
    BY FS_Interval
  <2> QED
    BY <2>1, FS_Subset
<1>2. \A m \in D : m \in Nat /\ m + 1 \in D
  OBVIOUS
<1>3. 0 \in D
  <2>1. PICK e \in T : TRUE
    OBVIOUS
  <2>2. e \in 1..n
    OBVIOUS
  <2> QED
    BY <2>2
<1> HIDE DEF D
<1>4. next \in Injection(D, D)
  <2>1. next \in [D -> D]
    BY <1>2
  <2>2. \A a, b \in D : next[a] = next[b] => a = b
    BY <1>2
  <2> HIDE DEF next
  <2> QED
    BY <2>1, <2>2 DEF Injection, IsInjective
<1>5. next \in Surjection(D, D)
  BY <1>1, <1>4, FS_Injection
<1>6. PICK m \in D : next[m] = 0
  BY <1>3, <1>5 DEF Surjection
<1> QED
  BY <1>2, <1>6

\* The latest document of a type, where there is one, is one of the claim.
LEMMA HubLatest ==
  ASSUME HubShapes, NEW type \in Hub!Types, Hub!Latest(type) # Hub!NoDocument
  PROVE  /\ Hub!Latest(type) \in DOMAIN docs /\ docs[Hub!Latest(type)].live
         /\ HubDoc(Hub!Latest(type), type)
  BY HubFields, Greatest DEF Hub!Latest, Hub!Live, HubDoc

\* Which task is the one that compares an assignment.
LEMMA HubPairOf ==
  ASSUME HubInv, SideAssumption
  PROVE  \A a \in DOMAIN docs, k \in Hub!Tasks :
           /\ <<a, "pair">> \in Hub!Tasks \ Http /\ Hub!Doc(<<a, "pair">>) = a
           /\ k = <<a, "pair">> /\ task[k] # Hub!Rest => task[k].op = "pair" /\ Hub!Doc(k) = a
  BY HubPairKey DEF HubInv, HubSteps, HubStep

LEMMA HubRefreshReads ==
  ASSUME HubInv, SideAssumption, NEW k \in Hub!Tasks, Hub!RefreshReads(k)
  PROVE  HubInv'
<1>1. /\ task[k].op = "refresh" /\ task[k].at = "read"
      /\ UNCHANGED <<docs, rows, failed>> /\ HubAlike
      /\ docs \in Seq(HubDocs) /\ failed \subseteq DOMAIN docs
      /\ task[k] \in HubTasks
  BY DEF Hub!RefreshReads, Hub!At, HubAlike, HubInv, HubShapes
<1>2. CASE Hub!End(k)
  BY <1>2, HubEnd, <1>1, HubPairOf, HubRest, HubEnds DEF HubInv
<1>3. CASE ~Hub!End(k)
  <2> DEFINE passport == Hub!Latest("PASSPORT")
             assignment == Hub!Latest("ASSIGNMENT")
             new == [task[k] EXCEPT !.at = "row", !.row = Hub!RowFor(k),
                                    !.passport = passport, !.assignment = assignment]
  <2>1. /\ Hub!RowFor(k) \in Hub!Signatures
        /\ passport # Hub!NoDocument /\ assignment # Hub!NoDocument
        /\ task' = [task EXCEPT ![k] = new]
    BY <1>3 DEF Hub!RefreshReads
  <2>2. /\ passport \in DOMAIN docs /\ docs[passport].live
        /\ HubDoc(passport, "PASSPORT") /\ HubDoc(assignment, "ASSIGNMENT")
        /\ passport \in Nat /\ assignment \in Nat
    BY <2>1, HubLatest, HubFields DEF HubInv, Hub!Types, Hub!Compared
  <2>3. Hub!RowFor(k) \in DOMAIN rows /\ Hub!RowFor(k) \in Nat
    BY <2>1, HubFields DEF Hub!Signatures, HubInv
  <2>4. /\ new \in HubTasks /\ new.op = "refresh" /\ new.at = "row"
        /\ new.row = Hub!RowFor(k) /\ new.passport = passport
        /\ new.assignment = assignment /\ new.beside = task[k].beside
    BY <1>1, <2>2, <2>3 DEF HubTasks
  <2> HIDE DEF new
  <2>5. /\ task' \in [Hub!Tasks -> HubTasks] /\ task'[k] = new
        /\ \A j \in Hub!Tasks \ {k} : task'[j] = task[j]
    BY <2>1, <2>4, HubTaskChanged DEF HubInv
  <2>6. HubStep(k)'
    <3>1. Hub!Signatures' = Hub!Signatures /\ UNCHANGED <<docs, rows>>
      BY <1>1 DEF Hub!Signatures
    <3>2. k \notin Http => k[2] = "refresh" /\ Hub!Doc(k) \in DOMAIN docs
      BY <1>1 DEF HubInv, HubSteps, HubStep
    <3> HIDE DEF passport, assignment
    <3> QED
      BY <1>1, <2>1, <2>2, <2>3, <2>4, <2>5, <3>1, <3>2 DEF HubStep, HubDoc
  <2>7. \A d \in DOMAIN docs : HubFirst(k, d)' => docs[d].live
    <3> HIDE DEF passport, assignment
    <3> QED
      BY <2>2, <2>4, <2>5 DEF HubFirst
  <2> QED
    BY <1>1, <2>4, <2>5, <2>6, <2>7, HubGoes
<1> QED
  BY <1>2, <1>3

LEMMA HubPairReads ==
  ASSUME HubInv, SideAssumption, NEW k \in Hub!Tasks, Hub!PairReads(k)
  PROVE  HubInv'
<1>1. /\ task[k].op = "pair" /\ task[k].at = "read"
      /\ UNCHANGED <<docs, rows>> /\ HubAlike
      /\ docs \in Seq(HubDocs) /\ failed \subseteq DOMAIN docs
      /\ task[k] \in HubTasks
      /\ HubDoc(Hub!Doc(k), "ASSIGNMENT") /\ k \notin Http /\ k[2] = "pair"
      /\ Hub!Doc(k) \in DOMAIN docs
  BY DEF Hub!PairReads, Hub!At, HubAlike, HubInv, HubShapes, HubSteps, HubStep
<1>2. CASE Hub!PassportsFor(Hub!Doc(k)) = {}
  BY <1>2, HubEnd, HubPairOf, <1>1, HubEnds DEF Hub!PairReads, HubInv,
     Hub!PassportsFor
<1>3. CASE Hub!PassportsFor(Hub!Doc(k)) # {}
  <2>1. PICK p \in Hub!PassportsFor(Hub!Doc(k)), score \in BOOLEAN, picture \in BOOLEAN :
          /\ task' = [task EXCEPT ![k].at = IF picture THEN "signPassport"
                                                       ELSE "signAssignment",
                                  ![k].passport = p, ![k].score = score]
          /\ failed' = IF score THEN failed ELSE failed \cup {Hub!Doc(k)}
    BY <1>3 DEF Hub!PairReads
  <2> DEFINE step == IF picture THEN "signPassport" ELSE "signAssignment"
             new == [task[k] EXCEPT !.at = step, !.passport = p, !.score = score]
  <2>2. /\ HubDoc(p, "PASSPORT") /\ p \in Nat
        /\ docs[p].sentFor = docs[Hub!Doc(k)].sentFor \/ docs[p].edited
    BY HubFields DEF Hub!PassportsFor, Hub!Live, HubDoc, HubInv, HubOwn
  <2>3. /\ new \in HubTasks /\ new.op = "pair" /\ new.at \in {"signPassport", "signAssignment"}
        /\ new.passport = p /\ new.score = score /\ new.beside = task[k].beside
    BY <1>1, <2>2 DEF HubTasks
  <2>4. task' = [task EXCEPT ![k] = new]
    BY <2>1
  <2> HIDE DEF new
  <2>5. /\ task' \in [Hub!Tasks -> HubTasks] /\ task'[k] = new
        /\ \A j \in Hub!Tasks \ {k} : task'[j] = task[j]
    BY <2>3, <2>4, HubTaskChanged DEF HubInv
  <2>6. /\ failed \subseteq failed' /\ failed' \subseteq DOMAIN docs
        /\ ~score => Hub!Doc(k) \in failed'
    BY <1>1, <2>1
  <2>7. HubStep(k)'
    BY <1>1, <2>2, <2>3, <2>5, <2>6 DEF HubStep, HubDoc
  <2>8. \A d \in DOMAIN docs : HubFirst(k, d)' => HubFirst(k, d)
    BY <1>1, <2>3, <2>5 DEF HubFirst
  <2> QED
    BY <1>1, <2>3, <2>5, <2>6, <2>7, <2>8, HubGoes
<1> QED
  BY <1>2, <1>3

\* The signature found on a document leaves the documents alike.
LEMMA HubSigned ==
  ASSUME HubInv, NEW d \in DOMAIN docs, Hub!Signed(d)
  PROVE  docs' \in Seq(HubDocs) /\ Len(docs') = Len(docs) /\ HubAlike
<1> DEFINE new == [docs[d] EXCEPT !.signed = TRUE]
<1>1. docs[d] \in HubDocs /\ docs \in Seq(HubDocs)
  BY HubFields DEF HubInv, HubShapes
<1>2. /\ new \in HubDocs /\ new.type = docs[d].type
      /\ new.passenger = docs[d].passenger /\ new.live = docs[d].live
      /\ new.sentFor = docs[d].sentFor /\ new.edited = docs[d].edited
  BY <1>1 DEF HubDocs
<1>3. docs' = [docs EXCEPT ![d] = new]
  BY DEF Hub!Signed
<1> HIDE DEF new
<1>4. /\ docs' \in Seq(HubDocs) /\ Len(docs') = Len(docs)
      /\ DOMAIN docs' = DOMAIN docs /\ docs'[d] = new
      /\ \A e \in DOMAIN docs \ {d} : docs'[e] = docs[e]
  BY <1>1, <1>2, <1>3
<1> QED
  BY <1>2, <1>4 DEF HubAlike

LEMMA HubPairSigns ==
  ASSUME HubInv, SideAssumption, NEW k \in Hub!Tasks,
         Hub!PairSignsPassport(k) \/ Hub!PairSignsAssignment(k)
  PROVE  HubInv'
<1>1. /\ task[k].op = "pair" /\ task[k].at \in {"signPassport", "signAssignment"}
      /\ UNCHANGED <<rows, failed>>
      /\ failed \subseteq DOMAIN docs
      /\ task[k] \in HubTasks
      /\ HubDoc(Hub!Doc(k), "ASSIGNMENT") /\ k \notin Http /\ k[2] = "pair"
      /\ HubDoc(task[k].passport, "PASSPORT")
      /\ \/ docs[task[k].passport].sentFor = docs[Hub!Doc(k)].sentFor
         \/ docs[task[k].passport].edited
      /\ ~task[k].score => Hub!Doc(k) \in failed
  BY DEF Hub!PairSignsPassport, Hub!PairSignsAssignment, Hub!At, HubInv,
      HubShapes, HubSteps, HubStep
<1>2. \E d \in DOMAIN docs : Hub!Signed(d)
  BY <1>1 DEF Hub!PairSignsPassport, Hub!PairSignsAssignment, HubDoc
<1>3. docs' \in Seq(HubDocs) /\ Len(docs') = Len(docs) /\ HubAlike
  BY <1>2, HubSigned
<1>4. CASE Hub!End(k) /\ ~task[k].score
  BY <1>4, HubEnd, <1>1, HubPairOf, <1>3, HubEnds DEF HubInv
<1>5. ASSUME NEW step \in {"signAssignment", "row"}, Hub!Go(k, step),
             step = "row" => task[k].score
      PROVE  HubInv'
  <2>1. /\ task' \in [Hub!Tasks -> HubTasks]
        /\ task'[k].at = step /\ task'[k].op = "pair"
        /\ task'[k].passport = task[k].passport
        /\ task'[k].score = task[k].score /\ task'[k].beside = task[k].beside
        /\ \A j \in Hub!Tasks \ {k} : task'[j] = task[j]
    BY <1>1, <1>5, HubGo DEF HubInv
  <2>2. HubStep(k)'
    BY <1>1, <1>3, <1>5, <2>1 DEF HubStep, HubDoc, HubAlike
  <2>3. \A d \in DOMAIN docs : HubFirst(k, d)' => HubFirst(k, d)
    BY <1>1, <2>1 DEF HubFirst
  <2> QED
    BY <1>1, <1>3, <2>1, <2>2, <2>3, HubGoes
<1> QED
  BY <1>4, <1>5 DEF Hub!PairSignsPassport, Hub!PairSignsAssignment

-----------------------------------------------------------------------------
(* Rows are added.                                                         *)

\* A row more, of the documents and the passenger its task says, and the task
\* ends or saves another.
LEMMA HubRowAdded ==
  ASSUME HubInv, SideAssumption, UNCHANGED <<docs, failed>>,
         NEW k \in Hub!Tasks, NEW row \in HubRows, rows' = Append(rows, row),
         task[k].op \in {"refresh", "names", "pair"},
         task' \in [Hub!Tasks -> HubTasks], \A j \in Hub!Tasks \ {k} : task'[j] = task[j],
         \/ task'[k] = Hub!Rest
         \/ /\ task[k].op = "names" /\ task'[k].op = "names" /\ task'[k].at = task[k].at
            /\ task'[k].beside = task[k].beside,
         \/ /\ row.type = "PASSENGER" /\ Len(row.docs) = 1
            /\ HubDoc(row.docs[1], "PASSPORT")
         \/ /\ row.type = "SIGNATURE" /\ Len(row.docs) = 2
            /\ \/ HubDoc(row.docs[1], "PASSPORT") /\ HubDoc(row.docs[2], "ASSIGNMENT")
               \/ HubDoc(row.docs[1], "ASSIGNMENT") /\ HubDoc(row.docs[2], "PASSPORT"),
         HubFirst(k, row.docs[1]), row.met <=> row.docs[1] \in task[k].beside,
         task[k].op = "pair" => row.type = "SIGNATURE" /\ row.docs[1] = Hub!Doc(k),
         \E d \in DOMAIN docs : docs[d].sentFor = row.passenger,
         row.type = "SIGNATURE" => HubNames(row)
  PROVE  HubInv'
<1> DEFINE n == Len(rows) + 1
<1>1. rows \in Seq(HubRows)
  BY DEF HubInv, HubShapes
<1>2. /\ rows' \in Seq(HubRows) /\ Len(rows) \in Nat
      /\ DOMAIN rows = 1..Len(rows) /\ DOMAIN rows' = 1..(Len(rows) + 1)
      /\ \A i \in 1..Len(rows) : rows'[i] = rows[i]
      /\ rows'[Len(rows) + 1] = row
  BY <1>1
<1>3. /\ n \notin DOMAIN rows /\ DOMAIN rows' = DOMAIN rows \cup {n}
      /\ \A i \in DOMAIN rows : rows'[i] = rows[i]
      /\ rows'[n] = row
  BY <1>2
<1> HIDE DEF n
<1>4. HubAlike
  BY DEF HubAlike
<1>5. HubShapes'
  BY <1>2 DEF HubInv, HubShapes
<1>6. HubAbout'
  BY <1>3 DEF HubInv, HubAbout, HubDoc
<1>7. Hub!Signatures \subseteq Hub!Signatures' /\ Hub!Signatures' \subseteq Hub!Signatures \cup {n}
  BY <1>3 DEF Hub!Signatures
<1>8. /\ \A j \in Hub!Tasks : task'[j].op # "none" /\ task'[j].op # "names" =>
                           task'[j] = task[j]
      /\ \A j \in Hub!Tasks : task'[j].op = "names" =>
           /\ task[j].op = "names" /\ task'[j].at = task[j].at
           /\ task'[j].beside = task[j].beside
      /\ \A j \in Hub!Tasks : task'[j].op = "none" /\ task[j].op = "none" => task'[j] = task[j]
  BY HubRest
<1>9. HubSteps'
  BY HubRest, <1>3, <1>7 DEF HubSteps, HubInv, HubStep, HubDoc
<1>10. \A h \in Http : /\ h \in Hub!Tasks
                       /\ task'[h].op = "remove" => task'[h] = task[h]
  BY <1>8, HubKeys
<1>11. Hub!Leaving' \subseteq Hub!Leaving
  BY <1>10 DEF Hub!Leaving
<1>12. HubMeets'
  BY <1>8, <1>11 DEF HubFirst, HubInv, HubMeets
<1>13. row.docs[1] \in DOMAIN docs
  BY DEF HubDoc
<1>14. HubCloses'
  BY <1>10, <1>3 DEF HubCloses, Hub!At, HubInv, Hub!Leaving, HubMeets
<1>15. Hub!ActiveRowsLive'
  BY <1>13, <1>3 DEF HubInv, HubMeets, Hub!ActiveRowsLive
<1>16. HubOwn' /\ HubNamed'
  BY <1>3, <1>7 DEF HubOwn, HubNamed, HubNames, HubInv, Hub!Signatures
<1>17. Hub!PairsCompared'
  BY HubPairKey, <1>3, <1>7, HubRest, HubPairOf, <1>4, HubPairs DEF Hub!Signatures
<1> QED
  BY <1>5, <1>6, <1>9, <1>12, <1>14, <1>15, <1>16, <1>17 DEF HubInv

\* A document is sent for the passenger of a row, or the claim has documents
\* sent for several.
LEMMA HubSeveral ==
  ASSUME HubInv, NEW n \in DOMAIN rows, NEW d \in DOMAIN docs,
         docs[d].sentFor # rows[n].passenger
  PROVE  \E e, f \in DOMAIN docs : docs[e].sentFor # docs[f].sentFor
  BY DEF HubInv, HubOwn

LEMMA HubRefreshSaves ==
  ASSUME HubInv, SideAssumption, NEW k \in Hub!Tasks, Hub!RefreshSaves(k)
  PROVE  HubInv'
<1> DEFINE about == <<task[k].passport, task[k].assignment>>
           met == task[k].passport \in task[k].beside
           row == [type |-> "SIGNATURE", docs |-> about,
                   passenger |-> rows[task[k].row].passenger, active |-> TRUE,
                   by |-> task[k].op, met |-> met]
<1>1. /\ task[k].op = "refresh" /\ task[k].at = "row" /\ Hub!End(k)
      /\ UNCHANGED <<docs, failed>> /\ rows' = Append(rows, row)
      /\ task[k].row \in Hub!Signatures
      /\ HubDoc(task[k].passport, "PASSPORT") /\ HubDoc(task[k].assignment, "ASSIGNMENT")
  BY DEF Hub!RefreshSaves, Hub!SaveRow, Hub!At, HubInv, HubSteps, HubStep
<1>2. /\ task[k].passport \in Nat /\ task[k].assignment \in Nat
      /\ task[k].row \in DOMAIN rows /\ rows[task[k].row].passenger \in Travellers
  BY <1>1, HubFields DEF HubInv, HubDoc, Hub!Signatures, HubRows
<1>3. /\ row \in HubRows /\ row.type = "SIGNATURE" /\ Len(row.docs) = 2
      /\ row.docs[1] = task[k].passport /\ row.docs[2] = task[k].assignment
      /\ row.passenger = rows[task[k].row].passenger /\ row.by = "refresh"
      /\ row.met <=> task[k].passport \in task[k].beside
  <2>1. /\ about \in Seq(Nat) /\ Len(about) = 2
        /\ about[1] = task[k].passport /\ about[2] = task[k].assignment
    BY <1>2
  <2>2. met \in BOOLEAN /\ (met <=> task[k].passport \in task[k].beside)
    OBVIOUS
  <2> HIDE DEF about, met
  <2> QED
    BY <1>1, <1>2, <2>1, <2>2 DEF HubRows
<1> HIDE DEF row
<1>4. /\ task' \in [Hub!Tasks -> HubTasks] /\ task'[k] = Hub!Rest
      /\ \A j \in Hub!Tasks \ {k} : task'[j] = task[j]
  BY <1>1, HubEnd DEF HubInv
<1>5. /\ HubNames(row)
      /\ \E d \in DOMAIN docs : docs[d].sentFor = row.passenger
  BY <1>1, <1>2, <1>3, HubSeveral DEF HubDoc, HubNames, HubInv, HubOwn
<1>6. HubFirst(k, row.docs[1])
  BY <1>1, <1>3 DEF HubFirst
<1> QED
  BY <1>1, <1>3, <1>4, <1>5, <1>6, HubRowAdded

LEMMA HubPairSaves ==
  ASSUME HubInv, SideAssumption, NEW k \in Hub!Tasks, Hub!PairSaves(k)
  PROVE  HubInv'
<1> DEFINE about == <<Hub!Doc(k), task[k].passport>>
           met == Hub!Doc(k) \in task[k].beside
           row == [type |-> "SIGNATURE", docs |-> about,
                   passenger |-> docs[Hub!Doc(k)].sentFor, active |-> TRUE,
                   by |-> task[k].op, met |-> met]
<1>1. /\ task[k].op = "pair" /\ task[k].at = "row" /\ Hub!End(k)
      /\ UNCHANGED <<docs, failed>> /\ rows' = Append(rows, row)
      /\ HubDoc(Hub!Doc(k), "ASSIGNMENT") /\ HubDoc(task[k].passport, "PASSPORT")
      /\ \/ docs[task[k].passport].sentFor = docs[Hub!Doc(k)].sentFor
         \/ docs[task[k].passport].edited
  BY DEF Hub!PairSaves, Hub!SaveRow, Hub!At, HubInv, HubSteps, HubStep
<1>2. /\ Hub!Doc(k) \in Nat /\ task[k].passport \in Nat
      /\ docs[Hub!Doc(k)].sentFor \in Travellers
  BY <1>1, HubFields DEF HubInv, HubDoc, HubDocs
<1>3. /\ row \in HubRows /\ row.type = "SIGNATURE" /\ Len(row.docs) = 2
      /\ row.docs[1] = Hub!Doc(k) /\ row.docs[2] = task[k].passport
      /\ row.passenger = docs[Hub!Doc(k)].sentFor
      /\ row.met <=> Hub!Doc(k) \in task[k].beside
  <2>1. /\ about \in Seq(Nat) /\ Len(about) = 2
        /\ about[1] = Hub!Doc(k) /\ about[2] = task[k].passport
    BY <1>2
  <2>2. met \in BOOLEAN /\ (met <=> Hub!Doc(k) \in task[k].beside)
    OBVIOUS
  <2> HIDE DEF about, met
  <2> QED
    BY <1>1, <1>2, <2>1, <2>2 DEF HubRows
<1> HIDE DEF row
<1>4. /\ task' \in [Hub!Tasks -> HubTasks] /\ task'[k] = Hub!Rest
      /\ \A j \in Hub!Tasks \ {k} : task'[j] = task[j]
  BY <1>1, HubEnd DEF HubInv
<1>5. /\ HubNames(row)
      /\ \E d \in DOMAIN docs : docs[d].sentFor = row.passenger
  BY <1>1, <1>3 DEF HubNames, HubDoc
<1>6. HubFirst(k, row.docs[1])
  BY <1>1, <1>3 DEF HubFirst
<1> QED
  BY <1>1, <1>3, <1>4, <1>5, <1>6, HubRowAdded

LEMMA HubNamesSaves ==
  ASSUME HubInv, SideAssumption, NEW k \in Hub!Tasks, Hub!NamesSaves(k)
  PROVE  HubInv'
<1> DEFINE about == <<Hub!Doc(k)>>
           met == Hub!Doc(k) \in task[k].beside
           row == [type |-> "PASSENGER", docs |-> about,
                   passenger |-> docs[Hub!Doc(k)].sentFor, active |-> TRUE,
                   by |-> task[k].op, met |-> met]
           new == [task[k] EXCEPT !.row = @ + 1]
<1>1. /\ task[k].op = "names" /\ task[k].at = "read" /\ UNCHANGED <<docs, failed>>
      /\ HubDoc(Hub!Doc(k), "PASSPORT") /\ task[k] \in HubTasks
      /\ docs \in Seq(HubDocs) /\ failed \subseteq DOMAIN docs
  BY DEF Hub!NamesSaves, Hub!At, HubInv, HubShapes, HubSteps, HubStep
<1>2. \A a \in DOMAIN docs : k # <<a, "pair">>
  BY <1>1, HubPairOf, HubRest
<1>3. CASE Hub!End(k) /\ rows' = rows
  BY <1>3, HubEnd, <1>2, HubPairOf, <1>1, HubEnds DEF HubInv, HubAlike
<1>4. CASE ~(Hub!End(k) /\ rows' = rows)
  <2>1. rows' = Append(rows, row) /\ (Hub!End(k) \/ task' = [task EXCEPT ![k] = new])
    BY <1>4 DEF Hub!NamesSaves, Hub!SaveRow
  <2>2. Hub!Doc(k) \in Nat /\ docs[Hub!Doc(k)].sentFor \in Travellers
    BY <1>1, HubFields DEF HubInv, HubDoc, HubDocs
  <2>3. /\ row \in HubRows /\ row.type = "PASSENGER" /\ Len(row.docs) = 1
        /\ row.docs[1] = Hub!Doc(k) /\ row.passenger = docs[Hub!Doc(k)].sentFor
        /\ row.met <=> Hub!Doc(k) \in task[k].beside
    <3>1. about \in Seq(Nat) /\ Len(about) = 1 /\ about[1] = Hub!Doc(k)
      BY <2>2
    <3>2. met \in BOOLEAN /\ (met <=> Hub!Doc(k) \in task[k].beside)
      OBVIOUS
    <3> HIDE DEF about, met
    <3> QED
      BY <1>1, <2>2, <3>1, <3>2 DEF HubRows
  <2>4. /\ new \in HubTasks /\ new.op = "names" /\ new.at = task[k].at
        /\ new.beside = task[k].beside
    <3>1. task[k] \in HubTasks /\ task[k].op = "names"
      BY <1>1
    <3> QED
      BY <3>1 DEF HubTasks
  <2> HIDE DEF row, new
  <2>5. /\ task' \in [Hub!Tasks -> HubTasks]
        /\ task'[k] = Hub!Rest \/ task'[k] = new
        /\ \A j \in Hub!Tasks \ {k} : task'[j] = task[j]
    BY HubEnd, <2>4, HubTaskChanged, <2>1 DEF HubInv
  <2>6. HubFirst(k, row.docs[1])
    BY <1>1, <2>3 DEF HubFirst
  <2>7. /\ HubDoc(row.docs[1], "PASSPORT")
        /\ \E d \in DOMAIN docs : docs[d].sentFor = row.passenger
    BY <1>1, <2>3 DEF HubDoc
  <2>8. /\ task[k].op \in {"refresh", "names", "pair"} /\ row.type # "SIGNATURE"
        /\ \/ task'[k] = Hub!Rest
           \/ /\ task[k].op = "names" /\ task'[k].op = "names" /\ task'[k].at = task[k].at
              /\ task'[k].beside = task[k].beside
    BY <1>1, <2>3, <2>4, <2>5
  <2> QED
    BY <1>1, <2>1, <2>3, <2>5, <2>6, <2>7, <2>8, HubRowAdded
<1> QED
  BY <1>3, <1>4

-----------------------------------------------------------------------------
(* Uploads, staff and trouble.                                             *)

\* An upload starts tasks that know the removals in progress.
LEMMA HubUploads ==
  ASSUME HubInv, SideAssumption, NEW type \in Hub!Types, NEW p \in Travellers,
         Hub!Upload(type, p)
  PROVE  HubInv'
<1> DEFINE d == Len(docs) + 1
           doc == [type |-> type, passenger |-> p, live |-> TRUE, signed |-> FALSE,
                   sentFor |-> p, edited |-> FALSE]
           starts(k) == k \in {d} \X Hub!Starts(type)
           new(k) == [Hub!Rest EXCEPT !.at = "read", !.op = k[2], !.beside = Hub!Leaving]
<1>1. /\ Len(docs) < (Limit - 1) /\ docs \in Seq(HubDocs)
      /\ docs' = Append(docs, doc)
      /\ task' = [k \in Hub!Tasks |-> IF starts(k) THEN new(k) ELSE task[k]]
      /\ UNCHANGED <<rows, failed>>
  BY DEF Hub!Upload, HubInv, HubShapes
<1>2. /\ doc \in HubDocs /\ doc.type = type /\ doc.live
      /\ doc.passenger = p /\ doc.sentFor = p /\ ~doc.edited
  BY DEF HubDocs
<1> HIDE DEF doc
<1>3. /\ docs' \in Seq(HubDocs) /\ Len(docs') = Len(docs) + 1 /\ Len(docs) \in Nat
      /\ DOMAIN docs = 1..Len(docs) /\ DOMAIN docs' = 1..(Len(docs) + 1)
      /\ \A e \in 1..Len(docs) : docs'[e] = docs[e]
      /\ docs'[Len(docs) + 1] = doc
  <2>1. Len(docs) < (Limit - 1) /\ docs \in Seq(HubDocs) /\ docs' = Append(docs, doc)
    BY <1>1
  <2> QED
    BY <1>2, <2>1
<1>4. /\ d \notin DOMAIN docs /\ DOMAIN docs' = DOMAIN docs \cup {d}
      /\ \A e \in DOMAIN docs : docs'[e] = docs[e] /\ e < d /\ e # d
      /\ docs'[d] = doc /\ d \in 1..(Limit - 1)
  <2>1. Len(docs) < (Limit - 1) /\ (Limit - 1) \in Int
    BY <1>1, HubKeys
  <2> QED
    BY <1>3, <2>1
<1> HIDE DEF d
<1>5. Hub!Leaving \subseteq Nat
  BY HubKeys, HubFields DEF HubInv, Hub!Leaving, HubTasks
<1>6. Hub!Starts(type) \subseteq Hub!Kinds
  BY DEF Hub!Starts, Hub!Kinds, Hub!Types, Hub!Compared
<1>7. \A k \in Hub!Tasks : starts(k) =>
        /\ k \notin Http /\ Hub!Doc(k) = d /\ k[2] \in Hub!Kinds /\ k[2] \in Hub!Starts(type)
  BY <1>4, <1>6, HubKeys DEF Hub!Doc
<1>8. \A k \in Hub!Tasks : starts(k) =>
        /\ new(k) \in HubTasks /\ new(k).at = "read" /\ new(k).op = k[2]
        /\ new(k).beside = Hub!Leaving /\ new(k).row = 0
  BY <1>5, <1>7, HubRest DEF HubTasks, Hub!Kinds, Hub!Rest
<1> HIDE DEF new, starts
<1>9. /\ \A k \in Hub!Tasks : /\ starts(k) => task'[k] = new(k)
                              /\ ~starts(k) => task'[k] = task[k]
      /\ task' \in [Hub!Tasks -> HubTasks]
  BY <1>1, <1>8, HubFields DEF HubInv
<1>10. \A h \in Http : h \in Hub!Tasks /\ task'[h] = task[h]
  BY <1>7, <1>9, HubKeys
<1>11. Hub!Leaving' = Hub!Leaving
  BY <1>10 DEF Hub!Leaving
<1>12. Hub!Signatures' = Hub!Signatures
  BY <1>1 DEF Hub!Signatures
<1>13. HubShapes'
  BY <1>1, <1>3, HubKeys, <1>4, <1>9 DEF HubInv, HubShapes
<1>14. \A e, t : HubDoc(e, t) => HubDoc(e, t)'
  BY <1>4 DEF HubDoc
<1>15. HubAbout'
  BY <1>1, <1>4 DEF HubInv, HubAbout, HubDoc
<1>16. HubSteps'
  BY <1>7, <1>8, <1>9, <1>2, <1>4, <1>1, <1>12 DEF HubSteps, Hub!Starts, Hub!Types,
     Hub!Compared, HubStep, HubDoc, HubInv
<1>17. HubMeets'
  <2> SUFFICES ASSUME NEW k \in Hub!Tasks
               PROVE  /\ task'[k].op \in {"refresh", "names", "pair"} =>
                           Hub!Leaving' \subseteq task'[k].beside
                      /\ \A e \in DOMAIN docs' : HubFirst(k, e)' =>
                           docs'[e].live \/ e \in task'[k].beside
    BY DEF HubMeets
  <2>1. CASE starts(k)
    BY <1>7, <1>8, <1>9, <2>1, <1>2, <1>4, <1>11 DEF HubFirst
  <2>2. CASE ~starts(k)
    BY <1>9, <2>2, <1>4, <1>11 DEF HubFirst, HubInv, HubSteps, HubStep, HubDoc,
       HubMeets
  <2> QED
    BY <2>1, <2>2
<1>18. HubCloses'
  <2>1. rows' = rows
    BY <1>1
  <2> QED
    BY <1>10, <2>1 DEF HubInv, HubCloses, Hub!At
<1>19. \A n \in DOMAIN rows : /\ rows[n].docs[1] \in DOMAIN docs
                              /\ rows[n].type = "SIGNATURE" => rows[n].docs[2] \in DOMAIN docs
  BY DEF HubInv, HubAbout, HubDoc
<1>20. Hub!ActiveRowsLive'
  BY <1>1, <1>4, <1>19 DEF HubInv, Hub!ActiveRowsLive
<1>21. HubOwn' /\ HubNamed'
  <2>1. HubOwn'
    BY <1>1, <1>2, <1>4 DEF HubInv, HubOwn
  <2>2. \A n \in Hub!Signatures : rows[n].docs[1] \in DOMAIN docs /\ rows[n].docs[2] \in DOMAIN docs
    BY <1>19 DEF Hub!Signatures
  <2>3. HubNamed'
    BY <1>1, <1>4, <1>12, <2>2 DEF HubInv, HubNamed, HubNames
  <2> QED
    BY <2>1, <2>3
<1>22. Hub!PairsCompared'
  <2> SUFFICES ASSUME NEW a \in Hub!Live("ASSIGNMENT")', a \notin failed',
                      task'[<<a, "pair">>] = Hub!Rest,
                      ~docs'[a].edited, NEW q \in Hub!Live("PASSPORT")', q < a,
                      ~docs'[q].edited, docs'[q].passenger = docs'[a].passenger
               PROVE  \E n \in Hub!Signatures' : rows'[n].docs[1] = a
    BY DEF Hub!PairsCompared
  <2>1. /\ a \in DOMAIN docs' /\ docs'[a].type = "ASSIGNMENT" /\ docs'[a].live
        /\ q \in DOMAIN docs' /\ docs'[q].type = "PASSPORT" /\ docs'[q].live
    BY DEF Hub!Live
  <2>2. a # d
    <3> SUFFICES ASSUME a = d
                 PROVE  FALSE
      OBVIOUS
    <3>1. <<d, "pair">> \in Hub!Tasks
      BY <1>4, HubKeys DEF Hub!Kinds
    <3>2. type = "ASSIGNMENT"
      BY <1>2, <1>4, <2>1
    <3>3. starts(<<d, "pair">>)
      BY <3>2 DEF starts, Hub!Starts
    <3>4. task'[<<d, "pair">>].at = "read"
      BY <1>8, <1>9, <3>1, <3>3, Zenon
    <3> QED
      BY <3>4, HubRest
  <2>3. a \in DOMAIN docs /\ q \in DOMAIN docs
    <3>1. DOMAIN docs' = DOMAIN docs \cup {d} /\ DOMAIN docs = 1..Len(docs) /\ Len(docs) \in Nat
      BY <1>3, <1>4
    <3>2. a \in DOMAIN docs
      BY <2>1, <2>2, <3>1
    <3>3. q # d
      BY <1>4, <3>1, <3>2
    <3> QED
      BY <2>1, <3>1, <3>2, <3>3
  <2>4. /\ a \in Hub!Live("ASSIGNMENT") /\ q \in Hub!Live("PASSPORT")
        /\ docs[q].passenger = docs[a].passenger /\ ~docs[a].edited /\ ~docs[q].edited
    BY <1>4, <2>1, <2>3 DEF Hub!Live
  <2>5. <<a, "pair">> \in Hub!Tasks /\ ~starts(<<a, "pair">>)
    BY <2>3, HubPairKey, <2>2 DEF starts
  <2> QED
    BY <1>1, <1>9, <1>12, <2>4, <2>5 DEF HubInv, Hub!PairsCompared
<1> QED
  BY <1>13, <1>15, <1>16, <1>17, <1>18, <1>20, <1>21, <1>22 DEF HubInv

\* Staff look at a row again.
LEMMA HubStatus ==
  ASSUME HubInv, SideAssumption, NEW n \in DOMAIN rows, Hub!UpdateStatus(n)
  PROVE  HubInv'
<1> DEFINE row == [rows[n] EXCEPT !.active = ~@, !.by = "staff"]
<1>1. rows[n] \in HubRows /\ rows \in Seq(HubRows)
  BY HubFields DEF HubInv, HubShapes
<1>2. /\ row \in HubRows /\ row.type = rows[n].type /\ row.docs = rows[n].docs
      /\ row.passenger = rows[n].passenger /\ row.by = "staff"
  BY <1>1 DEF HubRows
<1>3. rows' = [rows EXCEPT ![n] = row] /\ UNCHANGED <<docs, task, failed>>
  BY DEF Hub!UpdateStatus
<1> HIDE DEF row
<1>4. /\ rows' \in Seq(HubRows) /\ DOMAIN rows' = DOMAIN rows
      /\ rows'[n] = row /\ \A i \in DOMAIN rows \ {n} : rows'[i] = rows[i]
  BY <1>1, <1>2, <1>3
<1>5. \A i \in DOMAIN rows :
        /\ rows'[i].type = rows[i].type /\ rows'[i].docs = rows[i].docs
        /\ rows'[i].passenger = rows[i].passenger
        /\ rows'[i] = rows[i] \/ rows'[i].by = "staff"
  BY <1>2, <1>4
<1>6. HubShapes'
  BY <1>3, <1>4 DEF HubInv, HubShapes
<1>7. Hub!Signatures' = Hub!Signatures
  BY <1>4, <1>5 DEF Hub!Signatures
<1>8. HubAbout'
  BY <1>3, <1>4, <1>5 DEF HubInv, HubAbout, HubDoc
<1>9. HubSteps'
  BY <1>3, <1>4, <1>7 DEF HubInv, HubSteps, HubStep, HubDoc
<1>10. HubMeets'
  BY <1>3 DEF HubInv, HubMeets, HubFirst, Hub!Leaving
<1>11. HubCloses'
  BY <1>3, <1>4, <1>5 DEF HubInv, HubCloses, Hub!At
<1>12. Hub!ActiveRowsLive'
  BY <1>3, <1>4, <1>5 DEF HubInv, Hub!ActiveRowsLive
<1>13. HubOwn' /\ HubNamed'
  BY <1>3, <1>7, <1>4, <1>5 DEF HubOwn, HubNamed, HubNames, Hub!Signatures, HubInv
<1>14. Hub!PairsCompared'
  BY <1>5, <1>7, <1>3, HubPairs DEF Hub!Signatures, HubAlike
<1> QED
  BY <1>6, <1>8, <1>9, <1>10, <1>11, <1>12, <1>13, <1>14 DEF HubInv

\* Staff ask for a row again.
LEMMA HubRefreshes ==
  ASSUME HubInv, SideAssumption, NEW h \in Http, NEW n \in DOMAIN rows, Hub!Refresh(h, n)
  PROVE  HubInv'
<1> DEFINE new == [Hub!Rest EXCEPT !.at = "read", !.op = "refresh", !.row = n, !.beside = Hub!Leaving]
<1>1. /\ task[h] = Hub!Rest /\ h \in Hub!Tasks
      /\ task' = [task EXCEPT ![h] = new]
      /\ UNCHANGED <<docs, rows, failed>>
      /\ docs \in Seq(HubDocs) /\ failed \subseteq DOMAIN docs
  BY HubKeys DEF Hub!Refresh, HubInv, HubShapes
<1>2. Hub!Leaving \subseteq Nat /\ n \in Nat
  BY HubKeys, HubFields DEF HubInv, Hub!Leaving, HubTasks
<1>3. /\ new \in HubTasks /\ new.at = "read" /\ new.op = "refresh" /\ new.row = n
      /\ new.beside = Hub!Leaving
  BY <1>2, HubRest DEF HubTasks
<1> HIDE DEF new
<1>4. /\ task' \in [Hub!Tasks -> HubTasks] /\ task'[h] = new
      /\ \A j \in Hub!Tasks \ {h} : task'[j] = task[j]
  BY <1>1, <1>3, HubTaskChanged DEF HubInv
<1>5. HubAlike
  BY <1>1 DEF HubAlike
<1>6. HubShapes'
  BY <1>1, <1>4 DEF HubInv, HubShapes
<1>7. HubSteps'
  BY <1>1, <1>3, <1>4, <1>5, HubOrder DEF HubStep, HubSteps
<1>8. HubAbout'
  BY <1>1 DEF HubInv, HubAbout, HubDoc
<1>9. Hub!Leaving' = Hub!Leaving
  BY <1>1, <1>3, <1>4, HubRest, HubKeys DEF Hub!Leaving
<1>10. HubMeets'
  BY <1>3, <1>4, <1>1, <1>9 DEF HubFirst, HubInv, HubMeets
<1>11. HubCloses'
  BY <1>3, <1>4, HubKeys, <1>1 DEF Hub!At, HubInv, HubCloses
<1>12. Hub!ActiveRowsLive' /\ HubOwn' /\ HubNamed'
  BY <1>1 DEF HubInv, Hub!ActiveRowsLive, HubOwn, HubNamed, HubNames,
      Hub!Signatures
<1>13. Hub!PairsCompared'
  BY HubPairKey, <1>4, <1>1, <1>5, HubPairs DEF Hub!Signatures
<1> QED
  BY <1>6, <1>7, <1>8, <1>10, <1>11, <1>12, <1>13 DEF HubInv

\* A removal begins: the tasks in progress meet it.
LEMMA HubRemoves ==
  ASSUME HubInv, SideAssumption, NEW h \in Http, NEW d \in DOMAIN docs, Hub!Remove(h, d)
  PROVE  HubInv'
<1> DEFINE new == [Hub!Rest EXCEPT !.at = "rows", !.op = "remove", !.passport = d]
           met(k) == [task[k] EXCEPT !.beside = @ \cup {d}]
<1>1. /\ task[h] = Hub!Rest /\ h \in Hub!Tasks
      /\ task' = [k \in Hub!Tasks |-> IF k = h THEN new
                                      ELSE IF task[k] = Hub!Rest THEN Hub!Rest ELSE met(k)]
      /\ UNCHANGED <<docs, rows, failed>>
  BY HubKeys DEF Hub!Remove
<1>2. d \in Nat
  BY HubFields DEF HubInv
<1>3. /\ new \in HubTasks /\ new.at = "rows" /\ new.op = "remove" /\ new.passport = d
  BY <1>2, HubRest DEF HubTasks
<1>4. \A k \in Hub!Tasks : /\ met(k) \in HubTasks /\ met(k).beside = task[k].beside \cup {d}
                           /\ met(k).op = task[k].op /\ met(k).at = task[k].at
                           /\ met(k).row = task[k].row /\ met(k).passport = task[k].passport
                           /\ met(k).assignment = task[k].assignment
                           /\ met(k).score = task[k].score
  <2> TAKE k \in Hub!Tasks
  <2>1. task[k] \in HubTasks
    BY HubFields DEF HubInv
  <2> QED
    BY <1>2, <2>1 DEF HubTasks
<1> HIDE DEF new, met
<1>5. /\ task'[h] = new
      /\ \A k \in Hub!Tasks \ {h} : \/ task[k] = Hub!Rest /\ task'[k] = Hub!Rest
                                    \/ task[k] # Hub!Rest /\ task'[k] = met(k)
      /\ task' \in [Hub!Tasks -> HubTasks]
  BY <1>1, <1>3, <1>4, HubRest
<1>6. \A k \in Hub!Tasks \ {h} :
        /\ task'[k].op = task[k].op /\ task'[k].at = task[k].at
        /\ task'[k].row = task[k].row /\ task'[k].passport = task[k].passport
        /\ task'[k].assignment = task[k].assignment
        /\ task'[k].score = task[k].score
        /\ task[k] = Hub!Rest <=> task'[k] = Hub!Rest
        /\ task[k].op # "none" => task'[k].beside = task[k].beside \cup {d}
  BY <1>5, HubRest, <1>4 DEF HubInv, HubSteps, HubStep
<1>7. HubShapes'
  BY <1>1, <1>5 DEF HubInv, HubShapes
<1>8. HubAbout'
  BY <1>1 DEF HubInv, HubAbout, HubDoc
<1>9. HubSteps'
  BY <1>1, <1>3, <1>5, <1>6, HubRest DEF HubStep, HubInv, HubSteps, Hub!Signatures,
     HubDoc
<1>10. Hub!Leaving' \subseteq Hub!Leaving \cup {d}
  BY HubKeys, <1>3, <1>5, <1>6 DEF Hub!Leaving
<1>11. HubMeets'
  BY <1>3, <1>5, <1>6, <1>1, <1>10 DEF HubFirst, HubInv, HubMeets
<1>12. HubCloses'
  BY <1>3, <1>5, <1>6, HubKeys, <1>1 DEF Hub!At, HubInv, HubCloses
<1>13. Hub!ActiveRowsLive' /\ HubOwn' /\ HubNamed'
  BY <1>1 DEF HubInv, Hub!ActiveRowsLive, HubOwn, HubNamed, HubNames,
      Hub!Signatures
<1>14. Hub!PairsCompared'
  BY HubPairKey, <1>6, <1>1, HubPairs DEF HubAlike, Hub!Signatures
<1> QED
  BY <1>7, <1>8, <1>9, <1>11, <1>12, <1>13, <1>14 DEF HubInv

\* It closes the rows of the document.
LEMMA HubClosesRows ==
  ASSUME HubInv, SideAssumption, NEW h \in Http, Hub!CloseRows(h)
  PROVE  HubInv'
<1> DEFINE d == task[h].passport
           row(n) == IF rows[n].docs[1] = d THEN [rows[n] EXCEPT !.active = FALSE]
                                            ELSE rows[n]
<1>1. /\ task[h].op = "remove" /\ task[h].at = "rows" /\ h \in Hub!Tasks
      /\ rows' = [n \in DOMAIN rows |-> row(n)]
      /\ Hub!Go(h, "document") /\ UNCHANGED <<docs, failed>>
      /\ docs \in Seq(HubDocs) /\ failed \subseteq DOMAIN docs
      /\ task[h].passport \in DOMAIN docs
  BY HubKeys DEF Hub!CloseRows, Hub!RowsClosed, Hub!At, HubInv, HubShapes,
      HubSteps, HubStep
<1>2. \A n \in DOMAIN rows :
        /\ row(n) \in HubRows /\ row(n).type = rows[n].type /\ row(n).docs = rows[n].docs
        /\ row(n).passenger = rows[n].passenger /\ row(n).by = rows[n].by
        /\ row(n).met = rows[n].met
        /\ row(n).active => rows[n].active /\ rows[n].docs[1] # d
  <2> TAKE n \in DOMAIN rows
  <2>1. rows[n] \in HubRows
    BY HubFields DEF HubInv
  <2> QED
    BY <2>1 DEF HubRows
<1> HIDE DEF row
<1>3. /\ DOMAIN rows' = DOMAIN rows
      /\ \A n \in DOMAIN rows :
           /\ rows'[n] \in HubRows /\ rows'[n].type = rows[n].type
           /\ rows'[n].docs = rows[n].docs /\ rows'[n].passenger = rows[n].passenger
           /\ rows'[n].by = rows[n].by /\ rows'[n].met = rows[n].met
           /\ rows'[n].active => rows[n].active /\ rows[n].docs[1] # d
  <2>1. rows' = [n \in DOMAIN rows |-> row(n)]
    BY <1>1
  <2>2. DOMAIN rows' = DOMAIN rows /\ \A n \in DOMAIN rows : rows'[n] = row(n)
    BY <2>1
  <2> HIDE DEF d
  <2> QED
    BY <2>2, <1>2
<1>4. rows' \in Seq(HubRows)
  BY HubFields, <1>1, <1>2 DEF HubInv, HubShapes
<1>5. /\ task' \in [Hub!Tasks -> HubTasks]
      /\ task'[h].at = "document" /\ task'[h].op = "remove" /\ task'[h].passport = d
      /\ \A j \in Hub!Tasks \ {h} : task'[j] = task[j]
  BY <1>1, HubGo DEF HubInv
<1>6. Hub!Signatures' = Hub!Signatures
  BY <1>3 DEF Hub!Signatures
<1>7. HubShapes'
  BY <1>1, <1>4, <1>5 DEF HubInv, HubShapes
<1>8. HubAbout'
  BY <1>1, <1>3 DEF HubInv, HubAbout, HubDoc
<1>9. HubSteps'
  BY <1>1, <1>5, <1>3, <1>6 DEF HubStep, HubInv, HubSteps, HubDoc
<1>10. Hub!Leaving' = Hub!Leaving
  BY <1>1, <1>5, HubKeys DEF Hub!Leaving
<1>11. HubMeets'
  BY <1>5, <1>1, <1>10 DEF HubFirst, HubInv, HubMeets
<1>12. HubCloses'
  BY <1>3, <1>5, HubKeys DEF HubCloses, Hub!At, HubInv
<1>13. Hub!ActiveRowsLive'
  BY <1>1, <1>3 DEF HubInv, Hub!ActiveRowsLive
<1>14. HubOwn' /\ HubNamed'
  BY <1>1, <1>6, <1>3 DEF HubOwn, HubNamed, HubNames, Hub!Signatures, HubInv
<1>15. Hub!PairsCompared'
  BY <1>3, <1>6, HubPairKey, <1>5, <1>1, HubPairs DEF Hub!Signatures, HubAlike
<1> QED
  BY <1>7, <1>8, <1>9, <1>11, <1>12, <1>13, <1>14, <1>15 DEF HubInv

\* It removes the document, whose active rows met it.
LEMMA HubRemovesDocument ==
  ASSUME HubInv, SideAssumption, NEW h \in Http, Hub!RemoveDocument(h)
  PROVE  HubInv'
<1> DEFINE d == task[h].passport
           new == [docs[d] EXCEPT !.live = FALSE]
<1>1. /\ task[h].op = "remove" /\ Hub!At(h, "remove", "document") /\ h \in Hub!Tasks
      /\ Hub!End(h) /\ UNCHANGED <<rows, failed>>
      /\ docs' = [docs EXCEPT ![d] = new]
      /\ docs \in Seq(HubDocs) /\ failed \subseteq DOMAIN docs
      /\ d \in DOMAIN docs
  BY HubKeys DEF Hub!RemoveDocument, Hub!At, HubInv, HubShapes, HubSteps,
      HubStep
<1>2. docs[d] \in HubDocs
  BY <1>1, HubFields DEF HubInv
<1>3. /\ new \in HubDocs /\ new.type = docs[d].type /\ new.live = FALSE
      /\ new.passenger = docs[d].passenger /\ new.sentFor = docs[d].sentFor
      /\ new.edited = docs[d].edited
  BY <1>2 DEF HubDocs
<1>4. d \in Hub!Leaving
  BY <1>1 DEF Hub!Leaving
<1>5. \A n \in DOMAIN rows :
        rows[n].docs[1] = d /\ rows[n].active => rows[n].met \/ rows[n].by = "staff"
  BY <1>1 DEF HubInv, HubCloses
<1> HIDE DEF new, d
<1>6. /\ docs' \in Seq(HubDocs) /\ Len(docs') = Len(docs)
      /\ DOMAIN docs' = DOMAIN docs /\ docs'[d] = new
      /\ \A e \in DOMAIN docs \ {d} : docs'[e] = docs[e]
  BY <1>1, <1>3
<1>7. \A e \in DOMAIN docs : /\ docs'[e].type = docs[e].type
                             /\ docs'[e].passenger = docs[e].passenger
                             /\ docs'[e].sentFor = docs[e].sentFor
                             /\ docs'[e].edited = docs[e].edited
                             /\ docs'[e].live => docs[e].live
                             /\ e # d => docs'[e].live = docs[e].live
  BY <1>3, <1>6
<1>8. /\ task' \in [Hub!Tasks -> HubTasks] /\ task'[h] = Hub!Rest
      /\ \A k \in Hub!Tasks \ {h} : task'[k] = task[k]
  BY <1>1, HubEnd DEF HubInv
<1>9. Hub!Signatures' = Hub!Signatures
  BY <1>1 DEF Hub!Signatures
<1>10. HubShapes'
  BY <1>1, <1>6, <1>8 DEF HubInv, HubShapes
<1>11. HubAbout'
  BY <1>1, <1>6, <1>7 DEF HubInv, HubAbout, HubDoc
<1>12. HubSteps'
  BY <1>8, HubRest, <1>1, <1>6, <1>7, <1>9 DEF HubStep, HubInv, HubSteps, HubDoc
<1>13. \A j \in Http : /\ j \in Hub!Tasks
                       /\ task'[j].op = "remove" => j # h /\ task'[j] = task[j]
  BY <1>8, HubKeys, HubRest
<1>14. Hub!Leaving' \subseteq Hub!Leaving
  BY <1>13 DEF Hub!Leaving
<1>15. HubMeets'
  BY <1>8, HubRest, <1>4, <1>7, <1>6, <1>14 DEF HubFirst, HubInv, HubMeets
<1>16. HubCloses'
  BY <1>1, <1>13 DEF HubInv, HubCloses, Hub!At
<1>17. Hub!ActiveRowsLive'
  BY <1>7, <1>1, <1>5 DEF HubInv, HubAbout, HubDoc, Hub!ActiveRowsLive
<1>18. HubOwn' /\ HubNamed'
  BY <1>1, <1>6, <1>7, <1>9 DEF HubInv, HubAbout, HubDoc, Hub!Signatures,
     HubOwn, HubNamed, HubNames
<1>19. Hub!PairsCompared'
  <2>1. \A a \in DOMAIN docs : <<a, "pair">> \in Hub!Tasks /\ <<a, "pair">> # h
    BY HubPairKey
  <2>2. \A a \in DOMAIN docs : task'[<<a, "pair">>] = task[<<a, "pair">>]
    BY <1>8, <2>1
  <2>3. Hub!Live("PASSPORT")' \subseteq Hub!Live("PASSPORT")
    BY <1>6, <1>7 DEF Hub!Live
  <2>4. Hub!Live("ASSIGNMENT")' \subseteq Hub!Live("ASSIGNMENT")
    BY <1>6, <1>7 DEF Hub!Live
  <2>5. \A a \in Hub!Live("ASSIGNMENT") : a \in DOMAIN docs
    BY DEF Hub!Live
  <2>6. \A p \in Hub!Live("PASSPORT") : p \in DOMAIN docs
    BY DEF Hub!Live
  <2> SUFFICES ASSUME NEW a \in Hub!Live("ASSIGNMENT")', a \notin failed',
                      task'[<<a, "pair">>] = Hub!Rest,
                      ~docs'[a].edited, NEW p \in Hub!Live("PASSPORT")', p < a,
                      ~docs'[p].edited, docs'[p].passenger = docs'[a].passenger
               PROVE  \E n \in Hub!Signatures' : rows'[n].docs[1] = a
    BY DEF Hub!PairsCompared
  <2>7. /\ a \in Hub!Live("ASSIGNMENT") /\ a \in DOMAIN docs
        /\ p \in Hub!Live("PASSPORT") /\ p \in DOMAIN docs
    BY <2>3, <2>4, <2>5, <2>6
  <2>8. /\ docs[p].passenger = docs[a].passenger /\ task[<<a, "pair">>] = Hub!Rest
        /\ ~docs[a].edited /\ ~docs[p].edited
    BY <1>7, <2>2, <2>7
  <2>9. \E n \in Hub!Signatures : rows[n].docs[1] = a
    BY <1>1, <2>7, <2>8 DEF HubInv, Hub!PairsCompared
  <2> QED
    BY <1>1, <1>9, <2>9
<1> QED
  BY <1>10, <1>11, <1>12, <1>15, <1>16, <1>17, <1>18, <1>19 DEF HubInv

\* Staff give a document another type or passenger.
LEMMA HubEdits ==
  ASSUME HubInv, SideAssumption, NEW d \in DOMAIN docs,
         \/ \E type \in Hub!Types : Hub!Retype(d, type)
         \/ \E p \in Travellers : Hub!Reassign(d, p)
  PROVE  HubInv'
<1>1. /\ docs[d] \in HubDocs /\ docs \in Seq(HubDocs) /\ UNCHANGED <<rows, task, failed>>
      /\ failed \subseteq DOMAIN docs /\ task \in [Hub!Tasks -> HubTasks]
  BY HubFields DEF HubInv, HubShapes, Hub!Retype, Hub!Reassign
<1>2. PICK new \in HubDocs : /\ docs' = [docs EXCEPT ![d] = new]
                             /\ new.live = docs[d].live /\ new.sentFor = docs[d].sentFor
                             /\ new.edited
  <2>1. CASE \E type \in Hub!Types : Hub!Retype(d, type)
    <3>1. PICK type \in Hub!Types : docs' = [docs EXCEPT ![d].type = type, ![d].edited = TRUE]
      BY <2>1 DEF Hub!Retype
    <3> DEFINE new == [docs[d] EXCEPT !.type = type, !.edited = TRUE]
    <3>2. /\ new \in HubDocs /\ new.live = docs[d].live
          /\ new.sentFor = docs[d].sentFor /\ new.edited
      BY <1>1 DEF HubDocs
    <3>3. docs' = [docs EXCEPT ![d] = new]
      BY <3>1
    <3> QED
      BY <3>2, <3>3
  <2>2. CASE \E p \in Travellers : Hub!Reassign(d, p)
    <3>1. PICK p \in Travellers : docs' = [docs EXCEPT ![d].passenger = p, ![d].edited = TRUE]
      BY <2>2 DEF Hub!Reassign
    <3> DEFINE new == [docs[d] EXCEPT !.passenger = p, !.edited = TRUE]
    <3>2. /\ new \in HubDocs /\ new.live = docs[d].live
          /\ new.sentFor = docs[d].sentFor /\ new.edited
      BY <1>1 DEF HubDocs
    <3>3. docs' = [docs EXCEPT ![d] = new]
      BY <3>1
    <3> QED
      BY <3>2, <3>3
  <2> QED
    BY <2>1, <2>2
<1>3. /\ docs' \in Seq(HubDocs) /\ Len(docs') = Len(docs)
      /\ DOMAIN docs' = DOMAIN docs /\ docs'[d] = new
      /\ \A e \in DOMAIN docs \ {d} : docs'[e] = docs[e]
  BY <1>1, <1>2
<1>4. HubAlike
  BY <1>2, <1>3 DEF HubAlike
<1> QED
  BY <1>1, <1>3, <1>4, HubEnds

-----------------------------------------------------------------------------
(* Trouble, and every step.                                                *)

\* The process ends: what its tasks were to do is known to have failed.
LEMMA HubStops ==
  ASSUME HubInv, SideAssumption, Hub!Stop, UNCHANGED <<docs, rows>>
  PROVE  HubInv'
  BY HubRest, HubPairKey, HubEnds DEF HubInv, HubSteps, HubStep, HubShapes, Hub!Stop,
     HubAlike

LEMMA HubThrows ==
  ASSUME HubInv, SideAssumption, NEW k \in Hub!Tasks, Hub!Throw(k)
  PROVE  HubInv'
  BY HubStops, HubEnd, HubPairOf, HubEnds DEF Hub!Throw, HubInv, HubAlike, HubShapes

LEMMA HubNext ==
  ASSUME HubInv, SideAssumption, Hub!Next
  PROVE  HubInv'
<1>1. CASE \E k \in Hub!Tasks : Hub!Proceed(k) \/ Hub!Throw(k)
  BY <1>1, HubRefreshReads, HubRefreshSaves, HubPairReads, HubPairSigns,
     HubPairSaves, HubNamesSaves, HubThrows DEF Hub!Proceed
<1>2. CASE \E d \in DOMAIN docs : \/ \E type \in Hub!Types : Hub!Retype(d, type)
                                  \/ \E p \in Travellers : Hub!Reassign(d, p)
  BY <1>2, HubEdits
<1>3. CASE \E h \in Http : \/ \E n \in DOMAIN rows : Hub!Refresh(h, n)
                           \/ \E d \in DOMAIN docs : Hub!Remove(h, d)
                           \/ Hub!CloseRows(h) \/ Hub!RemoveDocument(h)
  BY <1>3, HubRefreshes, HubRemoves, HubClosesRows, HubRemovesDocument
<1>4. CASE \/ \E type \in Hub!Types, p \in Travellers : Hub!Upload(type, p)
           \/ \E n \in DOMAIN rows : Hub!UpdateStatus(n)
           \/ Hub!Restart
  BY <1>4, HubUploads, HubStatus, HubStops DEF Hub!Restart
<1> QED
  BY <1>1, <1>2, <1>3, <1>4 DEF Hub!Next

LEMMA HubStutters ==
  ASSUME HubInv, UNCHANGED Hub!vars
  PROVE  HubInv'
<1>1. HubShapes' /\ HubAbout' /\ HubSteps' /\ HubMeets' /\ HubCloses'
  BY DEF Hub!vars, HubInv, HubShapes, HubAbout, HubDoc, Hub!Signatures, Hub!Leaving,
     HubSteps, HubStep, HubMeets, HubCloses, HubFirst, Hub!At
<1>2. HubOwn' /\ Hub!ActiveRowsLive' /\ HubNamed' /\ Hub!PairsCompared'
  BY DEF Hub!vars, HubInv, HubOwn, Hub!ActiveRowsLive, HubNamed, HubNames,
     Hub!Signatures, Hub!PairsCompared, Hub!Live
<1> QED
  BY <1>1, <1>2 DEF HubInv

LEMMA HubPromises ==
  ASSUME HubInv
  PROVE  Hub!RowsConsistent /\ Hub!TypeOK
<1>1. /\ \A d \in DOMAIN docs : docs[d] \in HubDocs
      /\ \A n \in DOMAIN rows : rows[n] \in HubRows
      /\ failed \subseteq DOMAIN docs
  BY HubFields DEF HubInv, HubShapes
<1>2. \A n \in DOMAIN rows : /\ rows[n].docs \in Seq(Nat)
                             /\ DOMAIN rows[n].docs = 1..Len(rows[n].docs)
  BY <1>1 DEF HubRows
<1>3. Hub!RowsConsistent
  <2> SUFFICES ASSUME NEW n \in Hub!Signatures, ~Hub!EditedOf(rows[n].docs),
                      ~(/\ rows[n].by \in {"refresh", "staff"}
                        /\ \E d, e \in DOMAIN docs : docs[d].sentFor # docs[e].sentFor)
               PROVE  \A i \in {1, 2} : docs[rows[n].docs[i]].passenger = rows[n].passenger
    BY DEF HubInv, Hub!RowsConsistent, Hub!RowsOfOwnPassenger
  <2>1. n \in DOMAIN rows /\ rows[n].type = "SIGNATURE"
    BY DEF Hub!Signatures
  <2>2. /\ Len(rows[n].docs) = 2
        /\ rows[n].docs[1] \in DOMAIN docs /\ rows[n].docs[2] \in DOMAIN docs
    BY <2>1 DEF HubInv, HubAbout, HubDoc
  <2>3. \A i \in {1, 2} : i \in DOMAIN rows[n].docs
    BY <1>2, <2>1, <2>2
  <2>4. \A i \in {1, 2} : ~docs[rows[n].docs[i]].edited
    BY <2>3 DEF Hub!EditedOf
  <2>5. \A i \in {1, 2} : docs[rows[n].docs[i]].sentFor = rows[n].passenger
    BY <2>4 DEF HubInv, HubNamed, HubNames
  <2> QED
    BY <2>2, <2>4, <2>5 DEF HubInv, HubOwn
<1>4. ASSUME NEW about \in Seq(Nat), DOMAIN about = 1..Len(about), NEW n \in DOMAIN rows,
             about = rows[n].docs
      PROVE  Hub!Are(IF rows[n].type = "SIGNATURE" THEN Hub!Compared ELSE {"PASSPORT"}, about)
  <2>1. CASE rows[n].type = "PASSENGER"
    <3>1. Len(about) = 1 /\ HubDoc(about[1], "PASSPORT")
      BY <1>4, <2>1 DEF HubInv, HubAbout
    <3>2. DOMAIN about = {1}
      BY <1>4, <3>1
    <3>3. Hub!Are({"PASSPORT"}, about)
      BY <3>1, <3>2 DEF Hub!Are, Hub!EditedOf, HubDoc
    <3> QED
      BY <2>1, <3>3
  <2>2. CASE rows[n].type = "SIGNATURE"
    <3>1. /\ Len(about) = 2
          /\ \/ HubDoc(about[1], "PASSPORT") /\ HubDoc(about[2], "ASSIGNMENT")
             \/ HubDoc(about[1], "ASSIGNMENT") /\ HubDoc(about[2], "PASSPORT")
      BY <1>4, <2>2 DEF HubInv, HubAbout
    <3>2. DOMAIN about = {1, 2}
      BY <1>4, <3>1
    <3>3. Hub!Are(Hub!Compared, about)
      BY <3>1, <3>2 DEF Hub!Are, Hub!EditedOf, HubDoc, Hub!Compared
    <3> QED
      BY <2>2, <3>3
  <2> QED
    BY <1>1, <2>1, <2>2 DEF HubRows
<1>5. Hub!TypeOK
  <2>1. \A n \in DOMAIN rows :
          /\ rows[n].passenger \in Travellers /\ rows[n].active \in BOOLEAN
          /\ Hub!Are(IF rows[n].type = "SIGNATURE" THEN Hub!Compared ELSE {"PASSPORT"},
                     rows[n].docs)
    BY <1>1, <1>2, <1>4 DEF HubRows
  <2> QED
    BY <1>1, <2>1 DEF Hub!TypeOK, HubDocs
<1> QED
  BY <1>3, <1>5

\* So does one of the discrepancies.
LEMMA HubMoves ==
  ASSUME [Next]_vars, moving = "discrepancies"
  PROVE  moving' = "discrepancies" /\ [Hub!Next]_(Hub!vars)
  BY DEF vars, hubVars, Hub!vars, Next, MoveAccounts, MoveDiscrepancies,
     MoveAssignments, MoveLinks, MoveViews, MovePartners, MoveLetters, MoveCompensation,
     MovePayments, MoveAirports

LEMMA HubInvariant == Spec => [](moving = "discrepancies" => HubInv)
<1> DEFINE Inv == moving = "discrepancies" => HubInv
<1>1. Init => Inv
  BY HubInit DEF Init
<1>2. Inv /\ [Next]_vars => Inv'
  BY HubMoves, HubNext, HubStutters, SideAssumption DEF Next, vars, MoveAccounts,
     MoveDiscrepancies, MoveAssignments, MoveLinks, MoveViews, MovePartners, MoveLetters,
     MoveCompensation, MovePayments, MoveAirports
<1> QED
  BY <1>1, <1>2, PTL DEF Spec

\* Whatever is uploaded, removed, given another type or passenger, looked at
\* again, thrown or stopped meanwhile, for any number of passengers and
\* documents: an active discrepancy is about a document that is there or whose
\* removal its task met, a row is of its own passenger unless it was renewed
\* among several or staff edited one of its documents, and an assignment behind
\* a passport gets compared unless its task failed or staff edited one of the
\* two (discrepancy-hub.service.ts, document.service.ts, document.controller.ts).
THEOREM SpecRowsConsistent == Spec => []RowsConsistent
<1>1. (moving = "discrepancies" => HubInv) => RowsConsistent
  BY HubPromises DEF RowsConsistent
<1> QED
  BY <1>1, HubInvariant, PTL

-----------------------------------------------------------------------------
(* Signed assignments.                                                     *)

LEMMA AsgFields ==
  ASSUME AsgShapes
  PROVE  /\ \A h \in Http : assignmentRequest[h] \in AsgRequests /\ assignmentRequest[h].of \subseteq Assignments!Passengers
         /\ \A d \in DOMAIN assignments : /\ assignments[d] \in AsgDocs /\ d \in Nat
                                          /\ assignments[d].passenger \in Assignments!Passengers
         /\ \A i \in DOMAIN jobs : /\ jobs[i] \in AsgDocs /\ i \in Nat
                                   /\ jobs[i].passenger \in Assignments!Passengers
         /\ Assignments!Rest \in AsgRequests /\ Assignments!Rest.op = "rest" /\ Assignments!Rest.at = "rest"
         /\ Assignments!Rest.n = 0 /\ Assignments!Rest.of = {}
<1>1. \A h \in Http : assignmentRequest[h] \in AsgRequests
  BY DEF AsgShapes
<1>2. \A d \in DOMAIN assignments : assignments[d] \in AsgDocs /\ d \in Nat
  BY DEF AsgShapes
<1>3. \A i \in DOMAIN jobs : jobs[i] \in AsgDocs /\ i \in Nat
  BY DEF AsgShapes
<1>4. Assignments!Rest \in AsgRequests /\ Assignments!Rest.op = "rest" /\ Assignments!Rest.at = "rest" /\ Assignments!Rest.n = 0 /\ Assignments!Rest.of = {}
  BY DEF Assignments!Rest, AsgRequests, AsgOwners
<1> QED
  BY <1>1, <1>2, <1>3, <1>4 DEF AsgRequests, AsgDocs

LEMMA AsgPending ==
  /\ \A h \in Http : assignmentRequest[h].of \subseteq Assignments!Pending
  /\ \A i \in DOMAIN jobs : jobs[i].passenger \in Assignments!Pending
  BY DEF Assignments!Pending

\* A request goes on alone.
LEMMA AsgGoes ==
  ASSUME AsgShapes, NEW h \in Http, NEW new \in AsgRequests,
         assignmentRequest' = [assignmentRequest EXCEPT ![h] = new]
  PROVE  /\ assignmentRequest' \in [Http -> AsgRequests] /\ assignmentRequest'[h] = new
         /\ \A k \in Http \ {h} : assignmentRequest'[k] = assignmentRequest[k]
  BY DEF AsgShapes

LEMMA AsgClearOn ==
  ASSUME AsgOn, NEW p
  PROVE  Clear(p)' => Clear(p)
  BY DEF AsgOn, Clear

LEMMA AsgFairOn ==
  ASSUME AsgOn, NEW d \in DOMAIN assignments
  PROVE  /\ assignments'[d].sig \notin edited' =>
              /\ assignments[d].sig \notin edited /\ assignments[d].sig \notin edited'
              /\ assignments'[d].passenger = assignments[d].passenger
         /\ Fair(d)' =>
              /\ Fair(d) /\ assignments[d].sig \notin edited'
              /\ assignments[d].passenger \notin assignmentMet' \cup assignmentBroken'
              /\ assignments'[d].passenger = assignments[d].passenger
         /\ assignments[d].passenger \in assignmentMet' \cup assignmentBroken' => ~Fair(d)'
<1>1. /\ assignments'[d].sig = assignments[d].sig
      /\ assignments[d].sig \notin edited' =>
           assignments'[d].passenger = assignments[d].passenger
      /\ edited \subseteq edited'
  BY DEF AsgOn
<1>2. Fair(d)' <=> /\ assignments'[d].sig \notin edited'
                   /\ assignments'[d].passenger \notin assignmentMet'
                   /\ assignments'[d].passenger \notin assignmentBroken'
  BY DEF Fair, Clear
<1>3. assignmentMet \subseteq assignmentMet' /\ assignmentBroken \subseteq assignmentBroken'
  BY DEF AsgOn
<1> QED
  BY <1>1, <1>2, <1>3 DEF Fair, Clear

LEMMA AsgSaysOn ==
  ASSUME NEW p, NEW name, NEW day, AsgDataOf(p), Says(p, name, day)
  PROVE  Says(p, name, day)'
  BY DEF AsgDataOf, Says

LEMMA AsgStepOn ==
  ASSUME AsgOn, NEW k \in Http, assignmentRequest'[k] = assignmentRequest[k], AsgStepOf(k)
  PROVE  AsgStepOf(k)'
<1>1. ASSUME assignmentRequest[k].op = "edit", assignmentRequest[k].at = "save"
      PROVE  Assignments!SignatureFound(k)' \/ (Assignments!Needed(k) = "regular")'
  BY <1>1 DEF AsgOn, AsgStepOf, Assignments!SignatureFound, Assignments!Needed,
     Assignments!Owner
<1>2. \A d \in DOMAIN assignments :
        /\ assignments'[d].sig \in edited' \/ assignments'[d].passenger = assignments[d].passenger
        /\ assignments[d].sig \in edited => assignments'[d].sig \in edited'
  BY DEF AsgOn
<1> QED
  BY <1>1, <1>2 DEF AsgOn, AsgStepOf

LEMMA AsgSignOn ==
  ASSUME AsgOn, NEW k \in Http, assignmentRequest'[k] = assignmentRequest[k], SignFits(k)
  PROVE  SignFits(k)'
  BY AsgPending, AsgClearOn DEF SignFits, AsgOn, AsgDataOf, Says

LEMMA AsgJobOn ==
  ASSUME AsgShapes, AsgOn, NEW i \in DOMAIN jobs, NEW j, jobs'[j] = jobs[i], JobFits(i)
  PROVE  JobFits(j)'
<1>1. PICK job \in AsgDocs : job = jobs[i]
  BY AsgFields
<1>2. PICK p, name, day : p = job.passenger /\ name = job.name /\ day = job.flight
  OBVIOUS
<1>3. p \in Assignments!Pending /\ p \in Assignments!Passengers
  BY <1>1, <1>2, AsgPending, AsgFields
<1>4. Clear(p)' => Clear(p) /\ AsgDataOf(p)
  BY <1>3, AsgClearOn DEF AsgOn
<1>5. /\ job.live /\ (job.layout = "parental" => person[p].minor)
      /\ Clear(p) => Says(p, name, day)
  BY <1>1, <1>2 DEF JobFits
<1>6. Clear(p)' => Says(p, name, day)'
  BY <1>4, <1>5, AsgSaysOn
<1>7. jobs'[j] = job
  BY <1>1
<1>8. job.layout = "parental" => person'[p].minor
  BY <1>3, <1>5 DEF AsgOn
<1> QED
  BY <1>2, <1>5, <1>6, <1>7, <1>8 DEF JobFits, Clear, Says

\* An edit that stays where it is.
LEMMA AsgEditOn ==
  ASSUME AsgShapes, AsgOn, NEW k \in Http, assignmentRequest'[k] = assignmentRequest[k],
         AsgStepOf(k), EditFits(k),
         ASSUME assignmentRequest[k].op = "edit", assignmentRequest[k].at # "read"
         PROVE  /\ \A d \in assignmentRequest[k].todo :
                     assignments[d].live /\ Fair(d)' => assignments'[d].live
                /\ assignmentRequest[k].at = "save" /\ Fair(assignmentRequest[k].doc)' =>
                     /\ assignments[assignmentRequest[k].doc].sig \in removed'
                          => assignments[assignmentRequest[k].doc].sig \in removed
                     /\ \A e \in DOMAIN assignments' \ DOMAIN assignments :
                          assignments'[e].live => assignments'[e].sig # assignments[assignmentRequest[k].doc].sig
  PROVE  EditFits(k)'
<1> SUFFICES ASSUME assignmentRequest[k].op = "edit", assignmentRequest[k].at # "read"
             PROVE  EditFits(k)'
  BY DEF EditFits
<1>0. PICK r : r = assignmentRequest[k] /\ r = assignmentRequest'[k]
  OBVIOUS
<1>1. /\ r \in AsgRequests /\ r.people \in [Assignments!Passengers -> AsgPeople]
      /\ \A d \in r.todo : d \in DOMAIN assignments
      /\ r.at = "save" => r.doc \in r.todo
      /\ r.of \subseteq Assignments!Pending /\ r.of \subseteq Assignments!Passengers
  BY <1>0, AsgFields, AsgPending DEF AsgStepOf
<1>2. \A p \in Assignments!Passengers : r.people[p].minor => person'[p].minor
  BY <1>0 DEF EditFits, AsgOn
<1>3. ASSUME NEW p \in r.of, Clear(p)'
      PROVE  Says(p, r.people[p].name, r.flight)'
  BY <1>0, <1>1, <1>3, AsgClearOn DEF AsgOn, EditFits, Says, AsgDataOf
<1>4. ASSUME NEW d \in r.todo
      PROVE  /\ assignments'[d].sig \in edited'
                \/ (assignments'[d].layout = "parental" => r.people[assignments'[d].passenger].minor)
             /\ Fair(d)' /\ ~(r.at = "save" /\ r.doc = d) => assignments'[d].live
  <2>1. /\ d \in DOMAIN assignments /\ assignments'[d].layout = assignments[d].layout
        /\ assignments[d].sig \in edited
             \/ (assignments[d].layout = "parental" => r.people[assignments[d].passenger].minor)
        /\ Fair(d) /\ ~(r.at = "save" /\ r.doc = d) => assignments[d].live
    BY <1>0, <1>1, <1>4 DEF AsgOn, EditFits
  <2>2. assignments'[d].sig \in edited'
          \/ (assignments'[d].layout = "parental" => r.people[assignments'[d].passenger].minor)
    BY <1>0, <2>1, AsgFairOn
  <2>3. Fair(d)' /\ ~(r.at = "save" /\ r.doc = d) => assignments'[d].live
    BY <1>0, <2>1, AsgFairOn, <1>4
  <2> QED
    BY <2>2, <2>3
<1>5. ASSUME r.at = "save"
      PROVE  /\ ~assignments'[r.doc].live
             /\ Fair(r.doc)' =>
                  /\ assignments'[r.doc].sig \notin removed'
                  /\ \A e \in DOMAIN assignments' : assignments'[e].sig = assignments'[r.doc].sig => ~assignments'[e].live
  <2>1. PICK d \in DOMAIN assignments : d = r.doc
    BY <1>1, <1>5
  <2>2. /\ assignments'[d].sig = assignments[d].sig
        /\ assignments'[d].live => assignments[d].live
    BY <1>0 DEF AsgOn
  <2>3. ~assignments[d].live
    BY <1>0, <1>5, <2>1 DEF EditFits
  <2>4. ASSUME Fair(d)'
        PROVE  assignments'[d].sig \notin removed'
    <3>1. Fair(d)
      BY <1>0, <2>4, AsgFairOn
    <3>2. assignments[d].sig \notin removed
      BY <1>0, <1>5, <2>1, <3>1 DEF EditFits
    <3> QED
      BY <1>0, <1>5, <2>1, <2>2, <2>4, <3>2
  <2>5. ASSUME Fair(d)', NEW e \in DOMAIN assignments', assignments'[e].sig = assignments'[d].sig
        PROVE  ~assignments'[e].live
    <3>1. Fair(d)
      BY <1>0, <2>5, AsgFairOn
    <3>2. CASE e \in DOMAIN assignments
      BY <1>0, <1>5, <2>1, <2>2, <2>5, <3>1, <3>2 DEF EditFits, AsgOn
    <3>3. CASE e \notin DOMAIN assignments
      BY <1>0, <1>5, <2>1, <2>2, <2>5, <3>3
    <3> QED
      BY <3>2, <3>3
  <2> QED
    BY <2>1, <2>2, <2>3, <2>4, <2>5
<1>6. \A d \in r.todo :
        /\ assignments'[d].sig \in edited'
             \/ (assignments'[d].layout = "parental" => r.people[assignments'[d].passenger].minor)
        /\ Fair(d)' /\ ~(r.at = "save" /\ r.doc = d) => assignments'[d].live
  BY <1>4
<1>7. \A p \in r.of : Clear(p)' => Says(p, r.people[p].name, r.flight)'
  BY <1>3
<1> QED
  BY <1>0, <1>2, <1>5, <1>6, <1>7 DEF EditFits, Says, Clear, Fair

\* A document that still says what the claim says, or that an edit still has to do.
LEMMA AsgDocSaysOn ==
  ASSUME AsgShapes, AsgOn, NEW d \in DOMAIN assignments, DocSays(d),
         \A k \in Http : Does(k, d) /\ assignments'[d].live =>
           \/ \E j \in Http : Does(j, d)'
           \/ ~Fair(d)' \/ Outgrown(d),
         AsgDataOf(assignments[d].passenger) \/ \E j \in Http : Does(j, d)'
  PROVE  DocSays(d)'
<1> SUFFICES ASSUME Fair(d)'
             PROVE  DocSays(d)'
  BY DEF DocSays
<1>1. PICK p \in Assignments!Passengers : p = assignments[d].passenger
  BY AsgFields
<1>2. PICK name, day : name = assignments[d].name /\ day = assignments[d].flight
  OBVIOUS
<1>3. /\ assignments'[d].passenger = p /\ assignments'[d].name = name /\ assignments'[d].flight = day
      /\ assignments'[d].layout = assignments[d].layout /\ (assignments'[d].live => assignments[d].live)
      /\ Fair(d)
  BY <1>1, <1>2, AsgFairOn DEF AsgOn
<1>4. Outgrown(d) => Outgrown(d)'
  BY <1>1, <1>3 DEF AsgOn, Outgrown
<1>5. AsgDataOf(p) /\ Says(p, name, day) => Says(p, name, day)'
  BY AsgSaysOn
<1>6. assignments[d].live =>
        \/ Outgrown(d) \/ Says(p, name, day) \/ \E h \in Http : Does(h, d)
  BY <1>1, <1>2, <1>3 DEF DocSays
<1>7. assignments'[d].live =>
        \/ Outgrown(d)' \/ Says(p, name, day)' \/ \E h \in Http : Does(h, d)'
  BY <1>1, <1>3, <1>4, <1>5, <1>6
<1> QED
  BY <1>3, <1>7 DEF DocSays, Says

LEMMA AsgDocStaysOn ==
  ASSUME AsgShapes, AsgOn, NEW d \in DOMAIN assignments, DocStays(d),
         assignments'[d].live /\ assignments[d].sig \in removed' \ removed => ~Fair(d)'
  PROVE  DocStays(d)'
<1>1. assignments'[d].sig \in edited'
        \/ (assignments'[d].layout = "parental" => person'[assignments'[d].passenger].minor)
  BY AsgFields, AsgFairOn DEF AsgOn, DocStays
<1>2. assignments'[d].live /\ assignments'[d].sig \in removed' => ~Fair(d)'
  BY AsgFairOn DEF AsgOn, DocStays
<1> QED
  BY <1>1, <1>2 DEF DocStays

LEMMA AsgAloneOn ==
  ASSUME AsgInv, AsgOn,
         \A k \in Http : assignmentRequest'[k].op = "edit" =>
           assignmentRequest[k].op = "edit" /\ assignmentRequest'[k].of = assignmentRequest[k].of
  PROVE  AsgAlone'
  BY AsgClearOn DEF AsgAlone, AsgInv

\* Numbers stay those of one, when requests keep theirs or take new ones.
LEMMA AsgRequestsSign ==
  ASSUME AsgInv, assignmentRequest' \in [Http -> AsgRequests], UNCHANGED jobs,
         \A d \in DOMAIN assignments' :
           \/ assignments'[d].sig \in edited' /\ assignments'[d].sig <= assignmentSpent
           \/ \E e \in DOMAIN assignments :
                /\ assignments'[d].sig = assignments[e].sig
                /\ assignments'[d].passenger = assignments[e].passenger
                /\ assignments'[d].type \in {"ASSIGNMENT", assignments[e].type},
         assignments' \in Seq(AsgDocs), edited \subseteq edited',
         assignmentBroken \subseteq assignmentBroken', assignmentSpent' \in Nat, assignmentSpent <= assignmentSpent',
         NEW h \in Http, \A k \in Http \ {h} : assignmentRequest'[k] = assignmentRequest[k] \/ assignmentRequest'[k] = Assignments!Rest,
         assignmentRequest'[h].n <= assignmentSpent',
         assignmentRequest'[h].op = "sign" =>
           assignmentRequest'[h].n > assignmentSpent \/ (assignmentRequest[h].op = "sign" /\ assignmentRequest'[h].n = assignmentRequest[h].n)
  PROVE  AsgNumbers' /\ AsgSigs'
<1>1. AsgShapes /\ AsgNumbers /\ AsgSigs
  BY DEF AsgInv
<1>2. /\ \A d \in DOMAIN assignments : assignments[d].sig \in Nat
      /\ \A i \in DOMAIN jobs : jobs[i].sig \in Nat
      /\ \A k \in Http : assignmentRequest[k].n \in Nat /\ assignmentRequest'[k].n \in Nat
      /\ assignmentSpent \in Nat /\ Assignments!Rest.n = 0 /\ Assignments!Rest.op = "rest"
      /\ \A d \in DOMAIN assignments' : assignments'[d].sig \in Nat
  <2>1. \A d \in DOMAIN assignments' : assignments'[d] \in AsgDocs
    OBVIOUS
  <2> QED
    BY <1>1, <2>1, AsgFields DEF AsgDocs, AsgRequests, AsgShapes
<1>3. AsgNumbers'
  BY <1>1, <1>2 DEF AsgNumbers
<1>4. \A k \in Http : assignmentRequest'[k].op = "sign" =>
        \/ assignmentRequest'[k].n > assignmentSpent /\ k = h
        \/ assignmentRequest[k].op = "sign" /\ assignmentRequest'[k].n = assignmentRequest[k].n
  BY <1>2
<1>5. \A k \in Http, d \in DOMAIN assignments' :
        assignments'[d].sig \in edited' \/ ~Signs(k, assignments[d].sig)'
  BY <1>1, <1>2, <1>4 DEF AsgSigs, Signs, AsgNumbers
<1>6. \A k \in Http, i \in DOMAIN jobs : ~Signs(k, jobs[i].sig)'
  BY <1>1, <1>2, <1>4 DEF AsgSigs, Signs, AsgNumbers
<1>7. \A j, k \in Http : Signs(j, assignmentRequest[k].n)' /\ assignmentRequest'[k].op = "sign" => j = k
  BY <1>1, <1>2, <1>4 DEF AsgSigs, Signs, AsgNumbers
<1>8. \A d, e \in DOMAIN assignments' : assignments'[d].sig = assignments'[e].sig =>
        assignments'[d].sig \in edited' \/ assignments'[d].passenger = assignments'[e].passenger
  BY <1>1 DEF AsgSigs
<1>9. \A d \in DOMAIN assignments', i \in DOMAIN jobs' : assignments'[d].sig = jobs'[i].sig =>
        \/ assignments'[d].sig \in edited'
        \/ assignments'[d].passenger = jobs'[i].passenger /\ jobs'[i].passenger \in assignmentBroken'
  BY <1>1 DEF AsgSigs
<1>10. \A d \in DOMAIN assignments' : assignments'[d].sig \in edited' \/ assignments'[d].type = "ASSIGNMENT"
  BY <1>1 DEF AsgSigs
<1> QED
  BY <1>1, <1>3, <1>5, <1>6, <1>7, <1>8, <1>9, <1>10 DEF AsgSigs

\* One request goes on, and everything else stays as it is.
LEMMA AsgRequestStep ==
  ASSUME AsgInv, NEW h \in Http, assignmentRequest' \in [Http -> AsgRequests],
         \A k \in Http \ {h} : assignmentRequest'[k] = assignmentRequest[k],
         UNCHANGED <<person, flight, moved, assignments, jobs, assignmentMet, removed, edited>>,
         assignmentBroken \subseteq assignmentBroken', assignmentSpent' \in Nat, assignmentSpent <= assignmentSpent',
         AsgStepOf(h)', SignFits(h)', EditFits(h)',
         assignmentRequest'[h].op = "edit" => assignmentRequest[h].op = "edit" /\ assignmentRequest'[h].of = assignmentRequest[h].of,
         assignmentRequest'[h].n <= assignmentSpent',
         assignmentRequest'[h].op = "sign" =>
           assignmentRequest'[h].n > assignmentSpent \/ (assignmentRequest[h].op = "sign" /\ assignmentRequest'[h].n = assignmentRequest[h].n),
         \A d \in DOMAIN assignments : assignments[d].live /\ Does(h, d) =>
           Does(h, d)' \/ ~Fair(d)' \/ Outgrown(d),
         Assignments!At(h, "edit", "save") => assignmentRequest[h].of \subseteq assignmentBroken'
  PROVE  AsgInv'
<1>1. AsgOn
  BY DEF AsgOn, AsgDataOf
<1>2. AsgShapes /\ AsgShapes'
  BY DEF AsgInv, AsgShapes
<1>3. \A k \in Http \ {h} : AsgStepOf(k)' /\ SignFits(k)' /\ EditFits(k)'
  <2> TAKE k \in Http \ {h}
  <2>1. assignmentRequest'[k] = assignmentRequest[k] /\ AsgStepOf(k) /\ SignFits(k) /\ EditFits(k)
    BY DEF AsgInv, AsgSteps, AsgSigns, AsgEdits
  <2>2. AsgStepOf(k)' /\ SignFits(k)'
    BY <1>1, <2>1, AsgStepOn, AsgSignOn
  <2>3. EditFits(k)'
    BY <1>1, <1>2, <2>1, AsgEditOn
  <2> QED
    BY <2>2, <2>3
<1>4. AsgSteps' /\ AsgSigns' /\ AsgEdits'
  BY <1>3 DEF AsgSteps, AsgSigns, AsgEdits
<1>5. AsgNumbers' /\ AsgSigs'
  BY <1>2, AsgRequestsSign DEF AsgShapes
<1>6. AsgAlone'
  BY <1>1, AsgAloneOn
<1>7. AsgJobs'
  BY <1>1, <1>2, AsgJobOn DEF AsgJobs, AsgInv
<1>8. AsgDocsFit'
  <2> SUFFICES ASSUME NEW d \in DOMAIN assignments
               PROVE  DocSays(d)' /\ DocStays(d)' /\ DocKept(d)'
    BY DEF AsgDocsFit
  <2>1. DocSays(d) /\ DocStays(d) /\ DocKept(d)
    BY DEF AsgInv, AsgDocsFit
  <2>2. DocSays(d)'
    BY <1>1, <1>2, <2>1, AsgDocSaysOn DEF AsgDataOf, Does
  <2>3. DocStays(d)'
    BY <1>1, <1>2, <2>1, AsgDocStaysOn
  <2>4. DocKept(d)'
    <3>1. ASSUME NEW k \in Http, SavesAgain(k, assignments[d].sig)
          PROVE  \/ assignments[d].sig \in edited \/ assignments[d].passenger \in assignmentBroken'
                 \/ SavesAgain(k, assignments[d].sig)'
      BY <3>1 DEF AsgInv, AsgSteps, AsgStepOf, SavesAgain, Assignments!At, AsgSigs
    <3> QED
      BY <2>1, <3>1 DEF DocKept
  <2> QED
    BY <2>2, <2>3, <2>4
<1>9. AsgOnce' /\ AsgRemoved'
  BY DEF AsgInv, AsgOnce, AsgRemoved, Clear, Fair
<1> QED
  BY <1>2, <1>4, <1>5, <1>6, <1>7, <1>8, <1>9 DEF AsgInv

\* A request that is over has nothing to fit.
LEMMA AsgRested ==
  ASSUME NEW h \in Http, assignmentRequest'[h] = Assignments!Rest
  PROVE  AsgStepOf(h)' /\ SignFits(h)' /\ EditFits(h)'
  BY DEF Assignments!Rest, AsgStepOf, SignFits, EditFits

LEMMA AsgBeginSign ==
  ASSUME AsgInv, NEW h \in Http, NEW p \in Assignments!Passengers, Assignments!BeginSign(h, p)
  PROVE  AsgInv'
<1> DEFINE step == IF p = Customer THEN "claim" ELSE "passenger"
<1> DEFINE new == [Assignments!Rest EXCEPT !.op = "sign", !.n = assignmentSpent + 1, !.of = {p}, !.at = step]
<1>1. AsgShapes /\ assignmentSpent \in Nat /\ assignmentRequest[h].op = "rest" /\ assignmentRequest[h] = Assignments!Rest
  BY DEF AsgInv, AsgShapes, Assignments!BeginSign, Assignments!Busy, AsgSteps,
      AsgStepOf
<1>2. /\ new \in AsgRequests /\ new.op = "sign" /\ new.n = assignmentSpent + 1 /\ new.of = {p}
      /\ new.at = step /\ ~new.minor
  <2>1. step \in {"claim", "passenger"}
    OBVIOUS
  <2> HIDE DEF step
  <2>2. Assignments!Rest \in AsgRequests /\ ~Assignments!Rest.minor
    BY <1>1, AsgFields DEF Assignments!Rest
  <2>3. assignmentSpent + 1 \in Nat /\ {p} \in SUBSET Assignments!Passengers
    BY <1>1
  <2> HIDE DEF Assignments!Rest
  <2> QED
    BY <2>1, <2>2, <2>3 DEF AsgRequests
<1>3. assignmentRequest' = [assignmentRequest EXCEPT ![h] = new]
  BY DEF Assignments!BeginSign
<1> HIDE DEF new
<1>4. /\ UNCHANGED <<person, flight, moved, assignments, jobs, assignmentMet, assignmentBroken, removed, edited>>
      /\ assignmentSpent' = assignmentSpent + 1
  BY DEF Assignments!BeginSign, Assignments!history, Assignments!Spend
<1>5. /\ assignmentRequest' \in [Http -> AsgRequests] /\ assignmentRequest'[h] = new
      /\ \A k \in Http \ {h} : assignmentRequest'[k] = assignmentRequest[k]
  BY <1>1, <1>2, <1>3, AsgGoes
<1>6. AsgStepOf(h)' /\ SignFits(h)' /\ EditFits(h)'
  BY <1>2, <1>5 DEF AsgStepOf, SignFits, EditFits
<1>7. ~Assignments!At(h, "edit", "save") /\ \A d \in DOMAIN assignments : ~Does(h, d)
  BY <1>1 DEF Assignments!At, Does
<1> QED
  BY <1>1, <1>2, <1>4, <1>5, <1>6, <1>7, AsgRequestStep

LEMMA AsgSignReads ==
  ASSUME AsgInv, NEW h \in Http, Assignments!SignReadsPassenger(h) \/ Assignments!SignReadsClaim(h)
  PROVE  AsgInv'
<1>1. /\ assignmentRequest[h].op = "sign" /\ assignmentRequest[h].at \in {"passenger", "claim"}
      /\ UNCHANGED <<person, flight, moved, assignments, jobs, assignmentMet, assignmentBroken, removed, edited,
                     assignmentSpent>>
  BY DEF Assignments!SignReadsPassenger, Assignments!SignReadsClaim,
      Assignments!At, Assignments!history
<1>2. /\ AsgShapes /\ AsgNumbers /\ assignmentRequest[h] \in AsgRequests /\ SignFits(h)
      /\ assignmentSpent \in Nat
  BY AsgFields DEF AsgInv, AsgSigns, AsgShapes
<1>3. PICK p \in Assignments!Passengers : assignmentRequest[h].of = {p}
  BY <1>1 DEF AsgInv, AsgSteps, AsgStepOf
<1>4. Assignments!Signer(h) = p
  BY <1>3 DEF Assignments!Signer
<1>5. person[p] \in AsgPeople /\ person[Customer].name \in Nat /\ flight \in Nat
  BY <1>2 DEF AsgShapes, AsgPeople, Assignments!Passengers
<1>6. PICK new \in AsgRequests :
        /\ assignmentRequest' = [assignmentRequest EXCEPT ![h] = new]
        /\ new.op = "sign" /\ new.n = assignmentRequest[h].n /\ new.of = {p}
        /\ \/ /\ new.at = "claim" /\ new.name = person[p].name
              /\ new.minor = person[p].minor
           \/ /\ assignmentRequest[h].at = "claim" /\ new.at = "enqueue" /\ new.flight = flight
              /\ new.minor = assignmentRequest[h].minor
              /\ new.name = IF p = Customer THEN person[p].name ELSE assignmentRequest[h].name
  <2>1. CASE Assignments!SignReadsPassenger(h)
    <3> DEFINE new == [assignmentRequest[h] EXCEPT !.at = "claim", !.name = person[p].name,
                                         !.minor = person[p].minor]
    <3>1. /\ new \in AsgRequests /\ new.op = "sign" /\ new.n = assignmentRequest[h].n
          /\ new.of = {p} /\ new.at = "claim" /\ new.name = person[p].name
          /\ new.minor = person[p].minor
      BY <1>1, <1>2, <1>3, <1>5 DEF AsgRequests, AsgPeople
    <3>2. assignmentRequest' = [assignmentRequest EXCEPT ![h] = new]
      BY <1>4, <2>1 DEF Assignments!SignReadsPassenger
    <3> QED
      BY <3>1, <3>2
  <2>2. CASE Assignments!SignReadsClaim(h)
    <3> DEFINE name == IF p = Customer THEN person[Customer].name ELSE assignmentRequest[h].name
    <3> DEFINE new == [assignmentRequest[h] EXCEPT !.at = "enqueue", !.flight = flight, !.name = name]
    <3>1. name \in Nat
      BY <1>2, <1>5 DEF AsgRequests
    <3>2. /\ new \in AsgRequests /\ new.op = "sign" /\ new.n = assignmentRequest[h].n
          /\ new.of = {p} /\ new.at = "enqueue" /\ new.flight = flight
          /\ new.minor = assignmentRequest[h].minor /\ new.name = name
      BY <1>1, <1>2, <1>3, <1>5, <3>1 DEF AsgRequests
    <3>3. assignmentRequest' = [assignmentRequest EXCEPT ![h] = new] /\ assignmentRequest[h].at = "claim"
      BY <1>4, <2>2 DEF Assignments!SignReadsClaim, Assignments!At
    <3> QED
      BY <3>2, <3>3
  <2> QED
    BY <2>1, <2>2
<1>7. /\ assignmentRequest' \in [Http -> AsgRequests] /\ assignmentRequest'[h] = new
      /\ \A k \in Http \ {h} : assignmentRequest'[k] = assignmentRequest[k]
  BY <1>2, <1>6, AsgGoes
<1>8. /\ assignmentRequest[h].minor => person[p].minor
      /\ Clear(p) /\ assignmentRequest[h].at = "claim" /\ p # Customer
           => assignmentRequest[h].name = person[p].name
  BY <1>1, <1>2, <1>3 DEF SignFits
<1>9. AsgStepOf(h)' /\ EditFits(h)'
  BY <1>6, <1>7 DEF AsgStepOf, EditFits
<1>10. SignFits(h)'
  BY <1>7, <1>6, <1>1, <1>8 DEF SignFits, Says, Clear
<1>11. ~Assignments!At(h, "edit", "save") /\ \A d \in DOMAIN assignments : ~Does(h, d)
  BY <1>1 DEF Assignments!At, Does
<1>12. assignmentRequest'[h].n <= assignmentSpent
  BY <1>2, <1>6, <1>7 DEF AsgNumbers
<1> QED
  BY <1>1, <1>2, <1>6, <1>7, <1>9, <1>10, <1>11, <1>12, AsgRequestStep

\* A request that is done with a document ends, or has the others to do.
LEMMA AsgDone ==
  ASSUME AsgShapes, NEW h \in Http, AsgStepOf(h), assignmentRequest[h].op = "edit",
         assignmentRequest[h].at \in {"remove", "save"}
  PROVE  /\ Assignments!Done(h) \in AsgRequests
         /\ Assignments!Done(h) = Assignments!Rest => assignmentRequest[h].todo = {assignmentRequest[h].doc}
         /\ Assignments!Done(h) # Assignments!Rest =>
              /\ Assignments!Done(h).op = "edit" /\ Assignments!Done(h).at = "next" /\ Assignments!Done(h).n = assignmentRequest[h].n
              /\ Assignments!Done(h).of = assignmentRequest[h].of /\ Assignments!Done(h).people = assignmentRequest[h].people
              /\ Assignments!Done(h).flight = assignmentRequest[h].flight
              /\ Assignments!Done(h).owner = assignmentRequest[h].owner
              /\ Assignments!Done(h).todo = assignmentRequest[h].todo \ {assignmentRequest[h].doc}
<1> DEFINE r == assignmentRequest[h]
<1> DEFINE new == [r EXCEPT !.at = "next", !.doc = 0, !.todo = r.todo \ {r.doc}]
<1>1. r \in AsgRequests /\ Assignments!Rest \in AsgRequests /\ Assignments!Rest.op = "rest"
  BY AsgFields
<1>2. r.doc \in r.todo
  BY DEF AsgStepOf
<1>3. /\ new \in AsgRequests /\ new.op = "edit" /\ new.at = "next" /\ new.n = r.n
      /\ new.of = r.of /\ new.people = r.people /\ new.flight = r.flight
      /\ new.owner = r.owner /\ new.todo = r.todo \ {r.doc}
  BY <1>1 DEF AsgRequests
<1>4. Assignments!Done(h) = IF r.todo \ {r.doc} = {} THEN Assignments!Rest ELSE new
  BY DEF Assignments!Done
<1> HIDE DEF new
<1>5. new # Assignments!Rest
  BY <1>1, <1>3
<1> QED
  BY <1>1, <1>2, <1>3, <1>4, <1>5

\* What an edit has still to do fits when it is done with one document.
LEMMA AsgDoneFits ==
  ASSUME AsgInv, AsgOn, NEW h \in Http, assignmentRequest[h].op = "edit",
         assignmentRequest[h].at \in {"remove", "save"}, assignmentRequest'[h] = Assignments!Done(h),
         \A d \in assignmentRequest[h].todo :
           d # assignmentRequest[h].doc /\ assignments[d].live /\ Fair(d)' => assignments'[d].live
  PROVE  AsgStepOf(h)' /\ SignFits(h)' /\ EditFits(h)'
<1>1. AsgShapes /\ AsgStepOf(h) /\ EditFits(h)
  BY DEF AsgInv, AsgSteps, AsgEdits
<1>2. CASE Assignments!Done(h) = Assignments!Rest
  BY <1>2, AsgRested
<1>3. CASE Assignments!Done(h) # Assignments!Rest
  <2> DEFINE r == assignmentRequest[h]
  <2> PICK new \in AsgRequests : new = assignmentRequest'[h]
    BY <1>1, AsgDone
  <2>1. /\ new.op = "edit" /\ new.at = "next" /\ new.of = r.of /\ new.people = r.people
        /\ new.flight = r.flight /\ new.owner = r.owner /\ new.todo = r.todo \ {r.doc}
    BY <1>1, <1>3, AsgDone
  <2>2. /\ r.people \in [Assignments!Passengers -> AsgPeople] /\ r.owner \in AsgOwners
        /\ \A d \in r.todo :
             /\ d \in DOMAIN assignments /\ d \in DOMAIN r.owner /\ r.owner[d] \in r.of
             /\ assignments[d].sig \in edited \/ r.owner[d] = assignments[d].passenger
        /\ r.of \subseteq Assignments!Pending /\ r.of \subseteq Assignments!Passengers
    BY <1>1, AsgFields, AsgPending DEF AsgStepOf
  <2>3. \A d \in r.todo :
          /\ d \in DOMAIN assignments'
          /\ assignments'[d].sig \in edited' \/ r.owner[d] = assignments'[d].passenger
    BY <2>2, AsgFairOn DEF AsgOn
  <2>4. AsgStepOf(h)'
    BY <2>1, <2>2, <2>3 DEF AsgStepOf
  <2>5. SignFits(h)'
    BY <2>1 DEF SignFits
  <2>6. \A p \in Assignments!Passengers : r.people[p].minor => person'[p].minor
    BY <1>1 DEF EditFits, AsgOn
  <2>7. ASSUME NEW p \in r.of, Clear(p)'
        PROVE  r.people[p].name = person'[p].name /\ (r.flight = flight' \/ flight' = moved')
    BY <2>2, <2>7, AsgClearOn, <1>1 DEF AsgOn, EditFits, Says, AsgDataOf
  <2>8. ASSUME NEW d \in r.todo \ {r.doc}
        PROVE  /\ assignments'[d].sig \in edited'
                  \/ (assignments'[d].layout = "parental" => r.people[assignments'[d].passenger].minor)
               /\ Fair(d)' => assignments'[d].live
    <3>1. /\ d \in DOMAIN assignments /\ assignments'[d].layout = assignments[d].layout
          /\ assignments[d].sig \in edited
               \/ (assignments[d].layout = "parental" => r.people[assignments[d].passenger].minor)
          /\ Fair(d) => assignments[d].live
      BY <1>1, <2>2 DEF AsgOn, EditFits
    <3> QED
      BY <3>1, AsgFairOn
  <2> HIDE DEF r
  <2>9. EditFits(h)'
    BY <2>1, <2>6, <2>7, <2>8 DEF EditFits, Says
  <2> QED
    BY <2>4, <2>5, <2>9
<1> QED
  BY <1>2, <1>3

LEMMA AsgEditReads ==
  ASSUME AsgInv, NEW h \in Http, Assignments!EditReads(h)
  PROVE  AsgInv'
<1> DEFINE todo == Assignments!AssignmentsOf(assignmentRequest[h].of)
<1>1. /\ assignmentRequest[h].op = "edit" /\ assignmentRequest[h].at = "read"
      /\ UNCHANGED <<person, flight, moved, assignments, jobs, assignmentMet, assignmentBroken, removed, edited,
                     assignmentSpent>>
  BY DEF Assignments!EditReads, Assignments!At, Assignments!history
<1>2. /\ AsgShapes /\ AsgNumbers /\ assignmentRequest[h] \in AsgRequests /\ assignmentSpent \in Nat
      /\ assignmentRequest[h].of \subseteq Assignments!Passengers
  BY AsgFields DEF AsgInv, AsgShapes
<1>3. ~Assignments!At(h, "edit", "save")
  BY <1>1 DEF Assignments!At
<1>4. todo \subseteq DOMAIN assignments /\ \A d \in todo : assignments[d].live /\ assignments[d].passenger \in assignmentRequest[h].of
  BY DEF Assignments!AssignmentsOf
<1>5. \A d \in DOMAIN assignments : assignments[d].live /\ Does(h, d) => d \in todo \/ ~Fair(d)
  BY DEF Assignments!AssignmentsOf, Does, Fair, AsgInv, AsgSigs
<1>6. CASE todo = {}
  BY <1>6, <1>2, AsgFields, AsgGoes, AsgRested, <1>1, <1>3, <1>5, AsgRequestStep DEF
     Assignments!EditReads, Assignments!End, Fair, Clear
<1>7. CASE todo # {}
  <2> DEFINE owner == [d \in todo |-> assignments[d].passenger]
             new == [assignmentRequest[h] EXCEPT !.at = "next", !.people = person, !.flight = flight,
                                       !.todo = todo, !.owner = owner]
  <2>1. assignmentRequest' = [assignmentRequest EXCEPT ![h] = new]
    BY <1>7 DEF Assignments!EditReads
  <2>2. todo \subseteq Nat /\ flight \in Nat /\ person \in [Assignments!Passengers -> AsgPeople]
    BY <1>2, <1>4, AsgFields DEF AsgShapes
  <2>10. owner \in AsgOwners
    <3>1. \A d \in todo : assignments[d].passenger \in Assignments!Passengers
      BY <1>2, <1>4, AsgFields
    <3>2. todo \in SUBSET Nat
      BY <2>2
    <3> HIDE DEF todo
    <3>3. owner \in [todo -> Assignments!Passengers]
      BY <3>1
    <3> HIDE DEF owner
    <3> QED
      BY <3>2, <3>3 DEF AsgOwners
  <2> HIDE DEF todo
  <2>11. DOMAIN owner = todo /\ \A d \in todo : owner[d] = assignments[d].passenger
    OBVIOUS
  <2> HIDE DEF owner
  <2>3. /\ new \in AsgRequests /\ new.op = "edit" /\ new.n = assignmentRequest[h].n
        /\ new.of = assignmentRequest[h].of /\ new.at = "next" /\ new.people = person
        /\ new.flight = flight /\ new.todo = todo /\ new.owner = owner
    BY <1>1, <1>2, <2>2, <2>10 DEF AsgRequests
  <2> HIDE DEF new
  <2>4. /\ assignmentRequest' \in [Http -> AsgRequests] /\ assignmentRequest'[h] = new
        /\ \A k \in Http \ {h} : assignmentRequest'[k] = assignmentRequest[k]
    BY <1>2, <2>1, <2>3, AsgGoes
  <2>5. AsgStepOf(h)' /\ SignFits(h)'
    BY <1>1, <1>4, <2>2, <2>3, <2>4, <2>10, <2>11 DEF AsgStepOf, SignFits
  <2>6. \A d \in todo : assignments[d].sig \in edited \/ (assignments[d].layout = "parental" => person[assignments[d].passenger].minor)
    BY <1>4 DEF AsgInv, AsgDocsFit, DocStays
  <2>7. EditFits(h)'
    BY <1>1, <1>4, <2>3, <2>4, <2>6 DEF EditFits, Says
  <2>8. \A d \in DOMAIN assignments : assignments[d].live /\ Does(h, d) => Does(h, d)' \/ ~Fair(d)'
    BY <1>1, <1>4, <1>5, <2>3, <2>4 DEF Does, Fair, Clear
  <2>9. assignmentRequest[h].n <= assignmentSpent
    BY <1>2 DEF AsgNumbers
  <2> QED
    BY <1>1, <1>2, <1>3, <2>3, <2>4, <2>5, <2>7, <2>8, <2>9, AsgRequestStep
<1> QED
  BY <1>6, <1>7

LEMMA AsgPick ==
  ASSUME AsgInv, NEW h \in Http, Assignments!Pick(h)
  PROVE  AsgInv'
<1>1. /\ assignmentRequest[h].op = "edit" /\ assignmentRequest[h].at = "next"
      /\ UNCHANGED <<person, flight, moved, assignments, jobs, assignmentMet, assignmentBroken, removed, edited,
                     assignmentSpent>>
  BY DEF Assignments!Pick, Assignments!At, Assignments!history
<1>2. /\ AsgShapes /\ AsgNumbers /\ assignmentRequest[h] \in AsgRequests /\ assignmentSpent \in Nat
      /\ assignmentRequest[h].todo \subseteq Nat /\ AsgStepOf(h) /\ EditFits(h)
  BY AsgFields DEF AsgInv, AsgShapes, AsgSteps, AsgEdits, AsgRequests
<1>3. PICK d \in assignmentRequest[h].todo :
        assignmentRequest' = [assignmentRequest EXCEPT ![h] = [assignmentRequest[h] EXCEPT !.at = "remove", !.doc = d]]
  BY DEF Assignments!Pick
<1> DEFINE new == [assignmentRequest[h] EXCEPT !.at = "remove", !.doc = d]
<1>4. /\ new \in AsgRequests /\ new.op = "edit" /\ new.at = "remove" /\ new.doc = d
      /\ new.n = assignmentRequest[h].n /\ new.of = assignmentRequest[h].of /\ new.people = assignmentRequest[h].people
      /\ new.flight = assignmentRequest[h].flight /\ new.todo = assignmentRequest[h].todo
      /\ new.owner = assignmentRequest[h].owner
  BY <1>1, <1>2 DEF AsgRequests
<1>5. assignmentRequest' = [assignmentRequest EXCEPT ![h] = new]
  BY <1>3
<1> HIDE DEF new
<1>6. /\ assignmentRequest' \in [Http -> AsgRequests] /\ assignmentRequest'[h] = new
      /\ \A k \in Http \ {h} : assignmentRequest'[k] = assignmentRequest[k]
  BY <1>2, <1>4, <1>5, AsgGoes
<1>7. AsgStepOf(h)' /\ SignFits(h)'
  BY <1>1, <1>2, <1>4, <1>6 DEF AsgStepOf, SignFits
<1>8. EditFits(h)'
  BY <1>1, <1>2, <1>4, <1>6 DEF EditFits, Says, Clear, Fair
<1>9. ~Assignments!At(h, "edit", "save") /\ \A k \in DOMAIN assignments : Does(h, k) => Does(h, k)'
  BY <1>1, <1>4, <1>6 DEF Assignments!At, Does
<1>10. assignmentRequest[h].n <= assignmentSpent
  BY <1>2 DEF AsgNumbers
<1> QED
  BY <1>1, <1>2, <1>4, <1>6, <1>7, <1>8, <1>9, <1>10, AsgRequestStep

\* The signature is not on the page of an old assignment only if its passenger has
\* become a minor since.
LEMMA AsgRemovesNothing ==
  ASSUME AsgInv, NEW h \in Http, Assignments!Removes(h), ~Assignments!SignatureFound(h),
         Assignments!Needed(h) # "regular"
  PROVE  AsgInv'
<1>1. /\ assignmentRequest[h].op = "edit" /\ assignmentRequest[h].at = "remove"
      /\ assignmentRequest' = [assignmentRequest EXCEPT ![h] = Assignments!Done(h)]
      /\ UNCHANGED <<person, flight, moved, assignments, jobs, assignmentMet, assignmentBroken, removed, edited,
                     assignmentSpent>>
  BY DEF Assignments!Removes, Assignments!At, Assignments!history
<1>2. /\ AsgShapes /\ AsgNumbers /\ assignmentRequest[h] \in AsgRequests /\ assignmentSpent \in Nat
      /\ AsgStepOf(h) /\ EditFits(h) /\ Assignments!Rest.op = "rest" /\ Assignments!Rest.n = 0
  BY AsgFields DEF AsgInv, AsgShapes, AsgSteps, AsgEdits
<1>3. PICK new \in AsgRequests : new = Assignments!Done(h)
  BY <1>1, <1>2, AsgDone
<1>4. /\ assignmentRequest' \in [Http -> AsgRequests] /\ assignmentRequest'[h] = new
      /\ \A k \in Http \ {h} : assignmentRequest'[k] = assignmentRequest[k]
  BY <1>1, <1>2, <1>3, AsgGoes
<1>5. AsgOn
  BY <1>1 DEF AsgOn, AsgDataOf
<1>6. AsgStepOf(h)' /\ SignFits(h)' /\ EditFits(h)'
  BY <1>1, <1>3, <1>4, <1>5, AsgDoneFits
<1>7. /\ new.op = "edit" => new.of = assignmentRequest[h].of
      /\ new.op # "sign" /\ new.n <= assignmentSpent /\ ~Assignments!At(h, "edit", "save")
  BY <1>1, <1>2, <1>3, AsgDone DEF AsgNumbers, Assignments!At
<1>8. PICK d \in DOMAIN assignments : d = assignmentRequest[h].doc /\ d \in assignmentRequest[h].todo
  <2>1. assignmentRequest[h].op = "edit" /\ assignmentRequest[h].at = "remove"
    BY <1>1
  <2>2. AsgStepOf(h)
    BY <1>2
  <2> QED
    BY <2>1, <2>2 DEF AsgStepOf
<1>9. Outgrown(d) \/ ~Fair(d)'
  <2> SUFFICES ASSUME assignments[d].sig \notin edited
               PROVE  Outgrown(d)
    BY <1>5, <1>8, AsgFairOn DEF Fair
  <2>1. assignmentRequest[h].owner[d] = assignments[d].passenger
    BY <1>1, <1>2, <1>8 DEF AsgStepOf
  <2>2. /\ assignments[d].passenger \in Assignments!Passengers
        /\ assignments[d].layout \in {"regular", "parental"}
    BY <1>2, AsgFields DEF AsgDocs, Assignments!Layouts
  <2>3. /\ Assignments!Needed(h) \in {"regular", "parental"}
        /\ Assignments!Needed(h) = "parental" =>
             assignmentRequest[h].people[assignments[d].passenger].minor
        /\ Assignments!Needed(h) # assignments[d].layout
    BY <1>8, <2>1 DEF Assignments!Needed, Assignments!Owner, Assignments!Template,
       Assignments!SignatureFound
  <2> QED
    BY <1>1, <1>2, <2>2, <2>3 DEF EditFits, Outgrown
<1>10. ASSUME NEW k \in DOMAIN assignments, Does(h, k)
       PROVE  Does(h, k)' \/ Outgrown(k) \/ ~Fair(k)'
  BY <1>1, <1>10, <1>9, <1>2, <1>8, AsgDone, <1>3, <1>4 DEF Does
<1> QED
  BY <1>1, <1>2, <1>4, <1>6, <1>7, <1>10, AsgRequestStep

LEMMA AsgThrow ==
  ASSUME AsgInv, NEW h \in Http, Assignments!Throw(h)
  PROVE  AsgInv'
<1>1. /\ assignmentRequest[h].op # "rest" /\ assignmentBroken' = assignmentBroken \cup assignmentRequest[h].of
      /\ assignmentRequest' = [assignmentRequest EXCEPT ![h] =
           IF assignmentRequest[h].at \in {"remove", "save"} THEN Assignments!Done(h) ELSE Assignments!Rest]
      /\ assignmentSpent' = assignmentSpent + 1
      /\ UNCHANGED <<person, flight, moved, assignments, jobs, assignmentMet, removed, edited>>
  BY DEF Assignments!Throw, Assignments!Busy, Assignments!Spend
<1>2. /\ AsgShapes /\ AsgNumbers /\ assignmentRequest[h] \in AsgRequests /\ assignmentSpent \in Nat
      /\ AsgStepOf(h) /\ Assignments!Rest \in AsgRequests /\ Assignments!Rest.op = "rest" /\ Assignments!Rest.n = 0
      /\ assignmentRequest[h].of \subseteq Assignments!Passengers
  BY AsgFields DEF AsgInv, AsgShapes, AsgSteps
<1>3. assignmentRequest[h].at \in {"remove", "save"} => assignmentRequest[h].op = "edit"
  BY <1>1, <1>2 DEF AsgStepOf, AsgRequests
<1>4. PICK new \in AsgRequests :
        /\ assignmentRequest' = [assignmentRequest EXCEPT ![h] = new]
        /\ \/ new = Assignments!Rest
           \/ assignmentRequest[h].op = "edit" /\ assignmentRequest[h].at \in {"remove", "save"} /\ new = Assignments!Done(h)
  BY <1>1, <1>2, <1>3, AsgDone
<1>5. /\ assignmentRequest' \in [Http -> AsgRequests] /\ assignmentRequest'[h] = new
      /\ \A k \in Http \ {h} : assignmentRequest'[k] = assignmentRequest[k]
  BY <1>2, <1>4, AsgGoes
<1>6. AsgOn
  BY <1>1 DEF AsgOn, AsgDataOf
<1>7. AsgStepOf(h)' /\ SignFits(h)' /\ EditFits(h)'
  BY <1>5, AsgRested, <1>1, <1>4, <1>6, AsgDoneFits
<1>8. /\ new.op = "edit" => assignmentRequest[h].op = "edit" /\ new.of = assignmentRequest[h].of
      /\ new.op # "sign" /\ new.n <= assignmentSpent
  BY <1>2, <1>4, AsgDone DEF AsgNumbers
<1>9. new.n <= assignmentSpent'
  BY <1>1, <1>2, <1>8 DEF AsgRequests
<1>10. \A d \in DOMAIN assignments : Does(h, d) => ~Fair(d)'
  BY <1>1 DEF Does, Clear, Fair
<1> QED
  BY <1>1, <1>2, <1>5, <1>7, <1>8, <1>9, <1>10, AsgRequestStep

\* The documents, when none is added.
LEMMA AsgDocsOn ==
  ASSUME AsgInv, AsgOn, DOMAIN assignments' = DOMAIN assignments,
         \A d \in DOMAIN assignments :
           /\ AsgDataOf(assignments[d].passenger) \/ \E k \in Http : Does(k, d)'
           /\ assignments[d].live => assignments'[d].live \/ assignments[d].sig \in removed' \cup edited'
                                \/ \E k \in Http : SavesAgain(k, assignments[d].sig)'
           /\ assignments'[d].live /\ assignments[d].sig \in removed' \ removed
                => \/ assignments[d].passenger \in assignmentMet' \cup assignmentBroken'
                   \/ assignments[d].sig \in edited',
         \A d \in DOMAIN assignments, k \in Http :
           /\ Does(k, d) /\ assignments'[d].live =>
                \/ \E j \in Http : Does(j, d)'
                \/ assignments[d].passenger \in assignmentMet' \cup assignmentBroken' \/ Outgrown(d)
                \/ assignments[d].sig \in edited'
           /\ SavesAgain(k, assignments[d].sig) =>
                \/ SavesAgain(k, assignments[d].sig)'
                \/ assignments[d].passenger \in assignmentBroken' \/ assignments[d].sig \in edited',
         \A s \in removed' \ removed : \E d \in DOMAIN assignments : assignments[d].sig = s
  PROVE  AsgDocsFit' /\ AsgOnce' /\ AsgRemoved'
<1>1. AsgShapes /\ AsgDocsFit /\ AsgOnce /\ AsgRemoved
  BY DEF AsgInv
<1>2. \A d \in DOMAIN assignments :
        /\ assignments'[d].sig = assignments[d].sig
        /\ assignments'[d].live => assignments[d].live
  BY DEF AsgOn
<1>3. ASSUME NEW d \in DOMAIN assignments
      PROVE  DocSays(d)' /\ DocStays(d)' /\ DocKept(d)'
  <2>1. DocSays(d) /\ DocStays(d) /\ DocKept(d)
    BY <1>1 DEF AsgDocsFit
  <2>2. \/ assignments[d].passenger \in assignmentMet' \cup assignmentBroken'
        \/ assignments[d].sig \in edited'
        => ~Fair(d)'
    BY AsgFairOn
  <2>3. DocSays(d)'
    BY <1>1, <2>1, <2>2, AsgDocSaysOn
  <2>4. DocStays(d)'
    BY <1>1, <2>1, <2>2, AsgDocStaysOn
  <2>5. DocKept(d)'
    <3> SUFFICES ASSUME assignments[d].sig \notin removed', assignments[d].sig \notin edited',
                        assignments'[d].passenger \notin assignmentBroken'
                 PROVE  \/ \E e \in DOMAIN assignments' :
                             assignments'[e].live /\ assignments'[e].sig = assignments[d].sig
                        \/ \E k \in Http : SavesAgain(k, assignments[d].sig)'
      BY <1>2 DEF DocKept, SavesAgain
    <3>1. /\ assignments[d].passenger \notin assignmentBroken' /\ assignments[d].sig \notin edited
          /\ assignments[d].sig \notin removed /\ assignments[d].passenger \notin assignmentBroken
      BY <1>2, AsgFairOn DEF AsgOn
    <3>2. CASE \E k \in Http : SavesAgain(k, assignments[d].sig)
      BY <3>1, <3>2
    <3>3. ASSUME NEW e \in DOMAIN assignments, assignments[e].live,
                 assignments[e].sig = assignments[d].sig
          PROVE  \/ assignments'[e].live /\ assignments'[e].sig = assignments[d].sig
                 \/ \E k \in Http : SavesAgain(k, assignments[d].sig)'
      BY <1>2, <3>3 DEF SavesAgain
    <3> QED
      BY <2>1, <3>1, <3>2, <3>3 DEF DocKept
  <2> QED
    BY <2>3, <2>4, <2>5
<1>4. AsgDocsFit'
  BY <1>3 DEF AsgDocsFit
<1>5. AsgOnce'
  BY <1>1, <1>2, AsgFairOn DEF AsgOnce
<1>6. AsgRemoved'
  BY <1>1, <1>2 DEF AsgRemoved
<1> QED
  BY <1>4, <1>5, <1>6

\* The documents, when one is added.
LEMMA AsgAppend ==
  ASSUME AsgInv, AsgOn, NEW new \in AsgDocs, assignments' = Append(assignments, new), new.live,
         UNCHANGED <<person, flight, moved, removed, edited>>,
         new.sig \in edited \/ (new.layout = "parental" => person[new.passenger].minor),
         new.sig \notin edited /\ Clear(new.passenger)' =>
           /\ Says(new.passenger, new.name, new.flight) /\ new.sig \notin removed
           /\ \A e \in DOMAIN assignments : assignments[e].live => assignments[e].sig # new.sig,
         \A d \in DOMAIN assignments, k \in Http :
           /\ Does(k, d) /\ assignments[d].live =>
                \/ \E j \in Http : Does(j, d)'
                \/ assignments[d].passenger \in assignmentMet' \cup assignmentBroken'
           /\ SavesAgain(k, assignments[d].sig) =>
                \/ SavesAgain(k, assignments[d].sig)' \/ new.sig = assignments[d].sig
                \/ assignments[d].sig \in edited \/ assignments[d].passenger \in assignmentBroken',
         \A d \in DOMAIN assignments : assignments[d].sig = new.sig =>
           assignments[d].sig \in edited \/ assignments[d].passenger = new.passenger
  PROVE  AsgDocsFit' /\ AsgOnce' /\ AsgRemoved'
<1> PICK n \in Nat : n = Len(assignments) + 1
  BY DEF AsgInv, AsgShapes
<1>1. AsgShapes /\ AsgDocsFit /\ AsgOnce /\ AsgRemoved
  BY DEF AsgInv
<1>2. /\ DOMAIN assignments' = DOMAIN assignments \cup {n} /\ n \notin DOMAIN assignments /\ assignments'[n] = new
      /\ \A d \in DOMAIN assignments : assignments'[d] = assignments[d]
  BY <1>1 DEF AsgShapes
<1>3. ASSUME NEW d \in DOMAIN assignments
      PROVE  DocSays(d)' /\ DocStays(d)' /\ DocKept(d)'
  <2>1. DocSays(d) /\ DocStays(d) /\ DocKept(d)
    BY <1>1 DEF AsgDocsFit
  <2>2. AsgDataOf(assignments[d].passenger)
    BY DEF AsgDataOf
  <2>3. DocSays(d)'
    BY <1>1, <1>2, <2>1, <2>2, AsgDocSaysOn, AsgFairOn
  <2>4. DocStays(d)'
    BY <1>1, <2>1, AsgDocStaysOn
  <2>5. DocKept(d)'
    BY <1>2, <2>1 DEF DocKept, AsgOn
  <2> QED
    BY <2>3, <2>4, <2>5
<1>4. DocSays(n)' /\ DocStays(n)' /\ DocKept(n)'
  BY <1>2 DEF DocSays, Fair, Clear, Says, DocStays, DocKept
<1>5. AsgDocsFit'
  BY <1>2, <1>3, <1>4 DEF AsgDocsFit
<1>6. AsgOnce'
  BY <1>1, <1>2 DEF AsgOnce, Clear, AsgOn, Fair
<1>7. AsgRemoved'
  BY <1>1, <1>2 DEF AsgRemoved
<1> QED
  BY <1>5, <1>6, <1>7

\* The requests that stay where they are, while no document goes and none comes.
LEMMA AsgWaits ==
  ASSUME AsgInv, AsgOn, NEW k \in Http, assignmentRequest'[k] = assignmentRequest[k],
         UNCHANGED <<assignments, removed, edited>>
  PROVE  AsgStepOf(k)' /\ SignFits(k)' /\ EditFits(k)'
  BY AsgStepOn, AsgSignOn, AsgEditOn DEF AsgInv, AsgSteps, AsgSigns, AsgEdits

LEMMA AsgEnqueue ==
  ASSUME AsgInv, NEW h \in Http, Assignments!Enqueue(h)
  PROVE  AsgInv'
<1> DEFINE job == [sig |-> assignmentRequest[h].n, passenger |-> Assignments!Signer(h),
                   name |-> assignmentRequest[h].name, flight |-> assignmentRequest[h].flight,
                   layout |-> Assignments!Template(assignmentRequest[h].minor),
                   type |-> "ASSIGNMENT", live |-> TRUE]
<1>1. /\ assignmentRequest[h].op = "sign" /\ assignmentRequest[h].at = "enqueue"
      /\ jobs' = Append(jobs, job) /\ assignmentRequest' = [assignmentRequest EXCEPT ![h] = Assignments!Rest]
      /\ UNCHANGED <<person, flight, moved, assignments, assignmentMet, assignmentBroken, removed, edited,
                     assignmentSpent>>
  BY DEF Assignments!Enqueue, Assignments!At, Assignments!End,
      Assignments!history
<1>2. /\ AsgShapes /\ AsgNumbers /\ AsgSigs /\ AsgJobs /\ assignmentRequest[h] \in AsgRequests
      /\ SignFits(h) /\ Assignments!Rest \in AsgRequests /\ Assignments!Rest.op = "rest" /\ Assignments!Rest.n = 0
      /\ assignmentSpent \in Nat
  BY AsgFields DEF AsgInv, AsgSigns, AsgShapes
<1>3. PICK p \in Assignments!Passengers : assignmentRequest[h].of = {p}
  BY <1>1 DEF AsgInv, AsgSteps, AsgStepOf
<1>4. Assignments!Signer(h) = p
  BY <1>3 DEF Assignments!Signer
<1>5. PICK new \in AsgDocs :
        /\ jobs' = Append(jobs, new)
        /\ new.sig = assignmentRequest[h].n /\ new.passenger = p /\ new.name = assignmentRequest[h].name
        /\ new.flight = assignmentRequest[h].flight /\ new.live /\ new.type = "ASSIGNMENT"
        /\ new.layout = "parental" => assignmentRequest[h].minor
  <2>1. job \in AsgDocs
    BY <1>2, <1>4 DEF AsgDocs, AsgRequests, Assignments!Template,
        Assignments!Layouts, Assignments!Types
  <2>2. job.layout = "parental" => assignmentRequest[h].minor
    BY DEF Assignments!Template
  <2> QED
    BY <1>1, <1>4, <2>1, <2>2
<1> HIDE DEF job
<1>6. /\ assignmentRequest' \in [Http -> AsgRequests] /\ assignmentRequest'[h] = Assignments!Rest
      /\ \A k \in Http \ {h} : assignmentRequest'[k] = assignmentRequest[k]
  BY <1>1, <1>2, AsgGoes
<1> PICK n \in Nat : n = Len(jobs) + 1
  BY <1>2 DEF AsgShapes
<1>7. /\ DOMAIN jobs' = DOMAIN jobs \cup {n} /\ n \notin DOMAIN jobs /\ jobs'[n] = new
      /\ \A i \in DOMAIN jobs : jobs'[i] = jobs[i]
  BY <1>2, <1>5 DEF AsgShapes
<1>8. AsgOn
  BY <1>1 DEF AsgOn, AsgDataOf
<1>9. AsgShapes'
  BY <1>1, <1>2, <1>5, <1>6 DEF AsgShapes
<1>10. \A k \in Http : AsgStepOf(k)' /\ SignFits(k)' /\ EditFits(k)'
  <2> TAKE k \in Http
  <2>1. CASE k = h
    BY <1>6, <2>1, AsgRested
  <2>2. CASE k # h
    BY <1>1, <1>6, <1>8, <2>2, AsgWaits
  <2> QED
    BY <2>1, <2>2
<1>11. AsgNumbers'
  BY <1>1, <1>2, <1>5, <1>7, <1>6 DEF AsgNumbers
<1>12. AsgSigs'
  BY <1>1, <1>2, <1>5, <1>6, <1>7 DEF AsgSigs, Signs
<1>13. AsgAlone'
  BY <1>2, <1>6, <1>8, AsgAloneOn
<1>14. AsgJobs'
  BY <1>2, <1>7, <1>8, AsgJobOn, <1>1, <1>3, <1>5 DEF AsgJobs, SignFits, JobFits,
     Clear, Says
<1>15. AsgDocsFit' /\ AsgOnce' /\ AsgRemoved'
  BY <1>1, <1>6, <1>8, AsgDocsOn DEF AsgDataOf, Does, SavesAgain, Assignments!At
<1> QED
  BY <1>9, <1>10, <1>11, <1>12, <1>13, <1>14, <1>15
     DEF AsgInv, AsgSteps, AsgSigns, AsgEdits

\* The job at the head, and those behind it.
LEMMA AsgJobHead ==
  ASSUME AsgShapes, jobs # <<>>
  PROVE  /\ Head(jobs) = jobs[1] /\ 1 \in DOMAIN jobs /\ Tail(jobs) \in Seq(AsgDocs)
         /\ \A i \in DOMAIN Tail(jobs) :
              i \in Nat /\ i + 1 \in DOMAIN jobs /\ i + 1 # 1 /\ Tail(jobs)[i] = jobs[i + 1]
  BY DEF AsgShapes

\* A job leaves the queue, and its document may be there.
LEMMA AsgJobGoes ==
  ASSUME AsgInv, AsgOn, jobs # <<>>, jobs' = Tail(jobs), assignmentRequest' = assignmentRequest,
         assignmentSpent' \in Nat, assignmentSpent <= assignmentSpent',
         NEW job \in AsgDocs, job = jobs[1],
         assignments' = assignments \/ assignments' = Append(assignments, job),
         UNCHANGED <<person, flight, moved, edited>>
  PROVE  AsgNumbers' /\ AsgSigs' /\ AsgAlone' /\ AsgJobs'
<1>1. /\ AsgShapes /\ AsgNumbers /\ AsgSigs /\ AsgJobs /\ assignmentSpent \in Nat
      /\ \A d \in DOMAIN assignments : assignments[d].sig \in Nat
      /\ \A i \in DOMAIN jobs : jobs[i].sig \in Nat
      /\ \A k \in Http : assignmentRequest[k].n \in Nat
  BY AsgFields DEF AsgInv, AsgShapes, AsgDocs, AsgRequests
<1>2. \A i \in DOMAIN jobs' :
        i \in Nat /\ i + 1 \in DOMAIN jobs /\ i + 1 # 1 /\ jobs'[i] = jobs[i + 1]
  BY <1>1, AsgJobHead
<1>3. 1 \in DOMAIN jobs
  BY <1>1, AsgJobHead
<1>4. ASSUME NEW d \in DOMAIN assignments'
      PROVE  assignments'[d] = job \/ (d \in DOMAIN assignments /\ assignments'[d] = assignments[d])
  <2>1. CASE assignments' = assignments
    BY <2>1
  <2>2. CASE assignments' = Append(assignments, job)
    BY <1>1, <2>2 DEF AsgShapes
  <2> QED
    BY <2>1, <2>2
<1>5. AsgNumbers'
  BY <1>1, <1>3, <1>4, <1>2 DEF AsgNumbers
<1>6. AsgSigs'
  <2>1. \A d \in DOMAIN assignments : assignments[d].sig = job.sig =>
          assignments[d].sig \in edited \/ assignments[d].passenger = job.passenger
    BY <1>1, <1>3 DEF AsgSigs
  <2>2. \A i \in DOMAIN jobs' : jobs'[i].sig # job.sig
    BY <1>1, <1>2, <1>3 DEF AsgSigs
  <2>3. \A d, e \in DOMAIN assignments' : assignments'[d].sig = assignments'[e].sig =>
          assignments'[d].sig \in edited' \/ assignments'[d].passenger = assignments'[e].passenger
    <3> TAKE d, e \in DOMAIN assignments'
    <3>1. d \in DOMAIN assignments /\ e \in DOMAIN assignments /\ assignments[d].sig = assignments[e].sig
            => assignments[d].sig \in edited \/ assignments[d].passenger = assignments[e].passenger
      BY <1>1 DEF AsgSigs
    <3> QED
      BY <1>4, <2>1, <3>1
  <2>4. \A d \in DOMAIN assignments', i \in DOMAIN jobs' : assignments'[d].sig = jobs'[i].sig =>
          \/ assignments'[d].sig \in edited'
          \/ assignments'[d].passenger = jobs'[i].passenger /\ jobs'[i].passenger \in assignmentBroken'
    <3> TAKE d \in DOMAIN assignments', i \in DOMAIN jobs'
    <3>1. CASE assignments'[d] = job
      BY <2>2, <3>1
    <3>2. CASE d \in DOMAIN assignments /\ assignments'[d] = assignments[d]
      BY <1>1, <1>2, <3>2 DEF AsgSigs, AsgOn
    <3> QED
      BY <1>4, <3>1, <3>2
  <2>5. \A i, j \in DOMAIN jobs' : jobs'[i].sig = jobs'[j].sig => i = j
    <3> TAKE i, j \in DOMAIN jobs'
    <3>1. jobs[i + 1].sig = jobs[j + 1].sig => i + 1 = j + 1
      BY <1>1, <1>2 DEF AsgSigs
    <3> QED
      BY <1>2, <3>1
  <2>6. \A k \in Http, d \in DOMAIN assignments' :
          assignments'[d].sig \in edited' \/ ~Signs(k, assignments[d].sig)'
    BY <1>1, <1>3, <1>4 DEF AsgSigs, Signs
  <2>9. \A d \in DOMAIN assignments' : assignments'[d].sig \in edited' \/ assignments'[d].type = "ASSIGNMENT"
    BY <1>1, <1>3, <1>4 DEF AsgSigs, AsgJobs, JobFits
  <2>7. \A k \in Http, i \in DOMAIN jobs' : ~Signs(k, jobs[i].sig)'
    BY <1>1, <1>2 DEF AsgSigs, Signs
  <2>8. \A k, j \in Http : Signs(k, assignmentRequest[j].n)' /\ assignmentRequest'[j].op = "sign" => k = j
    BY <1>1 DEF AsgSigs, Signs
  <2> QED
    BY <2>3, <2>4, <2>5, <2>6, <2>7, <2>8, <2>9 DEF AsgSigs
<1>7. AsgAlone'
  BY AsgAloneOn
<1>8. AsgJobs'
  BY <1>1, <1>2, AsgJobOn DEF AsgJobs
<1> QED
  BY <1>5, <1>6, <1>7, <1>8

LEMMA AsgGenerate ==
  ASSUME AsgInv, Assignments!Generate
  PROVE  AsgInv'
<1>1. /\ jobs # <<>> /\ assignments' = Append(assignments, Head(jobs)) /\ jobs' = Tail(jobs)
      /\ UNCHANGED <<person, flight, assignmentRequest, moved, assignmentMet, assignmentBroken, removed, edited,
                     assignmentSpent>>
  BY DEF Assignments!Generate, Assignments!history
<1>2. /\ AsgShapes /\ AsgSigs /\ AsgJobs /\ AsgRemoved /\ assignmentSpent \in Nat
  BY DEF AsgInv, AsgShapes
<1>3. PICK job \in AsgDocs : job = jobs[1] /\ 1 \in DOMAIN jobs /\ Head(jobs) = job
  BY <1>1, <1>2, AsgJobHead, AsgFields
<1>4. /\ DOMAIN assignments \subseteq DOMAIN assignments' /\ \A d \in DOMAIN assignments : assignments'[d] = assignments[d]
      /\ \A d \in DOMAIN assignments' \ DOMAIN assignments : assignments'[d] = job
      /\ assignments' \in Seq(AsgDocs)
  BY <1>1, <1>2, <1>3 DEF AsgShapes
<1>5. AsgOn
  BY <1>1, <1>4 DEF AsgOn, AsgDataOf
<1>6. AsgShapes'
  BY <1>1, <1>2, <1>4, AsgJobHead DEF AsgShapes
<1>7. AsgNumbers' /\ AsgSigs' /\ AsgAlone' /\ AsgJobs'
  BY <1>1, <1>2, <1>3, <1>5, AsgJobGoes
<1>8. /\ job.live /\ (job.layout = "parental" => person[job.passenger].minor)
      /\ Clear(job.passenger) => Says(job.passenger, job.name, job.flight)
  BY <1>2, <1>3 DEF AsgJobs, JobFits
<1>9. \A d \in DOMAIN assignments : assignments[d].sig = job.sig =>
        \/ assignments[d].sig \in edited
        \/ assignments[d].passenger = job.passenger /\ job.passenger \in assignmentBroken
  BY <1>2, <1>3 DEF AsgSigs
<1>10. job.sig \notin edited /\ Clear(job.passenger)' =>
         /\ Says(job.passenger, job.name, job.flight) /\ job.sig \notin removed
         /\ \A e \in DOMAIN assignments : assignments[e].live => assignments[e].sig # job.sig
  BY <1>1, <1>2, <1>8, <1>9 DEF AsgRemoved, Clear
<1>11. AsgDocsFit' /\ AsgOnce' /\ AsgRemoved'
  <2>1. \A d \in DOMAIN assignments, k \in Http :
          /\ Does(k, d) => Does(k, d)'
          /\ SavesAgain(k, assignments[d].sig) => SavesAgain(k, assignments[d].sig)'
    <3> TAKE d \in DOMAIN assignments, k \in Http
    <3>1. Assignments!At(k, "edit", "save") => assignmentRequest[k].doc \in DOMAIN assignments
      BY DEF AsgInv, AsgSteps, AsgStepOf, Assignments!At
    <3> QED
      BY <1>1, <1>4, <3>1 DEF Does, SavesAgain, Assignments!At
  <2> QED
    BY <1>1, <1>3, <1>5, <1>8, <1>9, <1>10, <2>1, AsgAppend
<1>12. \A k \in Http : AsgStepOf(k)' /\ SignFits(k)' /\ EditFits(k)'
  <2> TAKE k \in Http
  <2>1. assignmentRequest'[k] = assignmentRequest[k] /\ AsgStepOf(k) /\ SignFits(k) /\ EditFits(k)
    BY <1>1 DEF AsgInv, AsgSteps, AsgSigns, AsgEdits
  <2>2. AsgStepOf(k)' /\ SignFits(k)'
    BY <1>5, <2>1, AsgStepOn, AsgSignOn
  <2>3. ASSUME assignmentRequest[k].op = "edit", assignmentRequest[k].at # "read"
        PROVE  /\ \A d \in assignmentRequest[k].todo :
                    assignments[d].live /\ Fair(d)' => assignments'[d].live
               /\ assignmentRequest[k].at = "save" /\ Fair(assignmentRequest[k].doc)' =>
                    /\ assignments[assignmentRequest[k].doc].sig \in removed'
                         => assignments[assignmentRequest[k].doc].sig \in removed
                    /\ \A e \in DOMAIN assignments' \ DOMAIN assignments :
                         assignments'[e].live => assignments'[e].sig # assignments[assignmentRequest[k].doc].sig
    BY <2>1, <2>3, <1>1, <1>4, <1>9 DEF AsgStepOf, Clear, Fair
  <2>4. EditFits(k)'
    BY <1>2, <1>5, <2>1, <2>3, AsgEditOn
  <2> QED
    BY <2>2, <2>4
<1> QED
  BY <1>6, <1>7, <1>11, <1>12 DEF AsgInv, AsgSteps, AsgSigns, AsgEdits

LEMMA AsgGenerateFails ==
  ASSUME AsgInv, Assignments!GenerateFails
  PROVE  AsgInv'
<1>1. /\ jobs # <<>> /\ jobs' = Tail(jobs) /\ assignmentSpent' = assignmentSpent + 1
      /\ assignmentBroken' = assignmentBroken \cup {Head(jobs).passenger}
      /\ UNCHANGED <<person, flight, assignments, assignmentRequest, moved, assignmentMet, removed, edited>>
  BY DEF Assignments!GenerateFails, Assignments!Spend
<1>2. AsgShapes /\ assignmentSpent \in Nat
  BY DEF AsgInv, AsgShapes
<1>3. PICK job \in AsgDocs : job = jobs[1] /\ Head(jobs) = job /\ job.passenger \in Assignments!Passengers
  BY <1>1, <1>2, AsgJobHead, AsgFields
<1>4. AsgOn
  BY <1>1 DEF AsgOn, AsgDataOf
<1>5. AsgShapes'
  BY <1>1, <1>2, AsgJobHead DEF AsgShapes
<1>6. AsgNumbers' /\ AsgSigs' /\ AsgAlone' /\ AsgJobs'
  BY <1>1, <1>2, <1>3, <1>4, AsgJobGoes
<1>7. AsgDocsFit' /\ AsgOnce' /\ AsgRemoved'
  BY <1>1, <1>4, AsgDocsOn DEF AsgDataOf, Does, SavesAgain, Assignments!At
<1>8. \A k \in Http : AsgStepOf(k)' /\ SignFits(k)' /\ EditFits(k)'
  BY <1>1, <1>4, AsgWaits
<1> QED
  BY <1>5, <1>6, <1>7, <1>8 DEF AsgInv, AsgSteps, AsgSigns, AsgEdits

\* An edit deletes the old assignment of one it knows to be undisturbed: no other
\* is there for its signature, and no other edit is about it.
LEMMA AsgRemovesOld ==
  ASSUME AsgInv, NEW h \in Http, Assignments!Removes(h),
         Assignments!SignatureFound(h) \/ Assignments!Needed(h) = "regular"
  PROVE  AsgInv'
<1>1. /\ assignmentRequest[h].op = "edit" /\ assignmentRequest[h].at = "remove"
      /\ assignments' = [assignments EXCEPT ![assignmentRequest[h].doc].live = FALSE]
      /\ assignmentRequest' = [assignmentRequest EXCEPT ![h].at = "save"]
      /\ UNCHANGED <<person, flight, moved, jobs, assignmentMet, assignmentBroken, removed, edited,
                     assignmentSpent>>
  BY DEF Assignments!Removes, Assignments!At, Assignments!Go,
      Assignments!history
<1>2. /\ AsgShapes /\ AsgNumbers /\ assignmentRequest[h] \in AsgRequests /\ assignmentSpent \in Nat
      /\ AsgStepOf(h) /\ EditFits(h)
  BY AsgFields DEF AsgInv, AsgShapes, AsgSteps, AsgEdits
<1>3. PICK o \in DOMAIN assignments :
        /\ o = assignmentRequest[h].doc /\ o \in assignmentRequest[h].todo
        /\ assignments[o].sig \in edited \/ assignments[o].passenger \in assignmentRequest[h].of
  BY <1>1, <1>2 DEF AsgStepOf
<1>4. PICK p \in Assignments!Passengers, s \in Nat : p = assignments[o].passenger /\ s = assignments[o].sig
  BY <1>2, AsgFields DEF AsgDocs
<1>5. PICK new \in AsgRequests :
        /\ assignmentRequest' = [assignmentRequest EXCEPT ![h] = new]
        /\ new.op = "edit" /\ new.at = "save" /\ new.doc = o /\ new.n = assignmentRequest[h].n
        /\ new.of = assignmentRequest[h].of /\ new.people = assignmentRequest[h].people
        /\ new.flight = assignmentRequest[h].flight /\ new.todo = assignmentRequest[h].todo
        /\ new.owner = assignmentRequest[h].owner
  <2> DEFINE new == [assignmentRequest[h] EXCEPT !.at = "save"]
  <2>1. /\ new \in AsgRequests /\ new.op = "edit" /\ new.at = "save" /\ new.doc = o
        /\ new.n = assignmentRequest[h].n /\ new.of = assignmentRequest[h].of
        /\ new.people = assignmentRequest[h].people /\ new.flight = assignmentRequest[h].flight
        /\ new.todo = assignmentRequest[h].todo /\ new.owner = assignmentRequest[h].owner
    BY <1>1, <1>2, <1>3 DEF AsgRequests
  <2>2. assignmentRequest' = [assignmentRequest EXCEPT ![h] = new]
    BY <1>1
  <2> QED
    BY <2>1, <2>2
<1>6. /\ assignmentRequest' \in [Http -> AsgRequests] /\ assignmentRequest'[h] = new
      /\ \A k \in Http \ {h} : assignmentRequest'[k] = assignmentRequest[k]
  BY <1>2, <1>5, AsgGoes
<1>7. /\ assignments' \in Seq(AsgDocs) /\ DOMAIN assignments' = DOMAIN assignments
      /\ \A d \in DOMAIN assignments \ {o} : assignments'[d] = assignments[d]
      /\ assignments'[o] = [assignments[o] EXCEPT !.live = FALSE]
  <2>1. [assignments[o] EXCEPT !.live = FALSE] \in AsgDocs
    BY <1>2, AsgFields DEF AsgDocs
  <2>2. assignments' = [assignments EXCEPT ![o] = [assignments[o] EXCEPT !.live = FALSE]]
    BY <1>1, <1>3
  <2> QED
    BY <1>2, <2>1, <2>2 DEF AsgShapes
<1>8. /\ ~assignments'[o].live /\ assignments'[o].sig = s /\ assignments'[o].passenger = p
      /\ assignments'[o].name = assignments[o].name /\ assignments'[o].flight = assignments[o].flight
      /\ assignments'[o].layout = assignments[o].layout /\ assignments'[o].type = assignments[o].type
  BY <1>2, <1>4, <1>7, AsgFields DEF AsgDocs
<1>9. AsgOn
  BY <1>1, <1>4, <1>7, <1>8 DEF AsgOn, AsgDataOf
<1>10. AsgShapes'
  BY <1>1, <1>2, <1>6, <1>7 DEF AsgShapes
<1>11. \A d \in DOMAIN assignments' : \E e \in DOMAIN assignments :
         /\ assignments'[d].sig = assignments[e].sig
         /\ assignments'[d].passenger = assignments[e].passenger
         /\ assignments'[d].type \in {"ASSIGNMENT", assignments[e].type}
  BY <1>4, <1>7, <1>8
<1>12. assignmentRequest[h].n <= assignmentSpent
  BY <1>2 DEF AsgNumbers
<1>13. AsgNumbers' /\ AsgSigs'
  BY <1>1, <1>2, <1>5, <1>6, <1>7, <1>11, <1>12, AsgRequestsSign
<1>14. AsgAlone'
  BY <1>1, <1>5, <1>6, <1>9, AsgAloneOn
<1>15. AsgJobs'
  BY <1>1, <1>2, <1>9, AsgJobOn DEF AsgInv, AsgJobs
<1>16. Fair(o) => /\ assignments[o].live /\ s \notin removed
                  /\ \A e \in DOMAIN assignments : assignments[e].live /\ assignments[e].sig = s => e = o
  BY <1>1, <1>2, <1>3, <1>4 DEF EditFits, AsgInv, AsgDocsFit, DocStays, AsgOnce
<1>17. AsgStepOf(h)' /\ SignFits(h)' /\ EditFits(h)'
  <2>1. AsgStepOf(h)' /\ SignFits(h)'
    <3>1. \A d \in DOMAIN assignments : /\ assignments'[d].sig = assignments[d].sig
                                       /\ assignments'[d].passenger = assignments[d].passenger
      BY <1>4, <1>7, <1>8
    <3>2. \A d \in DOMAIN assignments : assignments'[d].layout = assignments[d].layout
      BY <1>4, <1>7, <1>8
    <3>3. Assignments!SignatureFound(h)' \/ (Assignments!Needed(h) = "regular")'
      BY <1>1, <1>3, <1>5, <1>6, <3>2 DEF Assignments!SignatureFound, Assignments!Needed,
         Assignments!Owner
    <3> QED
      BY <1>1, <1>2, <1>3, <1>5, <1>6, <1>7, <3>1, <3>3 DEF AsgStepOf, SignFits
  <2>2. /\ \A q \in Assignments!Passengers : new.people[q].minor => person'[q].minor
        /\ \A q \in new.of : Clear(q)' =>
             /\ new.people[q].name = person'[q].name
             /\ new.flight = flight' \/ flight' = moved'
    BY <1>1, <1>2, <1>5 DEF EditFits, Clear, Says
  <2>3. ASSUME NEW d \in new.todo
        PROVE  /\ assignments'[d].sig \in edited'
                  \/ (assignments'[d].layout = "parental" => new.people[assignments'[d].passenger].minor)
               /\ Fair(d)' /\ d # o => assignments'[d].live
    <3>1. d \in DOMAIN assignments
      BY <1>1, <1>2, <1>5, <2>3 DEF AsgStepOf
    <3>2. /\ assignments[d].sig \in edited
               \/ (assignments[d].layout = "parental" => assignmentRequest[h].people[assignments[d].passenger].minor)
          /\ Fair(d) => assignments[d].live
      BY <1>1, <1>2, <1>5, <2>3 DEF EditFits
    <3>3. /\ assignments'[d].passenger = assignments[d].passenger
          /\ assignments'[d].layout = assignments[d].layout /\ assignments'[d].sig = assignments[d].sig
      BY <3>1, <1>4, <1>7, <1>8
    <3>4. d # o => assignments'[d] = assignments[d]
      BY <1>7, <3>1
    <3>5. Fair(d)' => Fair(d)
      BY <3>1, <1>9, AsgFairOn
    <3>6. assignments'[d].sig \in edited'
            \/ (assignments'[d].layout = "parental" => new.people[assignments'[d].passenger].minor)
      <4>1. PICK q : q = assignments[d].passenger
        OBVIOUS
      <4>2. assignments[d].sig \in edited
              \/ (assignments[d].layout = "parental" => new.people[q].minor)
        BY <1>5, <3>2, <4>1
      <4>3. /\ assignments'[d].passenger = q
            /\ assignments'[d].layout = "parental" => assignments[d].layout = "parental"
            /\ assignments[d].sig \in edited => assignments'[d].sig \in edited'
        BY <1>1, <3>3, <4>1
      <4> QED
        BY <4>2, <4>3
    <3>7. Fair(d)' /\ d # o => assignments'[d].live
      BY <3>2, <3>4, <3>5
    <3> QED
      BY <3>6, <3>7
  <2>4. Fair(o)' => /\ Fair(o)
                    /\ \A e \in DOMAIN assignments' : assignments'[e].sig = s => ~assignments'[e].live
    BY <1>7, <1>1, <1>8, <1>9, <1>16, AsgFairOn
  <2>5. /\ ~assignments'[new.doc].live
        /\ Fair(new.doc)' =>
             /\ assignments'[new.doc].sig \notin removed'
             /\ \A e \in DOMAIN assignments' : assignments'[e].sig = assignments'[new.doc].sig => ~assignments'[e].live
    BY <1>1, <1>5, <1>8, <1>16, <2>4 DEF Fair, Clear
  <2>6. \A d \in new.todo :
          /\ assignments'[d].sig \in edited'
               \/ (assignments'[d].layout = "parental" => new.people[assignments'[d].passenger].minor)
          /\ Fair(d)' /\ d # o => assignments'[d].live
    BY <2>3
  <2>7. EditFits(h)'
    BY <1>5, <1>6, <2>2, <2>5, <2>6 DEF EditFits, Clear, Says, Fair
  <2> QED
    BY <2>1, <2>7
<1>18. ASSUME NEW k \in Http \ {h}
       PROVE  AsgStepOf(k)' /\ SignFits(k)' /\ EditFits(k)'
  <2>1. assignmentRequest'[k] = assignmentRequest[k] /\ AsgStepOf(k) /\ SignFits(k) /\ EditFits(k)
    BY <1>6 DEF AsgInv, AsgSteps, AsgSigns, AsgEdits
  <2>2. AsgStepOf(k)' /\ SignFits(k)'
    BY <1>9, <2>1, AsgStepOn, AsgSignOn
  <2>3. ASSUME assignmentRequest[k].op = "edit", assignmentRequest[k].at # "read", NEW d \in assignmentRequest[k].todo,
               assignments[d].live, Fair(d)'
        PROVE  assignments'[d].live
    <3>1. CASE d # o
      BY <1>7, <2>1, <2>3, <3>1 DEF AsgStepOf
    <3>2. CASE d = o
      <4>1. assignments[o].sig \notin edited /\ Clear(p)
        BY <1>4, <1>9, <2>3, <3>2, AsgFairOn DEF Fair
      <4>2. p \in assignmentRequest[h].of /\ p \in assignmentRequest[k].of
        BY <1>3, <1>4, <2>1, <2>3, <3>2, <4>1 DEF AsgStepOf
      <4> QED
        BY <1>1, <2>3, <4>1, <4>2 DEF AsgInv, AsgAlone
    <3> QED
      BY <3>1, <3>2
  <2>4. EditFits(k)'
    BY <1>1, <1>2, <1>7, <1>9, <2>1, <2>3, AsgEditOn
  <2> QED
    BY <2>2, <2>4
<1>19. AsgDocsFit' /\ AsgOnce' /\ AsgRemoved'
  <2>1. \A d \in DOMAIN assignments : AsgDataOf(assignments[d].passenger)
    BY <1>1 DEF AsgDataOf
  <2>2. SavesAgain(h, s)'
    BY <1>5, <1>6, <1>8 DEF SavesAgain, Assignments!At
  <2>3. \A d \in DOMAIN assignments : assignments[d].live => assignments'[d].live \/ SavesAgain(h, assignments[d].sig)'
    BY <1>8, <2>2, <1>7 DEF SavesAgain
  <2>4. \A d \in DOMAIN assignments, k \in Http : Does(k, d) => Does(k, d)'
    <3> TAKE d \in DOMAIN assignments, k \in Http
    <3>1. assignments'[d].passenger = assignments[d].passenger
      BY <1>4, <1>7, <1>8
    <3> QED
      BY <1>1, <1>5, <1>6, <3>1 DEF Does
  <2>5. \A d \in DOMAIN assignments, k \in Http :
          SavesAgain(k, assignments[d].sig) => SavesAgain(k, assignments[d].sig)'
    BY <1>1, <1>6, <1>9 DEF SavesAgain, Assignments!At, AsgInv, AsgSteps, AsgStepOf,
       AsgOn
  <2> QED
    BY <1>1, <1>7, <1>9, <2>1, <2>3, <2>4, <2>5, AsgDocsOn
<1> QED
  BY <1>10, <1>13, <1>14, <1>15, <1>17, <1>18, <1>19 DEF AsgInv, AsgSteps,
      AsgSigns, AsgEdits

\* The new assignment is saved: for one nothing disturbed it is the only one of its
\* signature, and says what the claim says.
LEMMA AsgSaves ==
  ASSUME AsgInv, NEW h \in Http, Assignments!Saves(h)
  PROVE  AsgInv'
<1>1. /\ assignmentRequest[h].op = "edit" /\ assignmentRequest[h].at = "save"
      /\ assignments' = Append(assignments, Assignments!FilledIn(h))
      /\ assignmentRequest' = [assignmentRequest EXCEPT ![h] = Assignments!Done(h)]
      /\ UNCHANGED <<person, flight, moved, jobs, assignmentMet, assignmentBroken, removed, edited,
                     assignmentSpent>>
  BY DEF Assignments!Saves, Assignments!At, Assignments!history
<1>2. /\ AsgShapes /\ AsgNumbers /\ assignmentRequest[h] \in AsgRequests /\ assignmentSpent \in Nat
      /\ AsgStepOf(h) /\ EditFits(h) /\ Assignments!Rest.op = "rest" /\ Assignments!Rest.n = 0
  BY AsgFields DEF AsgInv, AsgShapes, AsgSteps, AsgEdits
<1>3. PICK o \in DOMAIN assignments, w \in Assignments!Passengers :
        /\ o = assignmentRequest[h].doc /\ o \in assignmentRequest[h].todo /\ w = Assignments!Owner(h)
        /\ w \in assignmentRequest[h].of
        /\ assignments[o].sig \in edited \/ w = assignments[o].passenger
        /\ Assignments!SignatureFound(h) \/ Assignments!Needed(h) = "regular"
  <2>1. /\ assignmentRequest[h].doc \in DOMAIN assignments
        /\ assignmentRequest[h].doc \in assignmentRequest[h].todo
        /\ Assignments!Owner(h) \in assignmentRequest[h].of
        /\ \/ assignments[assignmentRequest[h].doc].sig \in edited
           \/ Assignments!Owner(h) = assignments[assignmentRequest[h].doc].passenger
        /\ Assignments!SignatureFound(h) \/ Assignments!Needed(h) = "regular"
    BY <1>1, <1>2 DEF AsgStepOf, Assignments!Owner
  <2> QED
    BY <1>2, <2>1, AsgFields
<1>4. PICK p \in Assignments!Passengers, s \in Nat : p = assignments[o].passenger /\ s = assignments[o].sig
  BY <1>2, AsgFields DEF AsgDocs
<1>5. PICK person1 \in AsgPeople : person1 = assignmentRequest[h].people[w]
  BY <1>1, <1>2 DEF AsgStepOf
<1>6. PICK new \in AsgDocs :
        /\ assignments' = Append(assignments, new)
        /\ new.sig = (IF Assignments!SignatureFound(h) THEN s ELSE Assignments!Unsigned)
        /\ new.passenger = w /\ new.layout = Assignments!Needed(h) /\ new.type = "ASSIGNMENT"
        /\ new.name = person1.name /\ new.flight = assignmentRequest[h].flight /\ new.live
  <2> DEFINE new == [assignments[o] EXCEPT !.passenger = w, !.name = person1.name,
                       !.flight = assignmentRequest[h].flight, !.live = TRUE, !.type = "ASSIGNMENT",
                       !.layout = Assignments!Needed(h),
                       !.sig = IF Assignments!SignatureFound(h) THEN s ELSE Assignments!Unsigned]
  <2>1. Assignments!FilledIn(h) = new
    BY <1>3, <1>4, <1>5 DEF Assignments!FilledIn
  <2>2. /\ person1.name \in Nat /\ assignmentRequest[h].flight \in Nat /\ assignments[o] \in AsgDocs
        /\ Assignments!Needed(h) \in Assignments!Layouts
        /\ "ASSIGNMENT" \in Assignments!Types /\ Assignments!Unsigned \in Nat
    BY <1>2, AsgFields DEF AsgPeople, AsgRequests, Assignments!Needed, Assignments!Template,
       Assignments!Layouts, Assignments!Types, Assignments!Unsigned
  <2>3. /\ new \in AsgDocs /\ new.passenger = w /\ new.layout = Assignments!Needed(h)
        /\ new.sig = (IF Assignments!SignatureFound(h) THEN s ELSE Assignments!Unsigned)
        /\ new.name = person1.name /\ new.flight = assignmentRequest[h].flight /\ new.live
        /\ new.type = "ASSIGNMENT"
    BY <1>4, <2>2 DEF AsgDocs
  <2> QED
    BY <1>1, <2>1, <2>3
<1>20. \/ s \in edited /\ new.sig \in edited /\ new.sig <= assignmentSpent
       \/ s \notin edited /\ new.sig = s /\ w = p /\ new.layout = assignments[o].layout
  <2>1. CASE s \in edited
    BY <1>2, <1>4, <1>6, <2>1 DEF AsgNumbers, AsgShapes, Assignments!Unsigned
  <2>2. CASE s \notin edited
    <3>1. w = p /\ (assignments[o].layout = "parental" => assignmentRequest[h].people[w].minor)
      BY <1>1, <1>2, <1>3, <1>4, <2>2 DEF EditFits
    <3>2. assignments[o].layout \in {"regular", "parental"}
      BY <1>2, AsgFields DEF AsgDocs, Assignments!Layouts
    <3>3. Assignments!SignatureFound(h)
      BY <1>3, <3>1, <3>2 DEF Assignments!SignatureFound, Assignments!Needed, Assignments!Template
    <3> QED
      BY <1>3, <1>6, <2>2, <3>1, <3>3 DEF Assignments!SignatureFound
  <2> QED
    BY <2>1, <2>2
<1>7. PICK next \in AsgRequests : next = Assignments!Done(h)
  BY <1>1, <1>2, AsgDone
<1>8. /\ assignmentRequest' \in [Http -> AsgRequests] /\ assignmentRequest'[h] = next
      /\ \A k \in Http \ {h} : assignmentRequest'[k] = assignmentRequest[k]
  BY <1>1, <1>2, <1>7, AsgGoes
<1>9. /\ DOMAIN assignments \subseteq DOMAIN assignments' /\ \A d \in DOMAIN assignments : assignments'[d] = assignments[d]
      /\ \A d \in DOMAIN assignments' \ DOMAIN assignments : assignments'[d] = new
      /\ assignments' \in Seq(AsgDocs)
  BY <1>2, <1>6 DEF AsgShapes
<1>10. AsgOn
  BY <1>1, <1>9 DEF AsgOn, AsgDataOf
<1>11. AsgShapes'
  BY <1>1, <1>2, <1>8, <1>9 DEF AsgShapes
<1>12. /\ next.op = "edit" => next.of = assignmentRequest[h].of
       /\ next.op # "sign" /\ next.n <= assignmentSpent
  BY <1>1, <1>2, <1>7, AsgDone DEF AsgNumbers
<1>13. AsgNumbers' /\ AsgSigs'
  <2>1. ASSUME NEW d \in DOMAIN assignments'
        PROVE  \/ assignments'[d].sig \in edited' /\ assignments'[d].sig <= assignmentSpent
               \/ \E e \in DOMAIN assignments :
                    /\ assignments'[d].sig = assignments[e].sig
                    /\ assignments'[d].passenger = assignments[e].passenger
                    /\ assignments'[d].type \in {"ASSIGNMENT", assignments[e].type}
    <3>1. CASE d \in DOMAIN assignments
      BY <1>9, <3>1
    <3>2. CASE d \notin DOMAIN assignments
      BY <1>1, <1>4, <1>6, <1>9, <1>20, <3>2
    <3> QED
      BY <3>1, <3>2
  <2> QED
    BY <1>1, <1>2, <1>8, <1>9, <1>12, <2>1, AsgRequestsSign
<1>14. AsgAlone'
  BY <1>1, <1>8, <1>10, <1>12, AsgAloneOn
<1>15. AsgJobs'
  BY <1>1, <1>2, <1>10, AsgJobOn DEF AsgInv, AsgJobs
<1>16. AsgStepOf(h)' /\ SignFits(h)' /\ EditFits(h)'
  BY <1>1, <1>2, <1>9, <1>7, <1>8, <1>10, AsgDoneFits DEF AsgStepOf
<1>17. /\ new.sig \in edited \/ (new.layout = "parental" => person[w].minor)
       /\ ~assignments[o].live
       /\ new.sig \notin edited /\ Clear(w) =>
            /\ Says(w, new.name, new.flight) /\ s \notin removed
            /\ \A e \in DOMAIN assignments : assignments[e].live => assignments[e].sig # s
  <2>1. ~assignments[o].live
    BY <1>1, <1>2, <1>3 DEF EditFits
  <2>2. ASSUME new.sig \notin edited
        PROVE  /\ new.layout = "parental" => person[w].minor
               /\ Clear(w) =>
                    /\ Says(w, new.name, new.flight) /\ s \notin removed
                    /\ \A e \in DOMAIN assignments : assignments[e].live => assignments[e].sig # s
    <3>1. s \notin edited /\ w = p /\ new.layout = assignments[o].layout
      BY <1>20, <2>2
    <3>2. Clear(w) => Fair(o)
      BY <1>4, <3>1 DEF Fair
    <3>3. new.layout = "parental" => person[w].minor
      BY <1>1, <1>2, <1>3, <1>4, <3>1 DEF EditFits
    <3>4. Clear(w) => Says(w, new.name, new.flight)
      BY <1>1, <1>2, <1>3, <1>5, <1>6 DEF EditFits
    <3>5. Clear(w) => /\ s \notin removed
                      /\ \A e \in DOMAIN assignments : assignments[e].live => assignments[e].sig # s
      BY <1>1, <1>2, <1>3, <1>4, <3>2 DEF EditFits
    <3> QED
      BY <3>3, <3>4, <3>5
  <2> QED
    BY <2>1, <2>2
<1>18. ASSUME NEW k \in Http \ {h}
       PROVE  AsgStepOf(k)' /\ SignFits(k)' /\ EditFits(k)'
  <2>1. assignmentRequest'[k] = assignmentRequest[k] /\ AsgStepOf(k) /\ SignFits(k) /\ EditFits(k)
    BY <1>8 DEF AsgInv, AsgSteps, AsgSigns, AsgEdits
  <2>2. AsgStepOf(k)' /\ SignFits(k)'
    BY <1>10, <2>1, AsgStepOn, AsgSignOn
  <2>3. ASSUME assignmentRequest[k].op = "edit", assignmentRequest[k].at # "read"
        PROVE  \A d \in assignmentRequest[k].todo :
                 assignments[d].live /\ Fair(d)' => assignments'[d].live
    BY <1>9, <2>1, <2>3 DEF AsgStepOf
  <2>4. ASSUME assignmentRequest[k].op = "edit", assignmentRequest[k].at = "save",
               Fair(assignmentRequest[k].doc)'
        PROVE  \A e \in DOMAIN assignments' \ DOMAIN assignments : assignments'[e].sig # assignments[assignmentRequest[k].doc].sig
    <3>1. PICK d \in DOMAIN assignments :
            /\ d = assignmentRequest[k].doc
            /\ assignments[d].sig \in edited \/ assignments[d].passenger \in assignmentRequest[k].of
      BY <2>1, <2>4 DEF AsgStepOf
    <3>2. Fair(d)
      <4>1. Fair(d)'
        BY <2>1, <2>4, <3>1 DEF Fair, Clear
      <4> QED
        BY <1>10, <4>1, AsgFairOn
    <3>3. ASSUME new.sig = assignments[d].sig
          PROVE  FALSE
      <4>1. s \notin edited /\ s = assignments[d].sig /\ w = p
        BY <1>20, <3>2, <3>3 DEF Fair
      <4>2. assignments[d].passenger = p
        BY <1>4, <4>1 DEF AsgInv, AsgSigs
      <4>3. p \in assignmentRequest[k].of /\ p \in assignmentRequest[h].of /\ Clear(p)
        BY <1>3, <3>1, <3>2, <4>1, <4>2 DEF Fair
      <4> QED
        BY <1>1, <2>4, <4>3 DEF AsgInv, AsgAlone
    <3> QED
      BY <1>9, <3>1, <3>3
  <2>5. EditFits(k)'
    BY <1>1, <1>2, <1>10, <2>1, <2>3, <2>4, AsgEditOn
  <2> QED
    BY <2>2, <2>5
<1>19. AsgDocsFit' /\ AsgOnce' /\ AsgRemoved'
  <2>1. \A d \in DOMAIN assignments, k \in Http :
          Does(k, d) /\ assignments[d].live => \E j \in Http : Does(j, d)'
    BY <1>8, <1>9, <1>1, <1>17, <1>2, <1>3, <1>7, AsgDone DEF Does
  <2>2. \A d \in DOMAIN assignments, k \in Http :
          SavesAgain(k, assignments[d].sig) =>
            SavesAgain(k, assignments[d].sig)' \/ s = assignments[d].sig
    BY <1>3, <1>4, <1>8, <1>9 DEF SavesAgain, Assignments!At, AsgInv, AsgSteps,
       AsgStepOf
  <2>3. \A d \in DOMAIN assignments : assignments[d].sig = new.sig =>
          assignments[d].sig \in edited \/ assignments[d].passenger = new.passenger
    BY <1>4, <1>6, <1>20 DEF AsgInv, AsgSigs
  <2>4. Clear(new.passenger)' => Clear(w)
    BY <1>1, <1>6 DEF Clear
  <2>5. s \in edited \/ new.sig = s
    BY <1>20
  <2>6. new.sig \notin edited /\ Clear(new.passenger)' =>
           /\ Says(new.passenger, new.name, new.flight) /\ new.sig \notin removed
           /\ \A e \in DOMAIN assignments : assignments[e].live => assignments[e].sig # new.sig
    BY <1>6, <1>17, <1>20, <2>4
  <2> QED
    BY <1>1, <1>6, <1>10, <1>17, <2>1, <2>2, <2>3, <2>5, <2>6, AsgAppend
<1> QED
  BY <1>11, <1>13, <1>14, <1>15, <1>16, <1>18, <1>19 DEF AsgInv, AsgSteps,
      AsgSigns, AsgEdits

\* Other data are written, and every request waits.
LEMMA AsgDataMove ==
  ASSUME AsgInv, Assignments!FlightMoves \/ \E p \in Others : Assignments!MakeMinor(p)
  PROVE  AsgInv'
<1>1. /\ UNCHANGED <<assignments, jobs, assignmentRequest, assignmentMet, assignmentBroken, removed, edited>> /\ assignmentSpent' = assignmentSpent + 1
      /\ \/ UNCHANGED person /\ flight' = assignmentSpent + 1 /\ moved' = assignmentSpent + 1
         \/ /\ UNCHANGED <<flight, moved>>
            /\ \E p \in Others : person' = [person EXCEPT ![p].minor = TRUE]
  BY DEF Assignments!FlightMoves, Assignments!MakeMinor, Assignments!Spend,
      Assignments!history
<1>2. AsgShapes /\ assignmentSpent \in Nat
  BY DEF AsgInv, AsgShapes
<1>3. /\ person' \in [Assignments!Passengers -> AsgPeople]
      /\ \A p \in Assignments!Passengers :
           person'[p].name = person[p].name /\ (person[p].minor => person'[p].minor)
  <2>1. CASE UNCHANGED person
    BY <1>2, <2>1 DEF AsgShapes
  <2>2. ASSUME NEW p \in Others, person' = [person EXCEPT ![p].minor = TRUE]
        PROVE  <1>3!:
    BY <1>2, <2>2 DEF Assignments!Passengers, AsgShapes, AsgPeople
  <2> QED
    BY <1>1, <2>1, <2>2
<1>4. \A p \in Assignments!Passengers : AsgDataOf(p)
  BY <1>1, <1>3 DEF AsgDataOf
<1>5. Assignments!Pending \subseteq Assignments!Passengers
  BY <1>2, AsgFields DEF Assignments!Pending
<1>6. AsgOn
  BY <1>1, <1>3, <1>4, <1>5 DEF AsgOn
<1>7. AsgShapes'
  BY <1>1, <1>2, <1>3 DEF AsgShapes
<1>8. AsgNumbers' /\ AsgSigs'
  BY <1>2, AsgFields, <1>1 DEF AsgInv, AsgDocs, AsgRequests, AsgNumbers, AsgSigs,
     Signs
<1>9. AsgAlone'
  BY <1>1, <1>6, AsgAloneOn
<1>10. AsgJobs'
  BY <1>1, <1>2, <1>6, AsgJobOn DEF AsgInv, AsgJobs
<1>11. \A k \in Http : AsgStepOf(k)' /\ SignFits(k)' /\ EditFits(k)'
  BY <1>1, <1>6, AsgWaits
<1>12. AsgDocsFit' /\ AsgOnce' /\ AsgRemoved'
  BY <1>2, <1>4, AsgFields, <1>1, <1>6, AsgDocsOn DEF Does, SavesAgain, Assignments!At
<1> QED
  BY <1>7, <1>8, <1>9, <1>10, <1>11, <1>12 DEF AsgInv, AsgSteps, AsgSigns,
      AsgEdits

\* An edit begins: whoever else is about its passengers has met it.
LEMMA AsgBeginEdit ==
  ASSUME AsgInv, NEW h \in Http,
         \/ Assignments!BeginEdit(h, "customer", Customer) \/ Assignments!BeginEdit(h, "details", Customer)
         \/ \E p \in Others : Assignments!BeginEdit(h, "passenger", p)
  PROVE  AsgInv'
<1>1. AsgShapes /\ assignmentSpent \in Nat
  BY DEF AsgInv, AsgShapes
<1>2. /\ UNCHANGED <<assignments, jobs, moved, assignmentBroken, removed, edited>> /\ assignmentSpent' = assignmentSpent + 1
      /\ assignmentRequest[h].op = "rest"
  BY DEF Assignments!BeginEdit, Assignments!Spend, Assignments!Busy
<1> DEFINE Begun(of) ==
      /\ assignmentRequest' = [assignmentRequest EXCEPT ![h] =
           [Assignments!Rest EXCEPT !.op = "edit", !.at = "read", !.n = assignmentSpent + 1, !.of = of]]
      /\ assignmentMet' = assignmentMet \cup (of \cap Assignments!Pending)
      /\ \/ UNCHANGED person /\ flight' = assignmentSpent + 1 /\ of = Assignments!Passengers
         \/ /\ UNCHANGED flight
            /\ \E p \in of : person' = [person EXCEPT ![p].name = assignmentSpent + 1]
<1>3. PICK of \in SUBSET Assignments!Passengers : Begun(of)
  BY DEF Assignments!Edited, Assignments!BeginEdit, Assignments!Passengers
<1> DEFINE new == [Assignments!Rest EXCEPT !.op = "edit", !.at = "read", !.n = assignmentSpent + 1, !.of = of]
<1>4. new \in AsgRequests /\ new.op = "edit" /\ new.at = "read" /\ new.n = assignmentSpent + 1 /\ new.of = of
  <2>1. Assignments!Rest \in AsgRequests /\ assignmentSpent + 1 \in Nat
    BY <1>1, AsgFields
  <2> HIDE DEF Assignments!Rest
  <2> QED
    BY <2>1 DEF AsgRequests
<1>5. assignmentRequest' = [assignmentRequest EXCEPT ![h] = new]
  BY <1>3
<1> HIDE DEF new
<1>6. /\ assignmentRequest' \in [Http -> AsgRequests] /\ assignmentRequest'[h] = new
      /\ \A k \in Http \ {h} : assignmentRequest'[k] = assignmentRequest[k]
  BY <1>1, <1>4, <1>5, AsgGoes
<1>7. /\ person' \in [Assignments!Passengers -> AsgPeople] /\ flight' \in Nat
      /\ \A p \in Assignments!Passengers : person[p].minor => person'[p].minor
      /\ \A p \in Assignments!Passengers \ of : AsgDataOf(p)
  <2>1. CASE UNCHANGED person /\ flight' = assignmentSpent + 1 /\ of = Assignments!Passengers
    BY <1>1, <2>1 DEF AsgShapes
  <2>2. ASSUME NEW p \in of, person' = [person EXCEPT ![p].name = assignmentSpent + 1], UNCHANGED flight
        PROVE  <1>7!:
    <3>1. p \in Assignments!Passengers /\ person \in [Assignments!Passengers -> AsgPeople] /\ flight \in Nat
      BY <1>1 DEF AsgShapes
    <3>2. /\ [person[p] EXCEPT !.name = assignmentSpent + 1] \in AsgPeople
          /\ [person[p] EXCEPT !.name = assignmentSpent + 1].minor = person[p].minor
      BY <1>1, <3>1 DEF AsgPeople
    <3>3. person' = [person EXCEPT ![p] = [person[p] EXCEPT !.name = assignmentSpent + 1]]
      BY <2>2
    <3> QED
      BY <1>2, <2>2, <3>1, <3>2, <3>3 DEF AsgDataOf
  <2> QED
    BY <1>3, <2>1, <2>2
<1>8. Assignments!Pending \subseteq Assignments!Passengers
  BY <1>1, AsgFields DEF Assignments!Pending
<1>9. AsgOn
  BY <1>3, <1>7, <1>8, <1>2 DEF Clear, AsgOn
<1>10. AsgShapes'
  BY <1>1, <1>2, <1>6, <1>7 DEF AsgShapes
<1>11. AsgNumbers' /\ AsgSigs'
  <2>1. assignments' \in Seq(AsgDocs) /\ edited \subseteq edited'
    BY <1>1, <1>2 DEF AsgShapes
  <2> QED
    BY <1>1, <1>2, <1>4, <1>6, <2>1, AsgRequestsSign
<1>12. AsgAlone'
  BY <1>3, AsgPending, <1>4, <1>6, <1>9, AsgClearOn DEF AsgAlone, Clear, AsgInv
<1>13. AsgJobs'
  BY <1>1, <1>2, <1>9, AsgJobOn DEF AsgInv, AsgJobs
<1>14. \A k \in Http : AsgStepOf(k)' /\ SignFits(k)' /\ EditFits(k)'
  <2> TAKE k \in Http
  <2>1. CASE k = h
    BY <1>4, <1>6, <2>1 DEF AsgStepOf, SignFits, EditFits
  <2>2. CASE k # h
    BY <1>2, <1>6, <1>9, <2>2, AsgWaits
  <2> QED
    BY <2>1, <2>2
<1>15. AsgDocsFit' /\ AsgOnce' /\ AsgRemoved'
  <2>1. \A d \in DOMAIN assignments : AsgDataOf(assignments[d].passenger) \/ Does(h, d)'
    <3> TAKE d \in DOMAIN assignments
    <3>1. assignments[d].passenger \in Assignments!Passengers
      BY <1>1, AsgFields
    <3>2. CASE assignments[d].passenger \in of
      BY <1>2, <1>4, <1>6, <3>2 DEF Does
    <3>3. CASE assignments[d].passenger \notin of
      BY <1>7, <3>1, <3>3
    <3> QED
      BY <3>2, <3>3
  <2>2. \A d \in DOMAIN assignments, k \in Http :
          /\ Does(k, d) => Does(k, d)'
          /\ SavesAgain(k, assignments[d].sig) => SavesAgain(k, assignments[d].sig)'
    BY <1>2, <1>6 DEF Does, SavesAgain, Assignments!At
  <2> QED
    BY <1>2, <1>9, <2>1, <2>2, AsgDocsOn
<1> QED
  BY <1>10, <1>11, <1>12, <1>13, <1>14, <1>15 DEF AsgInv, AsgSteps, AsgSigns,
      AsgEdits

\* Staff remove an assignment: whoever is about its passenger has met the removal.
LEMMA AsgRemovesByStaff ==
  ASSUME AsgInv, NEW o \in DOMAIN assignments, Assignments!RemoveAssignment(o)
  PROVE  AsgInv'
<1>1. /\ assignments[o].live /\ assignments' = [assignments EXCEPT ![o].live = FALSE]
      /\ removed' = removed \cup {assignments[o].sig} /\ assignmentSpent' = assignmentSpent + 1
      /\ assignmentMet' = assignmentMet \cup ({assignments[o].passenger} \cap Assignments!Pending)
      /\ UNCHANGED <<person, flight, jobs, assignmentRequest, moved, assignmentBroken, edited>>
  BY DEF Assignments!RemoveAssignment, Assignments!Spend
<1>2. AsgShapes /\ AsgNumbers /\ assignmentSpent \in Nat
  BY DEF AsgInv, AsgShapes
<1>3. PICK p \in Assignments!Passengers, s \in Nat : p = assignments[o].passenger /\ s = assignments[o].sig
  BY <1>2, AsgFields DEF AsgDocs
<1>4. /\ assignments' \in Seq(AsgDocs) /\ DOMAIN assignments' = DOMAIN assignments
      /\ \A d \in DOMAIN assignments \ {o} : assignments'[d] = assignments[d]
      /\ assignments'[o] = [assignments[o] EXCEPT !.live = FALSE]
  <2>1. [assignments[o] EXCEPT !.live = FALSE] \in AsgDocs
    BY <1>2, AsgFields DEF AsgDocs
  <2>2. assignments' = [assignments EXCEPT ![o] = [assignments[o] EXCEPT !.live = FALSE]]
    BY <1>1
  <2> QED
    BY <1>2, <2>1, <2>2 DEF AsgShapes
<1>5. /\ ~assignments'[o].live /\ assignments'[o].sig = s /\ assignments'[o].passenger = p
      /\ assignments'[o].name = assignments[o].name /\ assignments'[o].flight = assignments[o].flight
      /\ assignments'[o].layout = assignments[o].layout /\ assignments'[o].type = assignments[o].type
  BY <1>2, <1>3, <1>4, AsgFields DEF AsgDocs
<1>6. AsgOn
  BY <1>1, <1>3, <1>4, <1>5 DEF AsgOn, AsgDataOf
<1>7. AsgShapes'
  BY <1>1, <1>2, <1>4 DEF AsgShapes
<1>8. AsgNumbers' /\ AsgSigs'
  <2>1. AsgNumbers /\ AsgSigs
    BY DEF AsgInv
  <2>2. \A d \in DOMAIN assignments :
          /\ assignments'[d].sig = assignments[d].sig /\ assignments'[d].type = assignments[d].type
          /\ assignments'[d].passenger = assignments[d].passenger
    BY <1>3, <1>4, <1>5
  <2>3. \A d \in DOMAIN assignments : assignments[d].sig \in Nat
    BY <1>2, AsgFields DEF AsgDocs
  <2>4. \A i \in DOMAIN jobs : jobs[i].sig \in Nat
    BY <1>2, AsgFields DEF AsgDocs
  <2>5. \A k \in Http : assignmentRequest[k].n \in Nat
    BY <1>2, AsgFields DEF AsgRequests
  <2>6. AsgNumbers'
    BY <1>1, <1>2, <1>4, <2>1, <2>2, <2>3, <2>4, <2>5 DEF AsgNumbers
  <2> QED
    BY <1>1, <1>4, <2>1, <2>2, <2>6 DEF AsgSigs, Signs
<1>9. AsgAlone'
  BY <1>1, <1>6, AsgAloneOn
<1>10. AsgJobs'
  BY <1>1, <1>2, <1>6, AsgJobOn DEF AsgInv, AsgJobs
<1>11. ASSUME NEW k \in Http
       PROVE  AsgStepOf(k)' /\ SignFits(k)' /\ EditFits(k)'
  <2>1. assignmentRequest'[k] = assignmentRequest[k] /\ AsgStepOf(k) /\ SignFits(k) /\ EditFits(k)
    BY <1>1 DEF AsgInv, AsgSteps, AsgSigns, AsgEdits
  <2>2. AsgStepOf(k)' /\ SignFits(k)'
    BY <1>6, <2>1, AsgStepOn, AsgSignOn
  <2>3. p \in assignmentRequest[k].of => ~Clear(p)'
    BY <1>1, <1>3, AsgPending DEF Clear
  <2>4. ASSUME assignmentRequest[k].op = "edit", assignmentRequest[k].at # "read", NEW d \in assignmentRequest[k].todo,
               assignments[d].live, Fair(d)'
        PROVE  assignments'[d].live
    <3>1. /\ d \in DOMAIN assignments
          /\ assignments[d].sig \in edited \/ assignments[d].passenger \in assignmentRequest[k].of
      BY <2>1, <2>4 DEF AsgStepOf
    <3>2. Fair(d) /\ assignments[d].passenger \notin assignmentMet' \cup assignmentBroken'
      BY <1>6, <2>4, <3>1, AsgFairOn
    <3>3. d # o
      BY <1>3, <2>3, <3>1, <3>2 DEF Fair, Clear
    <3> QED
      BY <1>4, <2>4, <3>1, <3>3
  <2>5. ASSUME assignmentRequest[k].op = "edit", assignmentRequest[k].at = "save",
               Fair(assignmentRequest[k].doc)', assignments[assignmentRequest[k].doc].sig \in removed'
        PROVE  assignments[assignmentRequest[k].doc].sig \in removed
    <3>1. PICK d \in DOMAIN assignments :
            /\ d = assignmentRequest[k].doc
            /\ assignments[d].sig \in edited \/ assignments[d].passenger \in assignmentRequest[k].of
      BY <2>1, <2>5 DEF AsgStepOf
    <3>2. Fair(d) /\ assignments[d].passenger \notin assignmentMet' \cup assignmentBroken'
      <4>1. Fair(d)'
        BY <2>1, <2>5, <3>1 DEF Fair, Clear
      <4> QED
        BY <1>6, <4>1, AsgFairOn
    <3>3. assignments[d].sig = s => assignments[d].passenger = p
      BY <1>3, <3>2 DEF Fair, AsgInv, AsgSigs
    <3>4. assignments[d].sig # s
      BY <2>3, <3>1, <3>2, <3>3 DEF Fair, Clear
    <3> QED
      BY <1>1, <1>3, <2>5, <3>1, <3>4
  <2>6. EditFits(k)'
    BY <1>2, <1>4, <1>6, <2>1, <2>4, <2>5, AsgEditOn
  <2> QED
    BY <2>2, <2>6
<1>12. AsgDocsFit' /\ AsgOnce' /\ AsgRemoved'
  <2>1. \A d \in DOMAIN assignments : AsgDataOf(assignments[d].passenger)
    BY <1>1 DEF AsgDataOf
  <2>2. \A d \in DOMAIN assignments : assignments[d].live => assignments'[d].live \/ assignments[d].sig \in removed'
    BY <1>1, <1>4
  <2>3. ASSUME NEW d \in DOMAIN assignments, assignments'[d].live, assignments[d].sig \in removed' \ removed
        PROVE  assignments[d].passenger \in assignmentMet' \cup assignmentBroken'
               \/ assignments[d].sig \in edited'
    BY <1>1, <1>3, <1>5, <1>6, <2>3 DEF AsgOn, AsgInv, AsgOnce, AsgSigs, Clear, Fair
  <2>4. \A d \in DOMAIN assignments, k \in Http : Does(k, d) => Does(k, d)'
    <3> TAKE d \in DOMAIN assignments, k \in Http
    <3>1. assignments'[d].passenger = assignments[d].passenger
      BY <1>3, <1>4, <1>5
    <3> QED
      BY <1>1, <3>1 DEF Does
  <2>5. \A d \in DOMAIN assignments, k \in Http :
          SavesAgain(k, assignments[d].sig) => SavesAgain(k, assignments[d].sig)'
    BY <1>6, <1>1 DEF SavesAgain, Assignments!At, AsgInv, AsgSteps, AsgStepOf, AsgOn
  <2>6. \A t \in removed' \ removed : \E d \in DOMAIN assignments : assignments[d].sig = t
    BY <1>1
  <2> QED
    BY <1>4, <1>6, <2>1, <2>2, <2>3, <2>4, <2>5, <2>6, AsgDocsOn
<1> QED
  BY <1>7, <1>8, <1>9, <1>10, <1>11, <1>12 DEF AsgInv, AsgSteps, AsgSigns,
      AsgEdits

\* The process stops: whoever was about a passenger is gone, and every such passenger
\* is one of those a restart has hit.
LEMMA AsgRestart ==
  ASSUME AsgInv, Assignments!Restart
  PROVE  AsgInv'
<1>1. /\ assignmentRequest' = [h \in Http |-> Assignments!Rest] /\ assignmentBroken' = assignmentBroken \cup Assignments!Pending
      /\ assignmentSpent' = assignmentSpent + 1
      /\ assignments' = assignments \/ (jobs # <<>> /\ assignments' = Append(assignments, Head(jobs)))
      /\ UNCHANGED <<person, flight, jobs, moved, assignmentMet, removed, edited>>
  BY DEF Assignments!Restart, Assignments!Spend
<1>2. /\ AsgShapes /\ AsgNumbers /\ AsgSigs /\ AsgJobs /\ assignmentSpent \in Nat
      /\ Assignments!Rest \in AsgRequests /\ Assignments!Rest.op = "rest" /\ Assignments!Rest.n = 0 /\ Assignments!Rest.of = {}
      /\ \A d \in DOMAIN assignments : assignments[d].sig \in Nat
      /\ \A i \in DOMAIN jobs : jobs[i].sig \in Nat
  BY AsgFields DEF AsgInv, AsgShapes, AsgDocs
<1>3. /\ assignmentRequest' \in [Http -> AsgRequests]
      /\ \A k \in Http : assignmentRequest'[k] = Assignments!Rest
  BY <1>1, <1>2
<1>4. Assignments!Pending \subseteq Assignments!Passengers
  BY <1>2, AsgFields DEF Assignments!Pending
<1>5. /\ DOMAIN assignments \subseteq DOMAIN assignments' /\ assignments' \in Seq(AsgDocs)
      /\ \A d \in DOMAIN assignments : assignments'[d] = assignments[d]
      /\ \A d \in DOMAIN assignments' \ DOMAIN assignments : 1 \in DOMAIN jobs /\ assignments'[d] = jobs[1]
  <2>1. CASE assignments' = assignments
    BY <1>2, <2>1 DEF AsgShapes
  <2>2. CASE jobs # <<>> /\ assignments' = Append(assignments, Head(jobs))
    BY <1>2, <2>2, AsgJobHead, AsgFields DEF AsgShapes
  <2> QED
    BY <1>1, <2>1, <2>2
<1>6. AsgOn
  BY <1>1, <1>5 DEF AsgOn, AsgDataOf
<1>7. AsgShapes'
  BY <1>1, <1>2, <1>3, <1>5 DEF AsgShapes
<1>8. \A k \in Http : AsgStepOf(k)' /\ SignFits(k)' /\ EditFits(k)'
  BY <1>3, AsgRested
<1>9. AsgNumbers'
  BY <1>1, <1>2, <1>5, <1>3 DEF AsgNumbers
<1>10. AsgSigs'
  <2>1. \A d, e \in DOMAIN assignments' :
          assignments'[d].sig = assignments'[e].sig =>
            assignments'[d].sig \in edited \/ assignments'[d].passenger = assignments'[e].passenger
    <3> TAKE d, e \in DOMAIN assignments'
    <3>1. CASE d \in DOMAIN assignments /\ e \in DOMAIN assignments
      BY <1>2, <1>5, <3>1 DEF AsgSigs
    <3>2. CASE d \notin DOMAIN assignments \/ e \notin DOMAIN assignments
      BY <1>2, <1>5, <3>2 DEF AsgSigs
    <3> QED
      BY <3>1, <3>2
  <2>2. \A d \in DOMAIN assignments', i \in DOMAIN jobs : assignments'[d].sig = jobs[i].sig =>
          \/ assignments'[d].sig \in edited
          \/ assignments'[d].passenger = jobs[i].passenger /\ jobs[i].passenger \in assignmentBroken'
    <3> TAKE d \in DOMAIN assignments', i \in DOMAIN jobs
    <3>1. jobs[i].passenger \in assignmentBroken'
      BY <1>1, AsgPending
    <3>2. CASE d \in DOMAIN assignments
      BY <1>2, <1>5, <3>1, <3>2 DEF AsgSigs
    <3>3. CASE d \notin DOMAIN assignments
      BY <1>2, <1>5, <3>1, <3>3 DEF AsgSigs
    <3> QED
      BY <3>2, <3>3
  <2>3. \A i, j \in DOMAIN jobs : jobs[i].sig = jobs[j].sig => i = j
    BY <1>2 DEF AsgSigs
  <2>4. \A d \in DOMAIN assignments' : assignments'[d].sig \in edited \/ assignments'[d].type = "ASSIGNMENT"
    BY <1>2, <1>5 DEF AsgSigs, AsgJobs, JobFits
  <2> QED
    BY <1>1, <1>2, <1>3, <2>1, <2>2, <2>3, <2>4 DEF AsgSigs, Signs
<1>11. AsgAlone'
  BY <1>2, <1>3, <1>6, AsgAloneOn
<1>12. AsgJobs'
  BY <1>1, <1>2, <1>6, AsgJobOn DEF AsgJobs
<1>13. \A d \in DOMAIN assignments, k \in Http :
         /\ Does(k, d) => assignments[d].passenger \in assignmentBroken'
         /\ SavesAgain(k, assignments[d].sig) =>
              assignments[d].sig \in edited \/ assignments[d].passenger \in assignmentBroken'
  <2> TAKE d \in DOMAIN assignments, k \in Http
  <2>1. Does(k, d) => assignments[d].passenger \in assignmentBroken'
    BY <1>1, AsgPending DEF Does
  <2>2. ASSUME SavesAgain(k, assignments[d].sig)
        PROVE  assignments[d].sig \in edited \/ assignments[d].passenger \in assignmentBroken'
    BY <2>2, <1>2, <1>1, AsgPending DEF AsgInv, AsgSteps, AsgStepOf, SavesAgain,
       Assignments!At, AsgSigs
  <2> QED
    BY <2>1, <2>2
<1>14. AsgDocsFit' /\ AsgOnce' /\ AsgRemoved'
  BY <1>1, <1>6, <1>13, AsgDocsOn, <1>2, AsgJobHead, AsgFields, AsgPending, AsgAppend
     DEF AsgDataOf, Clear, AsgJobs, JobFits, AsgSigs
<1> QED
  BY <1>7, <1>8, <1>9, <1>10, <1>11, <1>12, <1>14 DEF AsgInv, AsgSteps,
      AsgSigns, AsgEdits

\* Staff give a document another type or another passenger: nothing is promised of
\* it any more, and of the others nothing changes.
LEMMA AsgEditsDocument ==
  ASSUME AsgInv, NEW o \in DOMAIN assignments,
         \/ \E type \in Assignments!Types : Assignments!Retype(o, type)
         \/ \E p \in Assignments!Passengers : Assignments!Reassign(o, p)
  PROVE  AsgInv'
<1>1. AsgShapes /\ AsgNumbers /\ AsgSigs /\ assignmentSpent \in Nat
  BY DEF AsgInv, AsgShapes
<1> DEFINE Becomes(document) ==
        /\ assignments' = [assignments EXCEPT ![o] = document]
        /\ document.sig = assignments[o].sig /\ document.layout = assignments[o].layout
        /\ document.name = assignments[o].name /\ document.flight = assignments[o].flight
        /\ document.live = assignments[o].live
<1>2. PICK document \in AsgDocs :
        /\ Becomes(document)
        /\ edited' = edited \cup {assignments[o].sig, Assignments!Unsigned}
        /\ assignmentSpent' = assignmentSpent + 1
        /\ UNCHANGED <<person, flight, jobs, assignmentRequest, moved, assignmentMet, assignmentBroken, removed>>
  <2>1. assignments[o] \in AsgDocs
    BY <1>1, AsgFields
  <2>2. \E document \in AsgDocs : Becomes(document)
    <3>1. ASSUME NEW type \in Assignments!Types, Assignments!Retype(o, type)
          PROVE  \E document \in AsgDocs : Becomes(document)
      <4>1. [assignments[o] EXCEPT !.type = type] \in AsgDocs
        BY <2>1 DEF AsgDocs
      <4>2. Becomes([assignments[o] EXCEPT !.type = type])
        BY <2>1, <3>1 DEF AsgDocs, Assignments!Retype, Assignments!EditDocument
      <4> QED
        BY <4>1, <4>2
    <3>2. ASSUME NEW p \in Assignments!Passengers, Assignments!Reassign(o, p)
          PROVE  \E document \in AsgDocs : Becomes(document)
      <4>1. [assignments[o] EXCEPT !.passenger = p] \in AsgDocs
        BY <2>1 DEF AsgDocs
      <4>2. Becomes([assignments[o] EXCEPT !.passenger = p])
        BY <2>1, <3>2 DEF AsgDocs, Assignments!Reassign, Assignments!EditDocument
      <4> QED
        BY <4>1, <4>2
    <3> QED
      BY <3>1, <3>2
  <2>3. /\ edited' = edited \cup {assignments[o].sig, Assignments!Unsigned}
        /\ assignmentSpent' = assignmentSpent + 1
        /\ UNCHANGED <<person, flight, jobs, assignmentRequest, moved, assignmentMet, assignmentBroken, removed>>
    BY DEF Assignments!Retype, Assignments!Reassign, Assignments!EditDocument, Assignments!Spend
  <2> QED
    BY <2>2, <2>3
<1>3. /\ assignments' \in Seq(AsgDocs) /\ DOMAIN assignments' = DOMAIN assignments
      /\ \A d \in DOMAIN assignments \ {o} : assignments'[d] = assignments[d]
      /\ assignments'[o] = document
  BY <1>1, <1>2 DEF AsgShapes
<1>4. \A d \in DOMAIN assignments : /\ assignments'[d].sig = assignments[d].sig
                                    /\ assignments'[d].live = assignments[d].live
                                    /\ assignments'[d].sig \notin edited' => assignments'[d] = assignments[d]
  BY <1>2, <1>3
<1>5. AsgOn
  BY <1>2, <1>3 DEF AsgOn, AsgDataOf
<1>6. AsgShapes'
  BY <1>1, <1>2, <1>3 DEF AsgShapes
<1>7. AsgNumbers'
  <2>1. /\ \A d \in DOMAIN assignments : assignments[d].sig \in Nat
        /\ \A i \in DOMAIN jobs : jobs[i].sig \in Nat
        /\ \A k \in Http : assignmentRequest[k].n \in Nat
    BY <1>1, AsgFields DEF AsgDocs, AsgRequests
  <2> QED
    BY <1>1, <1>2, <1>3, <1>4, <2>1 DEF AsgNumbers
<1>8. AsgSigs'
  BY <1>1, <1>2, <1>3, <1>4 DEF AsgSigs, Signs
<1>9. AsgAlone'
  BY <1>2, <1>5, AsgAloneOn
<1>10. AsgJobs'
  BY <1>1, <1>2, <1>5, AsgJobOn DEF AsgInv, AsgJobs
<1>11. ASSUME NEW k \in Http
       PROVE  AsgStepOf(k)' /\ SignFits(k)' /\ EditFits(k)'
  <2>1. assignmentRequest'[k] = assignmentRequest[k] /\ AsgStepOf(k) /\ SignFits(k) /\ EditFits(k)
    BY <1>2 DEF AsgInv, AsgSteps, AsgSigns, AsgEdits
  <2>2. AsgStepOf(k)' /\ SignFits(k)'
    BY <1>5, <2>1, AsgStepOn, AsgSignOn
  <2>3. ASSUME assignmentRequest[k].op = "edit", assignmentRequest[k].at # "read"
        PROVE  \A d \in assignmentRequest[k].todo :
                 assignments[d].live /\ Fair(d)' => assignments'[d].live
    BY <1>4, <2>1, <2>3 DEF AsgStepOf
  <2>4. EditFits(k)'
    BY <1>1, <1>2, <1>3, <1>5, <2>1, <2>3, AsgEditOn
  <2> QED
    BY <2>2, <2>4
<1>12. AsgDocsFit' /\ AsgOnce' /\ AsgRemoved'
  <2>1. \A d \in DOMAIN assignments : AsgDataOf(assignments[d].passenger)
    BY <1>2 DEF AsgDataOf
  <2>2. ASSUME NEW d \in DOMAIN assignments, NEW k \in Http
        PROVE  /\ Does(k, d) => Does(k, d)' \/ assignments[d].sig \in edited'
               /\ SavesAgain(k, assignments[d].sig) => SavesAgain(k, assignments[d].sig)'
    <3>1. Does(k, d) => Does(k, d)' \/ assignments[d].sig \in edited'
      BY <1>2, <1>4 DEF Does
    <3>2. SavesAgain(k, assignments[d].sig) => SavesAgain(k, assignments[d].sig)'
      BY <1>2, <1>4 DEF SavesAgain, Assignments!At, AsgInv, AsgSteps, AsgStepOf
    <3> QED
      BY <3>1, <3>2
  <2> QED
    BY <1>2, <1>3, <1>4, <1>5, <2>1, <2>2, AsgDocsOn
<1> QED
  BY <1>6, <1>7, <1>8, <1>9, <1>10, <1>11, <1>12 DEF AsgInv, AsgSteps, AsgSigns,
      AsgEdits

LEMMA AsgInit ==
  ASSUME Assignments!Init
  PROVE  AsgInv
<1>1. Assignments!Rest \in AsgRequests
  BY DEF Assignments!Rest, AsgRequests, AsgOwners
<1>2. AsgShapes
  BY <1>1 DEF Assignments!Init, AsgShapes, AsgPeople
<1> QED
  BY <1>2 DEF Assignments!Init, Assignments!Rest, AsgSteps, AsgSigns, AsgEdits, AsgStepOf,
     SignFits, EditFits, AsgNumbers, AsgSigs, AsgAlone, Signs, AsgJobs, AsgDocsFit, AsgOnce,
     AsgRemoved, AsgInv

LEMMA AsgNext ==
  ASSUME AsgInv, Assignments!Next
  PROVE  AsgInv'
  BY AsgSignReads, AsgEnqueue, AsgEditReads, AsgPick, AsgRemovesOld,
     AsgRemovesNothing, AsgSaves, AsgThrow, AsgBeginSign, AsgBeginEdit, AsgGenerate,
     AsgGenerateFails, AsgDataMove, AsgRemovesByStaff, AsgEditsDocument, AsgRestart DEF
     Assignments!Proceed, Assignments!Next

LEMMA AsgStutters ==
  ASSUME AsgInv, UNCHANGED Assignments!vars
  PROVE  AsgInv'
<1>1. UNCHANGED <<person, flight, assignments, jobs, assignmentRequest, moved, assignmentMet, assignmentBroken, removed, edited,
                     assignmentSpent>>
  BY DEF Assignments!vars
<1>2. /\ AsgShapes' /\ AsgNumbers' /\ AsgAlone' /\ AsgSigs'
      /\ AsgOnce' /\ AsgRemoved'
  BY <1>1 DEF AsgInv, AsgShapes, AsgNumbers, AsgAlone, AsgSigs, Signs, AsgOnce,
     AsgRemoved, Clear, Fair
<1>3. AsgOn
  BY <1>1 DEF AsgOn, AsgDataOf
<1>4. AsgSteps' /\ AsgSigns' /\ AsgEdits'
  BY <1>1, <1>3, AsgWaits DEF AsgSteps, AsgSigns, AsgEdits
<1>5. AsgJobs'
  BY <1>1, <1>3, AsgJobOn DEF AsgInv, AsgJobs
<1>6. AsgDocsFit'
  BY <1>1, <1>3, AsgDocsOn DEF AsgDataOf, Does, SavesAgain, Assignments!At
<1> QED
  BY <1>2, <1>4, <1>5, <1>6 DEF AsgInv

LEMMA AsgPromises ==
  ASSUME AsgInv
  PROVE  Assignments!CopiesConsistent
<1>1. \A p : Clear(p) <=> p \notin Assignments!Disturbed
  BY DEF Clear, Assignments!Disturbed
<1>2. \A d \in DOMAIN assignments :
        /\ DocSays(d) /\ DocStays(d) /\ DocKept(d)
        /\ assignments[d].type = "ASSIGNMENT" \/ Assignments!StaffEdited(d)
  BY DEF AsgInv, AsgDocsFit, AsgSigs, Assignments!StaffEdited
<1>3. Assignments!AssignmentCurrent
  BY <1>1, <1>2 DEF Assignments!AssignmentCurrent, Assignments!Copies, DocSays,
     Outgrown, Says, Does, Fair, Assignments!StaffEdited
<1>4. Assignments!OneCopyPerSignature
  BY <1>1 DEF AsgInv, AsgOnce, Assignments!OneCopyPerSignature,
      Assignments!Copies, Fair, Assignments!StaffEdited
<1>5. Assignments!SignatureNotLost
  BY <1>2 DEF Assignments!SignatureNotLost, DocKept, SavesAgain,
      Assignments!Copies, Assignments!StaffEdited
<1>6. Assignments!RemovedStaysRemoved
  BY <1>1, <1>2 DEF Assignments!RemovedStaysRemoved, DocStays,
      Assignments!Copies, Fair, Assignments!StaffEdited
<1> QED
  BY <1>3, <1>4, <1>5, <1>6 DEF Assignments!CopiesConsistent

\* So does one of the assignments.
LEMMA AsgMoves ==
  ASSUME [Next]_vars, moving = "assignments"
  PROVE  moving' = "assignments" /\ [Assignments!Next]_(Assignments!vars)
  BY DEF vars, assignmentVars, Assignments!vars, Next, MoveAccounts,
     MoveDiscrepancies, MoveAssignments, MoveLinks, MoveViews, MovePartners, MoveLetters,
     MoveCompensation, MovePayments, MoveAirports

LEMMA AsgInvariant == Spec => [](moving = "assignments" => AsgInv)
<1> DEFINE Inv == moving = "assignments" => AsgInv
<1>1. Init => Inv
  BY AsgInit DEF Init
<1>2. Inv /\ [Next]_vars => Inv'
  BY AsgMoves, AsgNext, AsgStutters, SideAssumption DEF Next, vars, MoveAccounts,
     MoveDiscrepancies, MoveAssignments, MoveLinks, MoveViews, MovePartners, MoveLetters,
     MoveCompensation, MovePayments, MoveAirports
<1> QED
  BY <1>1, <1>2, PTL DEF Spec

-----------------------------------------------------------------------------
(* Letters of the office.                                                  *)

LEMMA LetFields ==
  ASSUME LetShapes
  PROVE  /\ Letters!Mails = 1..Len(mail) /\ Len(mail) \in Nat
         /\ \A m \in Letters!Mails : mail[m] \in LetMails /\ m \in Nat /\ m > 0
         /\ \A h \in Http : letterRequest[h] \in LetRequests /\ Letters!Mail(h) \in Nat
         /\ Letters!Rest \in LetRequests /\ Letters!Rest.op = "rest" /\ Letters!Rest.at = "rest"
  BY DEF LetShapes, LetRequests, Letters!Mails, Letters!Mail, Letters!Rest

\* A request goes on alone.
LEMMA LetGoes ==
  ASSUME LetShapes, NEW h \in Http, NEW new \in LetRequests,
         letterRequest' = [letterRequest EXCEPT ![h] = new]
  PROVE  /\ letterRequest' \in [Http -> LetRequests] /\ letterRequest'[h] = new
         /\ \A k \in Http \ {h} : letterRequest'[k] = letterRequest[k]
  BY DEF LetShapes

LEMMA LetGo ==
  ASSUME LetShapes, NEW h \in Http,
         NEW step \in {"address", "row", "file", "news", "fetch"}, Letters!Go(h, step)
  PROVE  /\ letterRequest' \in [Http -> LetRequests]
         /\ letterRequest'[h].at = step /\ letterRequest'[h].op = letterRequest[h].op
         /\ letterRequest'[h].mail = letterRequest[h].mail /\ letterRequest'[h].claim = letterRequest[h].claim
         /\ \A k \in Http \ {h} : letterRequest'[k] = letterRequest[k]
<1> DEFINE new == [letterRequest[h] EXCEPT !.at = step]
<1>1. letterRequest[h] \in LetRequests
  BY LetFields
<1>2. /\ new \in LetRequests /\ new.at = step /\ new.op = letterRequest[h].op
      /\ new.mail = letterRequest[h].mail /\ new.claim = letterRequest[h].claim
  BY <1>1 DEF LetRequests
<1>3. letterRequest' = [letterRequest EXCEPT ![h] = new]
  BY DEF Letters!Go
<1> HIDE DEF new
<1> QED
  BY <1>2, <1>3, LetGoes

LEMMA LetEnd ==
  ASSUME LetShapes, NEW h \in Http, Letters!End(h)
  PROVE  /\ letterRequest' \in [Http -> LetRequests] /\ letterRequest'[h] = Letters!Rest
         /\ \A k \in Http \ {h} : letterRequest'[k] = letterRequest[k]
  BY LetFields, LetGoes DEF Letters!End

LEMMA LetBesideOn ==
  ASSUME LetOn, NEW m \in Letters!Mails, NEW c, Beside(m, c)
  PROVE  Beside(m, c)' \/ Excused(m)'
  BY DEF Beside, Thread, Letters!InThread, LetOn, Excused

LEMMA LetExcusedOn ==
  ASSUME LetOn, NEW m \in Letters!Mails, Excused(m)
  PROVE  Excused(m)'
  BY LetBesideOn DEF Excused, LetOn, Thread, Letters!InThread

\* An answer whose row stays, and a request that stays, fit as before.
LEMMA LetAnswersOn ==
  ASSUME LetOn, NEW m \in Letters!Mails, AnswerFits(m), mail[m].row = "there"
  PROVE  AnswerFits(m)'
  BY LetBesideOn, LetExcusedOn DEF Thread, Letters!InThread, LetOn, AnswerFits,
     Excused

LEMMA LetRequestsOn ==
  ASSUME LetOn, NEW h \in Http, letterRequest'[h] = letterRequest[h], RequestFits(h), LetStepOf(h),
         letterRequest[h] \in LetRequests
  PROVE  RequestFits(h)'
<1> SUFFICES ASSUME letterRequest[h].op = "answer", letterRequest[h].at \in {"address", "row"},
                    Letters!Mail(h) # mail'[Letters!Mail(h)].thread
             PROVE  RequestFits(h)'
  BY DEF RequestFits, Letters!Mail
<1>1. PICK m \in Letters!Mails : m = Letters!Mail(h)
  BY DEF LetStepOf
<1>2. Letters!Mail(h)' = m
  BY <1>1 DEF Letters!Mail
<1>3. PICK c \in Old \cup {Letters!None} : c = letterRequest[h].claim
  BY DEF LetRequests
<1>4. m # mail[m].thread
  BY <1>1 DEF LetOn
<1>5. \/ Excused(m) \/ mail[m].row = "there"
      \/ /\ letterRequest[h].at = "row" /\ c # Letters!None
         /\ filed[c] = "gone" \/ Beside(m, c)
  BY <1>1, <1>3, <1>4 DEF RequestFits
<1> SUFFICES \/ Excused(m)' \/ mail'[m].row = "there"
             \/ /\ letterRequest[h].at = "row" /\ c # Letters!None
                /\ filed'[c] = "gone" \/ Beside(m, c)'
  BY <1>2, <1>3 DEF RequestFits
<1>6. CASE Excused(m)
  BY <1>6, LetExcusedOn
<1>7. CASE mail[m].row = "there"
  BY <1>7 DEF Thread, Letters!InThread, LetOn, Excused
<1>8. CASE letterRequest[h].at = "row" /\ c # Letters!None /\ filed[c] = "gone"
  BY <1>8 DEF LetOn
<1>9. CASE letterRequest[h].at = "row" /\ c # Letters!None /\ Beside(m, c)
  BY <1>9, LetBesideOn
<1> QED
  BY <1>5, <1>6, <1>7, <1>8, <1>9

LEMMA LetInit == Letters!Init => LetInv
  BY DEF Letters!Init, Letters!Mails, Letters!Rest, LetRequests, LetShapes, LetSteps,
     LetStepOf, LetRequestsFit, RequestFits, LetThreads, LetRows, LetAnswers, LetKept,
     LetInv

\* One request goes on, and the mails stay as they are.
LEMMA LetAlone ==
  ASSUME LetInv, NEW h \in Http, letterRequest' \in [Http -> LetRequests],
         \A k \in Http \ {h} : letterRequest'[k] = letterRequest[k],
         UNCHANGED <<filed, mail, refiled, early>>, letterBroken \subseteq letterBroken',
         LetStepOf(h)', RequestFits(h)',
         Carries(h) => Letters!Mail(h) \in letterBroken'
  PROVE  LetInv'
<1>1. LetShapes'
  BY DEF LetInv, LetShapes
<1>2. LetOn
  BY DEF LetOn, Letters!Mails
<1>3. Letters!Mails' = Letters!Mails
  BY DEF Letters!Mails
<1>4. LetSteps'
  BY DEF LetSteps, LetInv, LetStepOf, Letters!Mail, Letters!Mails
<1>5. LetRequestsFit'
  BY LetFields, <1>2, LetRequestsOn DEF LetRequestsFit, LetInv, LetSteps
<1>6. LetThreads' /\ LetRows'
  BY <1>3 DEF LetInv, LetThreads, LetRows
<1>7. LetAnswers'
  BY <1>3, <1>2, LetAnswersOn DEF LetAnswers, LetInv, AnswerFits
<1>8. LetKept'
  BY <1>3 DEF LetKept, LetInv, Carries, Letters!Mail, KeptOf
<1> QED
  BY <1>1, <1>4, <1>5, <1>6, <1>7, <1>8 DEF LetInv

\* A request that is over has nothing to fit.
LEMMA LetRested ==
  ASSUME NEW h \in Http, letterRequest'[h] = Letters!Rest
  PROVE  LetStepOf(h)' /\ RequestFits(h)' /\ ~Carries(h)'
  BY DEF LetStepOf, RequestFits, Carries, Letters!Rest

\* Requests that begin.
LEMMA LetBegins ==
  ASSUME LetInv, NEW h \in Http,
         \/ \E c \in Old \cup {Letters!None}, reply \in Letters!Mails \cup {0} : Letters!BeginLetter(h, reply, c)
         \/ \E c \in Old : Letters!BeginNotice(h, c)
         \/ \E m \in Letters!Mails : Letters!BeginAnswer(h, m) \/ \E c \in Old : Letters!BeginMove(h, m, c)
  PROVE  LetInv'
<1>1. PICK new \in LetRequests :
        /\ letterRequest[h] = Letters!Rest /\ letterRequest' = [letterRequest EXCEPT ![h] = new]
        /\ UNCHANGED <<filed, mail, refiled, early, letterBroken>>
        /\ \/ new.op = "letter" /\ new.at = "look" /\ new.mail \in Letters!Mails \cup {0}
           \/ new.op = "notice" /\ new.at = "send"
           \/ /\ new.op = "answer" /\ new.at = "thread" /\ new.mail \in Letters!Mails
              /\ mail[new.mail].kind = "INBOX"
           \/ /\ new.op = "move" /\ new.at = "update" /\ new.mail \in Letters!Mails
              /\ new.claim # Letters!None
  <2>0. LetShapes /\ Letters!Mails \subseteq Nat /\ 0 \in Nat
    BY LetFields DEF LetInv
  <2>1. ASSUME NEW c \in Old \cup {Letters!None}, NEW reply \in Letters!Mails \cup {0},
               Letters!BeginLetter(h, reply, c)
        PROVE  \E new \in LetRequests :
                 /\ letterRequest[h] = Letters!Rest /\ letterRequest' = [letterRequest EXCEPT ![h] = new]
                 /\ UNCHANGED <<filed, mail, refiled, early, letterBroken>>
                 /\ new.op = "letter" /\ new.at = "look" /\ new.mail \in Letters!Mails \cup {0}
    <3> DEFINE new == [op |-> "letter", at |-> "look", mail |-> reply, claim |-> c]
    <3>1. new \in LetRequests
      BY <2>0 DEF LetRequests
    <3> QED
      BY <2>1, <3>1 DEF Letters!BeginLetter, Letters!Begin, Letters!history
  <2>2. ASSUME NEW c \in Old, Letters!BeginNotice(h, c)
        PROVE  \E new \in LetRequests :
                 /\ letterRequest[h] = Letters!Rest /\ letterRequest' = [letterRequest EXCEPT ![h] = new]
                 /\ UNCHANGED <<filed, mail, refiled, early, letterBroken>>
                 /\ new.op = "notice" /\ new.at = "send"
    <3> DEFINE new == [op |-> "notice", at |-> "send", mail |-> 0, claim |-> c]
    <3>1. new \in LetRequests
      BY <2>0 DEF LetRequests
    <3> QED
      BY <2>2, <3>1 DEF Letters!BeginNotice, Letters!Begin, Letters!history
  <2>3. ASSUME NEW m \in Letters!Mails, Letters!BeginAnswer(h, m)
        PROVE  \E new \in LetRequests :
                 /\ letterRequest[h] = Letters!Rest /\ letterRequest' = [letterRequest EXCEPT ![h] = new]
                 /\ UNCHANGED <<filed, mail, refiled, early, letterBroken>>
                 /\ new.op = "answer" /\ new.at = "thread" /\ new.mail \in Letters!Mails
                 /\ mail[new.mail].kind = "INBOX"
    <3> DEFINE new == [op |-> "answer", at |-> "thread", mail |-> m, claim |-> Letters!None]
    <3>1. new \in LetRequests
      BY <2>0 DEF LetRequests
    <3>2. letterRequest[h] = Letters!Rest /\ letterRequest' = [letterRequest EXCEPT ![h] = new]
      BY <2>3 DEF Letters!BeginAnswer, Letters!Begin
    <3>3. UNCHANGED <<filed, mail, refiled, early, letterBroken>> /\ mail[m].kind = "INBOX"
      BY <2>3 DEF Letters!BeginAnswer, Letters!history
    <3> QED
      BY <3>1, <3>2, <3>3
  <2>4. ASSUME NEW m \in Letters!Mails, NEW c \in Old, Letters!BeginMove(h, m, c)
        PROVE  \E new \in LetRequests :
                 /\ letterRequest[h] = Letters!Rest /\ letterRequest' = [letterRequest EXCEPT ![h] = new]
                 /\ UNCHANGED <<filed, mail, refiled, early, letterBroken>>
                 /\ new.op = "move" /\ new.at = "update" /\ new.mail \in Letters!Mails
                 /\ new.claim # Letters!None
    <3> DEFINE new == [op |-> "move", at |-> "update", mail |-> m, claim |-> c]
    <3>1. new \in LetRequests /\ c # Letters!None
      BY <2>0, SideAssumption DEF LetRequests
    <3> QED
      BY <2>4, <3>1 DEF Letters!BeginMove, Letters!Begin, Letters!history
  <2> QED
    BY <2>1, <2>2, <2>3, <2>4
<1>2. LetShapes
  BY DEF LetInv
<1>3. /\ letterRequest' \in [Http -> LetRequests] /\ letterRequest'[h] = new
      /\ \A k \in Http \ {h} : letterRequest'[k] = letterRequest[k]
  BY <1>1, <1>2, LetGoes
<1>4. LetStepOf(h)'
  BY <1>1, <1>3 DEF LetStepOf, Letters!Mail, Letters!Mails
<1>5. RequestFits(h)'
  BY <1>1, <1>3 DEF RequestFits
<1>6. ~Carries(h)
  BY <1>1 DEF Carries, Letters!Rest
<1> QED
  BY <1>1, <1>3, <1>4, <1>5, <1>6, LetAlone

\* A request goes on with a claim it has found.
LEMMA LetFinds ==
  ASSUME LetShapes, NEW h \in Http, NEW step \in {"send", "row"}, NEW c \in Old \cup {Letters!None},
         letterRequest' = [letterRequest EXCEPT ![h].at = step, ![h].claim = c]
  PROVE  /\ letterRequest' \in [Http -> LetRequests]
         /\ letterRequest'[h].at = step /\ letterRequest'[h].op = letterRequest[h].op
         /\ letterRequest'[h].mail = letterRequest[h].mail /\ letterRequest'[h].claim = c
         /\ \A k \in Http \ {h} : letterRequest'[k] = letterRequest[k]
<1> DEFINE new == [letterRequest[h] EXCEPT !.at = step, !.claim = c]
<1>1. letterRequest[h] \in LetRequests
  BY LetFields
<1>2. /\ new \in LetRequests /\ new.at = step /\ new.op = letterRequest[h].op
      /\ new.mail = letterRequest[h].mail /\ new.claim = c
  BY <1>1 DEF LetRequests
<1>3. letterRequest' = [letterRequest EXCEPT ![h] = new]
  OBVIOUS
<1> HIDE DEF new
<1> QED
  BY <1>2, <1>3, LetGoes

LEMMA LetLetterLooks ==
  ASSUME LetInv, NEW h \in Http, Letters!LetterLooks(h)
  PROVE  LetInv'
<1>1. /\ letterRequest[h].op = "letter" /\ letterRequest[h].at = "look"
      /\ UNCHANGED <<filed, mail, refiled, early, letterBroken>>
  BY DEF Letters!LetterLooks, Letters!At, Letters!Only, Letters!history
<1>2. PICK c \in Old \cup {Letters!None} :
        letterRequest' = [letterRequest EXCEPT ![h].at = "send", ![h].claim = c]
  <2>1. letterRequest[h].claim \in Old \cup {Letters!None}
    BY LetFields DEF LetInv, LetRequests
  <2> DEFINE c == IF letterRequest[h].claim # Letters!None /\ filed[letterRequest[h].claim] # "gone"
                  THEN letterRequest[h].claim ELSE Letters!None
  <2>2. c \in Old \cup {Letters!None}
    BY <2>1
  <2>3. letterRequest' = [letterRequest EXCEPT ![h].at = "send", ![h].claim = c]
    BY DEF Letters!LetterLooks
  <2> QED
    BY <2>2, <2>3
<1>3. /\ letterRequest' \in [Http -> LetRequests]
      /\ letterRequest'[h].at = "send" /\ letterRequest'[h].op = "letter"
      /\ letterRequest'[h].mail = letterRequest[h].mail
      /\ \A k \in Http \ {h} : letterRequest'[k] = letterRequest[k]
  BY <1>1, <1>2, LetFinds DEF LetInv
<1>4. LetStepOf(h)'
  BY <1>1, <1>3 DEF LetInv, LetSteps, LetStepOf, Letters!Mail, Letters!Mails
<1>5. RequestFits(h)' /\ ~Carries(h)
  BY <1>1, <1>3 DEF RequestFits, Carries
<1> QED
  BY <1>1, <1>3, <1>4, <1>5, LetAlone

\* A thread without rows has lost them, or had none when the mail came.
LEMMA LetNoRows ==
  ASSUME LetInv, NEW m \in Letters!Mails, mail[m].kind = "INBOX", m # mail[m].thread,
         \A n \in Thread(m) : mail[n].row # "there"
  PROVE  Excused(m)
<1> DEFINE t == mail[m].thread
<1>1. t \in Letters!Mails /\ mail[t].thread = t
  BY LetFields DEF LetInv, LetThreads
<1>2. t \in Thread(m) /\ mail[t].row # "there"
  BY <1>1 DEF Thread, Letters!InThread
<1>3. mail[t].row \in {"none", "there", "gone"}
  BY <1>1, LetFields DEF LetInv, LetMails
<1>4. m \in early \/ t \in refiled
  BY <1>1, <1>2, <1>3 DEF LetInv, LetRows
<1> QED
  BY <1>2, <1>4 DEF Excused

LEMMA LetLooksInThread ==
  ASSUME LetInv, NEW h \in Http, Letters!LooksInThread(h)
  PROVE  LetInv'
<1>1. PICK m \in Letters!Mails : m = Letters!Mail(h)
  BY DEF Letters!LooksInThread, Letters!At, LetInv, LetSteps, LetStepOf
<1>2. /\ letterRequest[h].op = "answer" /\ letterRequest[h].at = "thread" /\ mail[m].kind = "INBOX"
      /\ UNCHANGED <<filed, mail, refiled, early, letterBroken>>
  BY <1>1 DEF Letters!LooksInThread, Letters!At, Letters!Only,
      Letters!history, LetInv, LetSteps, LetStepOf
<1> DEFINE stored == {n \in Thread(m) : mail[n].row = "there"}
<1>3. \/ \E n \in stored : /\ mail[n].claim # Letters!None
                         /\ letterRequest' = [letterRequest EXCEPT ![h].at = "row",
                                                       ![h].claim = mail[n].claim]
      \/ /\ stored = {} \/ \E n \in stored : mail[n].claim = Letters!None
         /\ Letters!Go(h, "address")
  BY <1>1 DEF Letters!LooksInThread, Thread
<1>4. LetOn /\ ~Carries(h) /\ LetShapes
  BY <1>2 DEF LetOn, Letters!Mails, Carries, LetInv
<1>5. CASE \E n \in stored : /\ mail[n].claim # Letters!None
                           /\ letterRequest' = [letterRequest EXCEPT ![h].at = "row",
                                                         ![h].claim = mail[n].claim]
  <2>1. PICK n \in stored : /\ mail[n].claim # Letters!None
                          /\ letterRequest' = [letterRequest EXCEPT ![h].at = "row",
                                                        ![h].claim = mail[n].claim]
    BY <1>5
  <2>2. PICK c \in Old \cup {Letters!None} : c = mail[n].claim
    BY <2>1, <1>4, LetFields DEF Thread, Letters!InThread, LetMails
  <2>3. /\ letterRequest' \in [Http -> LetRequests]
        /\ letterRequest'[h].at = "row" /\ letterRequest'[h].op = "answer"
        /\ letterRequest'[h].mail = letterRequest[h].mail /\ letterRequest'[h].claim = c
        /\ \A k \in Http \ {h} : letterRequest'[k] = letterRequest[k]
    BY <1>2, <1>4, <2>1, <2>2, LetFinds
  <2>4. Letters!Mail(h)' = m
    BY <1>1, <2>3 DEF Letters!Mail
  <2>5. LetStepOf(h)'
    BY <1>2, <2>3, <2>4 DEF LetStepOf, Letters!Mails
  <2>6. mail[m].row = "there" \/ Beside(m, c)
    BY <2>1, <2>2 DEF Beside
  <2>7. mail'[m].row = "there" \/ Excused(m)' \/ Beside(m, c)'
    BY <1>2, <1>4, <2>6, LetBesideOn
  <2>8. RequestFits(h)'
    BY <2>1, <2>2, <2>3, <2>4, <2>7 DEF RequestFits
  <2> QED
    BY <1>2, <1>4, <2>3, <2>5, <2>8, LetAlone
<1>6. CASE (stored = {} \/ \E n \in stored : mail[n].claim = Letters!None) /\ Letters!Go(h, "address")
  BY <1>2, <1>4, <1>6, LetGo, <1>1, LetNoRows, LetExcusedOn, LetAlone DEF
     Letters!Mail, LetStepOf, Letters!Mails, Excused, Beside, RequestFits
<1> QED
  BY <1>3, <1>5, <1>6

LEMMA LetLooksForAddress ==
  ASSUME LetInv, NEW h \in Http, Letters!LooksForAddress(h)
  PROVE  LetInv'
<1>1. PICK m \in Letters!Mails : m = Letters!Mail(h)
  BY DEF Letters!LooksForAddress, Letters!At, LetInv, LetSteps, LetStepOf
<1>2. /\ letterRequest[h].op = "answer" /\ letterRequest[h].at = "address" /\ mail[m].kind = "INBOX"
      /\ UNCHANGED <<filed, mail, refiled, early, letterBroken>>
  BY <1>1 DEF Letters!LooksForAddress, Letters!At, Letters!Only,
      Letters!history, LetInv, LetSteps, LetStepOf
<1>3. LetOn /\ ~Carries(h) /\ LetShapes
  BY <1>2 DEF LetOn, Letters!Mails, Carries, LetInv
<1>4. /\ letterRequest' \in [Http -> LetRequests]
      /\ letterRequest'[h].at = "row" /\ letterRequest'[h].op = "answer"
      /\ letterRequest'[h].mail = letterRequest[h].mail
      /\ \A k \in Http \ {h} : letterRequest'[k] = letterRequest[k]
  BY <1>2, <1>3, LetGo, LetFinds DEF Letters!LooksForAddress
<1>5. Letters!Mail(h)' = m
  BY <1>1, <1>4 DEF Letters!Mail
<1>6. LetStepOf(h)'
  BY <1>2, <1>4, <1>5 DEF LetStepOf, Letters!Mails
<1>7. m # mail[m].thread => Excused(m) \/ mail[m].row = "there"
  BY <1>1, <1>2 DEF LetInv, LetRequestsFit, RequestFits
<1>8. m # mail'[m].thread => Excused(m)' \/ mail'[m].row = "there"
  BY <1>2, <1>3, <1>7, LetExcusedOn
<1>9. RequestFits(h)'
  BY <1>4, <1>5, <1>8 DEF RequestFits
<1> QED
  BY <1>2, <1>3, <1>4, <1>6, <1>9, LetAlone

\* A request that goes on or ends behind its row.
LEMMA LetGoesOn ==
  ASSUME LetInv, NEW h \in Http, Letters!SavesNews(h) \/ Letters!FetchesFile(h)
  PROVE  LetInv'
<1>1. /\ letterRequest[h].op = "answer" /\ letterRequest[h].at \in {"news", "fetch"}
      /\ UNCHANGED <<filed, mail, refiled, early>> /\ letterBroken \subseteq letterBroken'
      /\ Letters!End(h) \/ Letters!Go(h, "fetch") \/ Letters!Go(h, "file")
  BY DEF Letters!SavesNews, Letters!FetchesFile, Letters!At, Letters!Only,
      Letters!history, Letters!Trouble
<1>2. LetShapes /\ LetStepOf(h) /\ ~Carries(h)
  BY <1>1 DEF LetInv, LetSteps, Carries
<1>3. CASE Letters!End(h)
  BY <1>2, <1>3, LetEnd, <1>1, LetRested, LetAlone
<1>4. ASSUME NEW step \in {"fetch", "file"}, Letters!Go(h, step)
      PROVE  LetInv'
  BY <1>1, <1>2, <1>4, LetGo, LetAlone DEF LetStepOf, RequestFits, Letters!Mail,
     Letters!Mails
<1> QED
  BY <1>1, <1>3, <1>4

\* A request that comes to grief, and a notice that is lost before it is a mail.
LEMMA LetTrouble ==
  ASSUME LetInv, NEW h \in Http, Letters!Trouble(h), UNCHANGED <<filed, mail, refiled, early>>
  PROVE  LetInv'
  BY LetEnd, LetRested, LetAlone DEF LetInv, Letters!Trouble

LEMMA LetNoticeLost ==
  ASSUME LetInv, NEW h \in Http, Letters!NoticeLost(h)
  PROVE  LetInv'
  BY LetEnd, LetRested, LetAlone DEF LetInv, Letters!NoticeLost, Letters!At, Carries,
     Letters!history

-----------------------------------------------------------------------------
(* Mails that are sent.                                                    *)

\* A new mail comes behind the others, in a thread of theirs or its own.
LEMMA LetPosted ==
  ASSUME LetShapes, LetThreads, NEW thread \in Nat, NEW kind \in {"INBOX", "SENT", "NOTICE"},
         NEW c \in Old \cup {Letters!None}, Letters!Posted(thread, kind, c),
         thread # 0 => \E n \in Letters!Mails : mail[n].thread = thread,
         NEW k, k = Len(mail) + 1
  PROVE  /\ mail' \in Seq(LetMails) /\ k \in Nat /\ k \notin Letters!Mails
         /\ Letters!Mails' = Letters!Mails \cup {k}
         /\ \A n \in Letters!Mails : mail'[n] = mail[n]
         /\ mail'[k].kind = kind /\ mail'[k].row = "none"
         /\ mail'[k].thread = IF thread = 0 THEN k ELSE thread
         /\ thread # 0 => thread \in Letters!Mails /\ mail[thread].thread = thread
         /\ LetThreads'
<1> DEFINE new == [thread |-> IF thread = 0 THEN k ELSE thread, kind |-> kind,
                   chosen |-> c, row |-> "none", claim |-> Letters!None, file |-> FALSE]
<1>1. mail \in Seq(LetMails) /\ Letters!Mails = 1..Len(mail) /\ Len(mail) \in Nat /\ k \in Nat
  BY LetFields DEF LetShapes
<1>2. /\ new \in LetMails /\ new.kind = kind /\ new.row = "none"
      /\ new.thread = IF thread = 0 THEN k ELSE thread
  BY <1>1 DEF LetMails
<1>3. mail' = Append(mail, new)
  BY DEF Letters!Posted
<1> HIDE DEF new
<1>4. /\ mail' \in Seq(LetMails) /\ Len(mail') = k /\ mail'[k] = new
      /\ \A n \in 1..Len(mail) : mail'[n] = mail[n]
  BY <1>1, <1>2, <1>3
<1>5. Letters!Mails' = Letters!Mails \cup {k} /\ k \notin Letters!Mails
  BY <1>4, <1>1 DEF Letters!Mails
<1>6. thread # 0 => thread \in Letters!Mails /\ mail[thread].thread = thread
  BY <1>1 DEF LetThreads
<1>7. LetThreads'
  <2>1. /\ mail'[k].thread = IF thread = 0 THEN k ELSE thread
        /\ \A n \in Letters!Mails : mail'[n] = mail[n]
    BY <1>1, <1>2, <1>4
  <2>2. ASSUME NEW n \in Letters!Mails
        PROVE  /\ mail'[n].thread \in 1..n
               /\ mail'[mail'[n].thread].thread = mail'[n].thread
    <3>1. mail[n].thread \in 1..n /\ mail[mail[n].thread].thread = mail[n].thread
      BY DEF LetThreads
    <3>2. mail[n].thread \in Letters!Mails
      BY <1>1, <3>1
    <3> QED
      BY <2>1, <3>1, <3>2
  <2>3. /\ mail'[k].thread \in 1..k
        /\ mail'[mail'[k].thread].thread = mail'[k].thread
    <3>1. CASE thread = 0
      BY <1>1, <2>1, <3>1
    <3>2. CASE thread # 0
      BY <1>1, <2>1, <1>6, <3>2
    <3> QED
      BY <3>1, <3>2
  <2> QED
    BY <1>5, <2>2, <2>3 DEF LetThreads
<1> QED
  BY <1>1, <1>2, <1>4, <1>5, <1>6, <1>7

\* The rest stays as it is; one who sends carries the new mail.
LEMMA LetPostedInv ==
  ASSUME LetInv, NEW thread \in Nat, NEW kind \in {"INBOX", "SENT", "NOTICE"},
         NEW c \in Old \cup {Letters!None}, Letters!Posted(thread, kind, c),
         thread # 0 => \E n \in Letters!Mails : mail[n].thread = thread,
         NEW k, k = Len(mail) + 1,
         UNCHANGED <<filed, refiled, letterBroken>>, early \subseteq early',
         thread # 0 /\ kind = "INBOX" /\ mail[thread].row # "there" => k \in early',
         letterRequest' \in [Http -> LetRequests],
         \A h \in Http : \/ letterRequest'[h] = letterRequest[h]
                         \/ LetStepOf(h)' /\ RequestFits(h)' /\ ~Carries(h),
         kind # "INBOX" => \E h \in Http : Carries(h)' /\ Letters!Mail(h)' = k
  PROVE  LetInv'
<1>1. LetShapes /\ LetThreads
  BY DEF LetInv
<1>2. /\ mail' \in Seq(LetMails) /\ k \in Nat /\ k \notin Letters!Mails
      /\ Letters!Mails' = Letters!Mails \cup {k}
      /\ \A n \in Letters!Mails : mail'[n] = mail[n]
      /\ mail'[k].kind = kind /\ mail'[k].row = "none"
      /\ mail'[k].thread = IF thread = 0 THEN k ELSE thread
      /\ thread # 0 => thread \in Letters!Mails /\ mail[thread].thread = thread
      /\ LetThreads'
  BY <1>1, LetPosted
<1>3. LetShapes'
  BY <1>1, <1>2 DEF LetShapes
<1>4. LetOn
  BY <1>2 DEF LetOn
<1>5. LetSteps'
  BY <1>2 DEF LetSteps, LetInv, LetStepOf, Letters!Mail
<1>6. LetRequestsFit'
  BY LetFields, <1>4, LetRequestsOn DEF LetRequestsFit, LetInv, LetSteps
<1>7. LetAnswers'
  BY <1>2, <1>4, LetAnswersOn DEF LetAnswers, AnswerFits, LetInv
<1>8. LetRows'
  <2> SUFFICES ASSUME NEW m \in Letters!Mails \cup {k}
               PROVE  /\ mail'[m].row = "gone" => m \in refiled
                      /\ mail'[m].row = "there" /\ mail'[m].claim # Letters!None
                           => filed[mail'[m].claim] # "gone"
                      /\ mail'[m].kind = "INBOX" /\ m # mail'[m].thread /\ m \notin early'
                           => mail'[mail'[m].thread].row # "none"
    BY <1>2 DEF LetRows
  <2>1. CASE m = k
    BY <1>2, <2>1
  <2>2. CASE m \in Letters!Mails
    BY <1>1, <2>2, LetFields, <1>2 DEF LetThreads, LetInv, LetRows
  <2> QED
    BY <2>1, <2>2
<1>9. LetKept'
  BY <1>2 DEF LetKept, KeptOf, LetInv, Carries, Letters!Mail
<1> QED
  BY <1>2, <1>3, <1>5, <1>6, <1>7, <1>8, <1>9 DEF LetInv

\* A request goes on with the mail it has sent.
LEMMA LetSends ==
  ASSUME LetShapes, NEW h \in Http, NEW k \in Nat,
         letterRequest' = [letterRequest EXCEPT ![h].at = "row", ![h].mail = k]
  PROVE  /\ letterRequest' \in [Http -> LetRequests]
         /\ letterRequest'[h].at = "row" /\ letterRequest'[h].op = letterRequest[h].op
         /\ letterRequest'[h].mail = k
         /\ \A j \in Http \ {h} : letterRequest'[j] = letterRequest[j]
<1> DEFINE new == [letterRequest[h] EXCEPT !.at = "row", !.mail = k]
<1>1. letterRequest[h] \in LetRequests
  BY LetFields
<1>2. new \in LetRequests /\ new.at = "row" /\ new.op = letterRequest[h].op /\ new.mail = k
  BY <1>1 DEF LetRequests
<1>3. letterRequest' = [letterRequest EXCEPT ![h] = new]
  OBVIOUS
<1> HIDE DEF new
<1> QED
  BY <1>2, <1>3, LetGoes

LEMMA LetSendsMail ==
  ASSUME LetInv, NEW h \in Http, Letters!LetterSends(h) \/ Letters!NoticeSends(h)
  PROVE  LetInv'
<1>1. PICK k : k = Len(mail) + 1
  OBVIOUS
<1>2. /\ LetShapes /\ LetThreads /\ Len(mail) \in Nat /\ k \in Nat
      /\ Letters!Mail(h) \in Nat /\ LetStepOf(h)
      /\ letterRequest[h].claim \in Old \cup {Letters!None}
  BY <1>1, LetFields DEF LetInv, LetSteps, LetRequests
<1>3. PICK thread \in Nat, kind \in {"SENT", "NOTICE"}, c \in Old \cup {Letters!None} :
        /\ Letters!Posted(thread, kind, c)
        /\ thread # 0 => \E n \in Letters!Mails : mail[n].thread = thread
        /\ letterRequest[h].op = IF kind = "SENT" THEN "letter" ELSE "notice"
  BY <1>2, LetFields DEF Letters!LetterSends, Letters!At, LetStepOf, LetMails,
     Letters!NoticeSends
<1>4. /\ letterRequest[h].at = "send" /\ UNCHANGED <<filed, refiled, early, letterBroken>>
      /\ letterRequest' = [letterRequest EXCEPT ![h].at = "row", ![h].mail = k]
  BY <1>1 DEF Letters!LetterSends, Letters!NoticeSends, Letters!At,
      Letters!history
<1>5. /\ letterRequest' \in [Http -> LetRequests]
      /\ letterRequest'[h].at = "row" /\ letterRequest'[h].op = letterRequest[h].op
      /\ letterRequest'[h].mail = k
      /\ \A j \in Http \ {h} : letterRequest'[j] = letterRequest[j]
  BY <1>2, <1>4, LetSends
<1>6. Letters!Mails' = Letters!Mails \cup {k} /\ mail'[k].kind = kind
  BY <1>1, <1>2, <1>3, LetPosted
<1>7. Letters!Mail(h)' = k
  BY <1>5 DEF Letters!Mail
<1>8. Carries(h)' /\ ~Carries(h)
  BY <1>3, <1>4, <1>5 DEF Carries
<1>9. LetStepOf(h)' /\ RequestFits(h)'
  BY <1>3, <1>5, <1>6, <1>7 DEF LetStepOf, RequestFits
<1>10. \A j \in Http : \/ letterRequest'[j] = letterRequest[j]
                       \/ LetStepOf(j)' /\ RequestFits(j)' /\ ~Carries(j)
  BY <1>5, <1>8, <1>9
<1> QED
  BY <1>1, <1>3, <1>4, <1>5, <1>7, <1>8, <1>10, LetPostedInv

LEMMA LetWrites ==
  ASSUME LetInv, NEW m \in Letters!Mails \cup {0}, Letters!Writes(IF m = 0 THEN 0 ELSE mail[m].thread)
  PROVE  LetInv'
<1>1. PICK thread : thread = IF m = 0 THEN 0 ELSE mail[m].thread
  OBVIOUS
<1>2. PICK k : k = Len(mail) + 1
  OBVIOUS
<1>3. /\ LetShapes /\ LetThreads /\ thread \in Nat
      /\ thread # 0 => \E n \in Letters!Mails : mail[n].thread = thread
  BY <1>1, LetFields DEF LetInv, LetMails
<1>4. /\ Letters!Posted(thread, "INBOX", Letters!None)
      /\ early' = early \cup {k : n \in {n \in Letters!InThread(thread) : mail[n].row # "there"}}
      /\ UNCHANGED <<filed, letterRequest, refiled, letterBroken>>
  BY <1>1, <1>2 DEF Letters!Writes
<1>5. thread # 0 => thread \in Letters!Mails /\ mail[thread].thread = thread
  BY <1>2, <1>3, <1>4, LetPosted
<1>6. thread # 0 /\ mail[thread].row # "there" => k \in early'
  BY <1>4, <1>5 DEF Letters!InThread
<1>7. letterRequest' \in [Http -> LetRequests]
  BY <1>3, <1>4 DEF LetShapes
<1> QED
  BY <1>2, <1>3, <1>4, <1>6, <1>7, LetPostedInv

-----------------------------------------------------------------------------
(* Rows that are written.                                                  *)

\* One mail is filed, gets its file or is refiled.
LEMMA LetFiled ==
  ASSUME LetInv, NEW h \in Http, NEW m \in Letters!Mails, NEW new \in LetMails,
         mail' = [mail EXCEPT ![m] = new],
         new.thread = mail[m].thread, new.kind = mail[m].kind, new.row = "there",
         mail[m].row = "there" => new.claim = mail[m].claim \/ m \in refiled',
         new.claim # Letters!None => filed[new.claim] # "gone",
         UNCHANGED <<filed, early, letterBroken>>, refiled \subseteq refiled',
         letterRequest' \in [Http -> LetRequests],
         \A k \in Http \ {h} : letterRequest'[k] = letterRequest[k],
         LetStepOf(h)', RequestFits(h)', AnswerFits(m)', KeptOf(m)',
         Carries(h) => Letters!Mail(h) = m
  PROVE  LetInv'
<1>1. /\ mail' \in Seq(LetMails) /\ Letters!Mails' = Letters!Mails /\ mail'[m] = new
      /\ \A n \in Letters!Mails \ {m} : mail'[n] = mail[n]
  BY DEF LetInv, LetShapes, Letters!Mails
<1>2. LetShapes'
  BY <1>1 DEF LetInv, LetShapes
<1>3. LetOn
  BY <1>1 DEF LetOn
<1>4. \A n \in Letters!Mails : mail'[n].thread = mail[n].thread /\ mail'[n].kind = mail[n].kind
  BY <1>3 DEF LetOn
<1>5. LetSteps'
  BY <1>1, <1>4 DEF LetSteps, LetInv, LetStepOf, Letters!Mail
<1>6. LetRequestsFit'
  BY LetFields, <1>3, LetRequestsOn DEF LetRequestsFit, LetInv, LetSteps
<1>7. \A n \in Letters!Mails : mail[n].thread \in Letters!Mails
  <2> TAKE n \in Letters!Mails
  <2>1. mail[n].thread \in 1..n
    BY DEF LetInv, LetThreads
  <2>2. Letters!Mails = 1..Len(mail) /\ Len(mail) \in Nat
    BY LetFields DEF LetInv
  <2> QED
    BY <2>1, <2>2
<1>8. LetThreads'
  BY <1>1, <1>4, <1>7 DEF LetInv, LetThreads
<1>9. LetRows'
  BY <1>1, <1>7, <1>4 DEF LetRows, LetInv
<1>10. LetAnswers'
  BY <1>1, <1>3, LetAnswersOn DEF LetAnswers, LetInv, AnswerFits
<1>11. LetKept'
  BY <1>1 DEF LetKept, LetInv, Carries, Letters!Mail, KeptOf
<1> QED
  BY <1>2, <1>5, <1>6, <1>8, <1>9, <1>10, <1>11 DEF LetInv

LEMMA LetSavesRow ==
  ASSUME LetInv, NEW h \in Http, Letters!SavesRow(h)
  PROVE  LetInv'
<1>1. /\ LetShapes /\ LetStepOf(h) /\ RequestFits(h) /\ letterRequest[h] \in LetRequests
      /\ letterRequest[h].at = "row" /\ UNCHANGED <<filed, refiled, early>>
  BY LetFields DEF LetInv, LetSteps, LetRequestsFit, Letters!SavesRow
<1>2. letterRequest[h].op \in {"letter", "notice", "answer"} /\ Letters!Mail(h) \in Letters!Mails
  BY <1>1 DEF LetStepOf, LetRequests, Letters!Rest
<1>3. PICK m \in Letters!Mails : m = Letters!Mail(h)
  BY <1>2
<1>4. PICK c \in Old \cup {Letters!None} : c = letterRequest[h].claim
  BY <1>1 DEF LetRequests
<1>5. CASE mail[m].row = "there" \/ (c # Letters!None /\ filed[c] = "gone")
  BY <1>3, <1>4, <1>5, <1>1, LetTrouble DEF Letters!SavesRow
<1>6. CASE mail[m].row # "there" /\ (c # Letters!None => filed[c] # "gone")
  <2>1. /\ mail' = [mail EXCEPT ![m].row = "there", ![m].claim = c]
        /\ letterBroken' = letterBroken
        /\ \/ letterRequest[h].op = "notice" /\ Letters!End(h)
           \/ letterRequest[h].op = "letter" /\ Letters!Go(h, "file")
           \/ letterRequest[h].op = "answer" /\ (Letters!Go(h, "fetch") \/ (c # Letters!None /\ Letters!Go(h, "news")))
    BY <1>3, <1>4, <1>6 DEF Letters!SavesRow
  <2> DEFINE new == [mail[m] EXCEPT !.row = "there", !.claim = c]
  <2>2. mail[m] \in LetMails
    BY <1>1, LetFields
  <2>3. /\ new \in LetMails /\ new.thread = mail[m].thread /\ new.kind = mail[m].kind
        /\ new.row = "there" /\ new.claim = c
    BY <2>2 DEF LetMails
  <2>4. mail' = [mail EXCEPT ![m] = new]
    BY <2>1
  <2> HIDE DEF new
  <2>5. /\ mail' \in Seq(LetMails) /\ Letters!Mails' = Letters!Mails /\ mail'[m] = new
        /\ \A n \in Letters!Mails \ {m} : mail'[n] = mail[n]
    BY <1>1, <2>3, <2>4 DEF LetShapes, Letters!Mails
  <2>6. LetOn
    BY <1>1, <1>6, <2>3, <2>5 DEF LetOn
  <2>7. /\ letterRequest' \in [Http -> LetRequests]
        /\ \A k \in Http \ {h} : letterRequest'[k] = letterRequest[k]
        /\ \/ letterRequest[h].op = "notice" /\ letterRequest'[h] = Letters!Rest
           \/ /\ letterRequest[h].op = "letter" /\ letterRequest'[h].op = "letter"
              /\ letterRequest'[h].at = "file" /\ letterRequest'[h].mail = letterRequest[h].mail
           \/ /\ letterRequest[h].op = "answer" /\ letterRequest'[h].op = "answer"
              /\ letterRequest'[h].mail = letterRequest[h].mail /\ letterRequest'[h].claim = c
              /\ letterRequest'[h].at = "fetch" \/ (c # Letters!None /\ letterRequest'[h].at = "news")
    BY <1>1, LetEnd, LetGo, <1>4, <2>1
  <2>8. mail'[m].kind = mail[m].kind /\ mail'[m].row = "there"
    BY <2>3, <2>5
  <2>9. LetStepOf(h)' /\ RequestFits(h)'
    BY LetRested, <1>3, <2>7, <1>1, <2>5, <2>8 DEF Letters!Mail, LetStepOf,
       RequestFits
  <2>10. AnswerFits(m)'
    BY <2>3, <2>5, <1>1, <1>2, <1>3, <1>4, <1>6, <2>6, LetExcusedOn, LetBesideOn DEF
       AnswerFits, LetStepOf, RequestFits
  <2>11. KeptOf(m)'
    BY <1>1, <1>3, <2>7, <2>8 DEF LetStepOf, Carries, Letters!Mail, KeptOf
  <2> QED
    BY <1>1, <1>3, <1>6, <2>1, <2>3, <2>4, <2>7, <2>9, <2>10, <2>11, LetFiled
<1> QED
  BY <1>5, <1>6

LEMMA LetSavesFile ==
  ASSUME LetInv, NEW h \in Http, Letters!SavesFile(h)
  PROVE  LetInv'
<1>1. /\ LetShapes /\ LetStepOf(h) /\ letterRequest[h] \in LetRequests
      /\ letterRequest[h].at = "file" /\ UNCHANGED <<filed, refiled, early>>
  BY LetFields DEF LetInv, LetSteps, Letters!SavesFile
<1>2. letterRequest[h].op \in {"letter", "answer"} /\ Letters!Mail(h) \in Letters!Mails
  BY <1>1 DEF LetStepOf, LetRequests, Letters!Rest
<1>3. PICK m \in Letters!Mails : m = Letters!Mail(h)
  BY <1>2
<1>4. CASE mail[m].row # "there"
  BY <1>3, <1>4, <1>1, LetTrouble DEF Letters!SavesFile
<1>5. CASE mail[m].row = "there"
  <2>1. mail' = [mail EXCEPT ![m].file = TRUE] /\ Letters!End(h) /\ letterBroken' = letterBroken
    BY <1>3, <1>5 DEF Letters!SavesFile
  <2> DEFINE new == [mail[m] EXCEPT !.file = TRUE]
  <2>2. mail[m] \in LetMails
    BY <1>1, LetFields
  <2>3. /\ new \in LetMails /\ new.thread = mail[m].thread /\ new.kind = mail[m].kind
        /\ new.row = "there" /\ new.claim = mail[m].claim /\ new.file
    BY <1>5, <2>2 DEF LetMails
  <2>4. mail' = [mail EXCEPT ![m] = new]
    BY <2>1
  <2> HIDE DEF new
  <2>5. /\ mail' \in Seq(LetMails) /\ Letters!Mails' = Letters!Mails /\ mail'[m] = new
        /\ \A n \in Letters!Mails \ {m} : mail'[n] = mail[n]
    BY <1>1, <2>3, <2>4 DEF LetShapes, Letters!Mails
  <2>6. LetOn
    BY <1>1, <1>5, <2>3, <2>5 DEF LetOn
  <2>7. /\ letterRequest' \in [Http -> LetRequests] /\ letterRequest'[h] = Letters!Rest
        /\ \A k \in Http \ {h} : letterRequest'[k] = letterRequest[k]
    BY <1>1, <2>1, LetEnd
  <2>8. AnswerFits(m)'
    BY <1>5, <2>6, LetAnswersOn DEF LetInv, LetAnswers
  <2>9. KeptOf(m)'
    BY <2>3, <2>5 DEF KeptOf
  <2>10. mail[m].claim # Letters!None => filed[mail[m].claim] # "gone"
    BY <1>5 DEF LetInv, LetRows
  <2>11. LetStepOf(h)' /\ RequestFits(h)'
    BY <2>7, LetRested
  <2>12. /\ new.claim # Letters!None => filed[new.claim] # "gone"
         /\ UNCHANGED <<filed, early, letterBroken>> /\ refiled \subseteq refiled'
         /\ Carries(h) => Letters!Mail(h) = m
    BY <1>1, <1>3, <2>1, <2>3, <2>10
  <2> QED
    BY <2>3, <2>4, <2>7, <2>8, <2>9, <2>11, <2>12, LetFiled
<1> QED
  BY <1>4, <1>5

LEMMA LetMoves ==
  ASSUME LetInv, NEW h \in Http, Letters!Moves(h)
  PROVE  LetInv'
<1>1. /\ LetShapes /\ LetStepOf(h) /\ letterRequest[h] \in LetRequests /\ ~Carries(h)
      /\ letterRequest[h].op = "move" /\ Letters!End(h) /\ UNCHANGED <<filed, early, letterBroken>>
  BY LetFields DEF LetInv, LetSteps, Letters!Moves, Letters!At, Carries
<1>2. PICK m \in Letters!Mails : m = Letters!Mail(h)
  BY <1>1 DEF LetStepOf
<1>3. PICK c \in Old : c = letterRequest[h].claim
  BY <1>1 DEF LetStepOf, LetRequests
<1>4. /\ letterRequest' \in [Http -> LetRequests] /\ letterRequest'[h] = Letters!Rest
      /\ \A k \in Http \ {h} : letterRequest'[k] = letterRequest[k]
  BY <1>1, LetEnd
<1>5. CASE ~(mail[m].row = "there" /\ filed[c] # "gone")
  BY <1>2, <1>3, <1>5, <1>1, <1>4, LetRested, LetAlone DEF Letters!Moves
<1>6. CASE mail[m].row = "there" /\ filed[c] # "gone"
  <2>1. mail' = [mail EXCEPT ![m].claim = c] /\ refiled' = refiled \cup {m}
    BY <1>2, <1>3, <1>6 DEF Letters!Moves
  <2> DEFINE new == [mail[m] EXCEPT !.claim = c]
  <2>2. mail[m] \in LetMails
    BY <1>1, LetFields
  <2>3. /\ new \in LetMails /\ new.thread = mail[m].thread /\ new.kind = mail[m].kind
        /\ new.row = "there" /\ new.claim = c /\ new.file = mail[m].file
    BY <1>6, <2>2 DEF LetMails
  <2>4. mail' = [mail EXCEPT ![m] = new]
    BY <2>1
  <2> HIDE DEF new
  <2>5. /\ mail' \in Seq(LetMails) /\ Letters!Mails' = Letters!Mails /\ mail'[m] = new
        /\ \A n \in Letters!Mails \ {m} : mail'[n] = mail[n]
    BY <1>1, <2>3, <2>4 DEF LetShapes, Letters!Mails
  <2>6. AnswerFits(m)'
    BY <2>5, <2>1 DEF Thread, Letters!InThread, AnswerFits, Excused
  <2>7. KeptOf(m)'
    BY <1>1, <1>4, <1>6, <2>3, <2>5 DEF LetInv, LetKept, Carries, Letters!Mail, KeptOf
  <2> QED
    BY <1>1, <1>4, <1>6, <2>1, <2>3, <2>4, <2>6, <2>7, LetRested, LetFiled
<1> QED
  BY <1>5, <1>6

-----------------------------------------------------------------------------
(* The claims of the letters.                                              *)

\* A claim goes or changes, and mails go with it: requests stay as they are.
LEMMA LetClaims ==
  ASSUME LetInv, LetShapes', Letters!Mails' = Letters!Mails, UNCHANGED <<letterRequest, early, letterBroken>>,
         refiled \subseteq refiled',
         \A c \in Old : filed[c] = "gone" => filed'[c] = "gone",
         \A m \in Letters!Mails :
           \/ mail'[m] = mail[m]
           \/ /\ mail'[m].thread = mail[m].thread /\ mail'[m].kind = mail[m].kind
              /\ mail[m].row = "there" /\ mail'[m].row = "gone" /\ m \in refiled',
         \A m \in Letters!Mails : mail'[m].row = "there" /\ mail'[m].claim # Letters!None
                            => filed'[mail'[m].claim] # "gone"
  PROVE  LetInv'
<1>1. LetOn
  BY DEF LetOn
<1>2. \A n \in Letters!Mails : mail'[n].thread = mail[n].thread /\ mail'[n].kind = mail[n].kind
  OBVIOUS
<1>3. LetSteps'
  BY <1>2 DEF LetInv, LetSteps, LetStepOf, Letters!Mail
<1>4. LetRequestsFit'
  BY LetFields, <1>1, LetRequestsOn DEF LetRequestsFit, LetInv, LetSteps
<1>5. \A n \in Letters!Mails : mail[n].thread \in Letters!Mails
  <2> TAKE n \in Letters!Mails
  <2>1. mail[n].thread \in 1..n
    BY DEF LetInv, LetThreads
  <2>2. Letters!Mails = 1..Len(mail) /\ Len(mail) \in Nat
    BY LetFields DEF LetInv
  <2> QED
    BY <2>1, <2>2
<1>6. LetThreads'
  BY <1>2, <1>5 DEF LetInv, LetThreads
<1>7. LetRows'
  BY <1>5, <1>2 DEF LetRows, LetInv
<1>8. LetAnswers'
  BY <1>1, LetAnswersOn DEF LetAnswers, LetInv, AnswerFits
<1>9. LetKept'
  BY DEF LetKept, LetInv, Carries, Letters!Mail, KeptOf
<1> QED
  BY <1>3, <1>4, <1>6, <1>7, <1>8, <1>9 DEF LetInv

LEMMA LetDeletes ==
  ASSUME LetInv, NEW c \in Old, Letters!Delete(c)
  PROVE  LetInv'
<1>1. /\ filed' = [filed EXCEPT ![c] = "gone"]
      /\ mail' = [m \in Letters!Mails |-> IF m \in Letters!FiledUnder(c)
                                          THEN [mail[m] EXCEPT !.row = "gone", !.file = FALSE]
                                          ELSE mail[m]]
      /\ refiled' = refiled \cup Letters!FiledUnder(c) /\ UNCHANGED <<letterRequest, early, letterBroken>>
  BY DEF Letters!Delete
<1>2. /\ LetShapes /\ Letters!Mails = 1..Len(mail) /\ Len(mail) \in Nat
      /\ \A m \in Letters!Mails : mail[m] \in LetMails
  BY LetFields DEF LetInv
<1>3. \A m \in Letters!Mails : m \in Letters!FiledUnder(c) => mail[m].row = "there" /\ mail[m].claim = c
  BY DEF Letters!FiledUnder
<1>4. \A m \in Letters!Mails : mail'[m] \in LetMails
  <2> TAKE m \in Letters!Mails
  <2>1. mail[m] \in LetMails
    BY <1>2
  <2>2. [mail[m] EXCEPT !.row = "gone", !.file = FALSE] \in LetMails
    BY <2>1 DEF LetMails
  <2> QED
    BY <1>1, <2>1, <2>2
<1>5. mail' \in [1..Len(mail) -> LetMails]
  BY <1>1, <1>2, <1>4
<1>6. mail' \in Seq(LetMails)
  BY <1>2, <1>5
<1>7. Letters!Mails' = Letters!Mails
  BY <1>1 DEF Letters!Mails
<1>8. LetShapes'
  BY <1>1, <1>2, <1>6 DEF LetShapes
<1>9. \A m \in Letters!Mails :
        \/ mail'[m] = mail[m] /\ m \notin Letters!FiledUnder(c)
        \/ /\ mail'[m].thread = mail[m].thread /\ mail'[m].kind = mail[m].kind
           /\ mail[m].row = "there" /\ mail'[m].row = "gone" /\ m \in refiled'
  <2> TAKE m \in Letters!Mails
  <2>1. CASE m \in Letters!FiledUnder(c)
    BY <1>1, <2>1, <1>2, <1>3 DEF LetMails
  <2>2. CASE m \notin Letters!FiledUnder(c)
    BY <1>1, <2>2
  <2> QED
    BY <2>1, <2>2
<1>10. \A m \in Letters!Mails : mail'[m].row = "there" /\ mail'[m].claim # Letters!None
                          => filed'[mail'[m].claim] # "gone"
  BY <1>9, <1>2, <1>1 DEF Letters!FiledUnder, LetMails, LetInv, LetRows, LetShapes
<1>11. \A d \in Old : filed[d] = "gone" => filed'[d] = "gone"
  BY <1>1, <1>2 DEF LetShapes
<1> QED
  BY <1>1, <1>7, <1>8, <1>9, <1>10, <1>11, LetClaims

LEMMA LetArchives ==
  ASSUME LetInv, NEW c \in Old, Letters!Archive(c)
  PROVE  LetInv'
  BY LetFields, LetClaims DEF Letters!Archive, Letters!history, LetInv, LetShapes,
     Letters!Mails, LetMails, LetRows

LEMMA LetStutters ==
  ASSUME LetInv, UNCHANGED Letters!vars
  PROVE  LetInv'
  BY LetClaims DEF Letters!vars, LetInv, LetShapes, Letters!Mails, LetRows

LEMMA LetNext ==
  ASSUME LetInv, Letters!Next
  PROVE  LetInv'
<1>1. ASSUME NEW h \in Http, Letters!Proceed(h)
      PROVE  LetInv'
  BY LetSendsMail, LetGoesOn, <1>1, LetLetterLooks, LetSavesRow, LetSavesFile,
     LetNoticeLost, LetLooksInThread, LetLooksForAddress, LetMoves DEF Letters!Proceed
<1>2. ASSUME NEW h \in Http, Letters!Throw(h)
      PROVE  LetInv'
  BY <1>2, LetTrouble DEF Letters!Throw
<1>3. ASSUME NEW h \in Http,
             \/ \E c \in Old \cup {Letters!None}, reply \in Letters!Mails \cup {0} : Letters!BeginLetter(h, reply, c)
             \/ \E c \in Old : Letters!BeginNotice(h, c)
             \/ \E m \in Letters!Mails : Letters!BeginAnswer(h, m) \/ \E c \in Old : Letters!BeginMove(h, m, c)
      PROVE  LetInv'
  BY <1>3, LetBegins
<1>4. ASSUME NEW m \in Letters!Mails \cup {0}, Letters!Writes(IF m = 0 THEN 0 ELSE mail[m].thread)
      PROVE  LetInv'
  BY <1>4, LetWrites
<1>5. ASSUME NEW c \in Old, Letters!Archive(c) \/ Letters!Delete(c)
      PROVE  LetInv'
  BY <1>5, LetArchives, LetDeletes
<1> QED
  BY <1>1, <1>2, <1>3, <1>4, <1>5 DEF Letters!Next

LEMMA LetPromises ==
  ASSUME LetInv
  PROVE  Letters!LettersFiled
  BY DEF LetInv, LetRows, Letters!FiledUnderClaim, Letters!AnswerStaysInThread,
     LetAnswers, AnswerFits, Excused, Beside, Thread, LetKept, KeptOf,
     Letters!LetterKept, Letters!Busy, Letters!LettersFiled

\* So does one of the letters.
LEMMA LetStepsMove ==
  ASSUME [Next]_vars, moving = "letters"
  PROVE  moving' = "letters" /\ [Letters!Next]_(Letters!vars)
  BY DEF vars, letterVars, Letters!vars, Next, MoveAccounts, MoveDiscrepancies,
     MoveAssignments, MoveLinks, MoveViews, MovePartners, MoveLetters, MoveCompensation,
     MovePayments, MoveAirports

LEMMA LetInvariant == Spec => [](moving = "letters" => LetInv)
<1> DEFINE Inv == moving = "letters" => LetInv
<1>1. Init => Inv
  BY LetInit DEF Init
<1>2. Inv /\ [Next]_vars => Inv'
  BY LetStepsMove, LetNext, LetStutters, SideAssumption DEF Next, vars, MoveAccounts,
     MoveDiscrepancies, MoveAssignments, MoveLinks, MoveViews, MovePartners, MoveLetters,
     MoveCompensation, MovePayments, MoveAirports
<1> QED
  BY <1>1, <1>2, PTL DEF Spec

-----------------------------------------------------------------------------
(* Payments of passengers.                                                 *)

LEMMA PayFields ==
  ASSUME PayInv
  PROVE  /\ Payments!Rest \in PayRequests /\ Payments!Rest.op = "rest" /\ Payments!Rest.at = "rest"
         /\ \A h \in Http : /\ paymentRequest[h] \in PayRequests
                            /\ Payments!Of(h) \in Payments!Passengers
                            /\ paymentRequest[h].op \in {"rest", "payment", "status"}
         /\ \A p \in Payments!Passengers :
              /\ passengers[p] \in [payment : Payments!Payments, status : Payments!Statuses]
              /\ asked[p] \in [payment : Payments!Payments, status : Payments!Statuses]
              /\ letters[p] \in Nat /\ unsent[p] \in Nat /\ failures[p] \in Nat
  BY DEF PayInv, PayShapes, PayRequests, Payments!Rest, Payments!Of,
      Payments!Passengers, Payments!Payments, Payments!Statuses

\* A request goes on alone.
LEMMA PayGoes ==
  ASSUME PayInv, NEW h \in Http, NEW new \in PayRequests,
         paymentRequest' = [paymentRequest EXCEPT ![h] = new]
  PROVE  /\ paymentRequest' \in [Http -> PayRequests] /\ paymentRequest'[h] = new
         /\ \A k \in Http \ {h} : paymentRequest'[k] = paymentRequest[k]
  BY DEF PayInv, PayShapes, PayRequests

LEMMA PayEnd ==
  ASSUME PayInv, NEW h \in Http, Payments!End(h)
  PROVE  /\ paymentRequest' \in [Http -> PayRequests] /\ paymentRequest'[h] = Payments!Rest
         /\ \A k \in Http \ {h} : paymentRequest'[k] = paymentRequest[k]
  BY PayFields, PayGoes DEF Payments!End

LEMMA PayGo ==
  ASSUME PayInv, NEW h \in Http, NEW step \in {"base", "status", "payment"}, Payments!Go(h, step)
  PROVE  /\ paymentRequest' \in [Http -> PayRequests]
         /\ paymentRequest'[h].at = step /\ paymentRequest'[h].op = paymentRequest[h].op
         /\ paymentRequest'[h].of = paymentRequest[h].of /\ paymentRequest'[h].to = paymentRequest[h].to
         /\ \A k \in Http \ {h} : paymentRequest'[k] = paymentRequest[k]
<1> DEFINE new == [paymentRequest[h] EXCEPT !.at = step]
<1>1. paymentRequest[h] \in PayRequests
  BY PayFields
<1>2. /\ new \in PayRequests /\ new.at = step /\ new.op = paymentRequest[h].op
      /\ new.of = paymentRequest[h].of /\ new.to = paymentRequest[h].to
  BY <1>1 DEF PayRequests
<1>3. paymentRequest' = [paymentRequest EXCEPT ![h] = new]
  BY DEF Payments!Go
<1> HIDE DEF new
<1> QED
  BY <1>2, <1>3, PayGoes

\* The steps stay in order when one request goes on in order.
LEMMA PayOrder ==
  ASSUME PayInv, NEW h \in Http, \A k \in Http \ {h} : paymentRequest'[k] = paymentRequest[k],
         paymentRequest'[h].op = "rest" => paymentRequest'[h] = Payments!Rest,
         paymentRequest'[h].op = "payment" =>
           /\ paymentRequest'[h].to \in Payments!Payments
           /\ paymentRequest'[h].at \in {"letter", "base", "status", "payment"}
           /\ paymentRequest'[h].at # "payment" => paymentRequest'[h].to = "FAILED",
         paymentRequest'[h].op = "status" =>
           paymentRequest'[h].to \in Payments!Statuses /\ paymentRequest'[h].at \in {"base", "status"}
  PROVE  PaySteps'
  BY DEF PayInv, PaySteps

\* A passenger the step is not about.
LEMMA PayFar ==
  ASSUME PayInv, PaySteps', NEW p \in Payments!Passengers,
         \A k \in Http : \/ paymentRequest'[k] = paymentRequest[k]
                         \/ ~Asks(k, p) /\ ~Asks(k, p)',
         asked'[p] = asked[p], passengers'[p] = passengers[p],
         p = Customer => state' = state,
         letters'[p] = letters[p], unsent'[p] = unsent[p], failures'[p] = failures[p],
         there' => there, paymentMet \subseteq paymentMet', paymentBroken \subseteq paymentBroken'
  PROVE  PayDueOf(p)' /\ PayLettersOf(p)'
<1>1. \A k \in Http :
        /\ Asks(k, p)' <=> Asks(k, p)
        /\ PaymentDue(k, p)' <=> PaymentDue(k, p)
        /\ StatusDue(k, p)' <=> StatusDue(k, p)
        /\ Asks(k, p) => paymentRequest'[k] = paymentRequest[k]
        /\ PaymentDue(k, p) => paymentRequest'[k] = paymentRequest[k]
        /\ k \in AtLetter(p)' <=> k \in AtLetter(p)
  BY PayFields DEF PayInv, PaySteps, Asks, PaymentDue, StatusDue, AtLetter,
      Payments!At, Payments!Of
<1>2. AtLetter(p)' = AtLetter(p)
  BY <1>1 DEF AtLetter
<1>3. Payments!StatusOf(p)' = Payments!StatusOf(p)
  BY DEF Payments!StatusOf
<1>4. \A k \in Http : /\ paymentRequest'[k] = paymentRequest[k] => Payments!NewStatus(k)' = Payments!NewStatus(k)
                      /\ paymentRequest'[k] = paymentRequest[k] => Payments!At(k, "letter")' = Payments!At(k, "letter")
                      /\ StatusDue(k, p) => Asks(k, p)
  BY DEF Payments!NewStatus, StatusDue, Payments!At
<1>5. PayDueOf(p)'
  BY <1>1, <1>3, <1>4 DEF PayInv, PayDue, PayDueOf
<1>6. PayLettersOf(p)'
  BY <1>1, <1>2, <1>4 DEF PayInv, PayLetters, PayLettersOf
<1> QED
  BY <1>5, <1>6

LEMMA PayInit == Payments!Init => PayInv
<1> SUFFICES ASSUME Payments!Init
             PROVE  PayInv
  OBVIOUS
<1>1. /\ \A h \in Http : paymentRequest[h] = Payments!Rest
      /\ Payments!Rest.op = "rest" /\ Payments!Rest.at = "rest" /\ Payments!Rest \in PayRequests
      /\ paymentRequest \in [Http -> PayRequests]
  BY DEF Payments!Init, Payments!Rest, PayRequests, Payments!Passengers,
      Payments!Payments, Payments!Statuses
<1>2. PayShapes
  BY <1>1 DEF Payments!Init, PayShapes, PayRequests, Payments!Statuses,
      Payments!Payments
<1>3. PaySteps
  BY <1>1 DEF PaySteps
<1>4. PayDue
  BY <1>1 DEF Payments!Init, PayDue, PayDueOf, Asks, PaymentDue, StatusDue,
      Payments!StatusOf
<1>5. PayLetters
  BY <1>1, FS_EmptySet DEF PayLetters, AtLetter, Payments!At, Payments!Init,
     PayLettersOf, PaymentDue
<1> QED
  BY <1>2, <1>3, <1>4, <1>5 DEF PayInv

\* A request begins.
LEMMA PayBegins ==
  ASSUME PayInv, NEW h \in Http, NEW p \in Payments!Passengers,
         \/ \E to \in Payments!Payments : Payments!BeginPayment(h, p, to)
         \/ \E to \in Payments!Statuses : Payments!BeginStatus(h, p, to)
  PROVE  PayInv'
<1>1. \E to \in Payments!Payments \cup Payments!Statuses, op \in {"payment", "status"},
         at \in {"letter", "base", "payment"} :
        /\ paymentRequest' = [paymentRequest EXCEPT ![h] = [op |-> op, at |-> at, of |-> p, to |-> to]]
        /\ op = "payment" => /\ to \in Payments!Payments
                             /\ at = IF to = "FAILED" THEN "letter" ELSE "payment"
                             /\ Payments!BeginPayment(h, p, to)
        /\ op = "status" => to \in Payments!Statuses /\ at = "base" /\ Payments!BeginStatus(h, p, to)
  BY DEF Payments!BeginPayment, Payments!BeginStatus
<1>2. PICK to \in Payments!Payments \cup Payments!Statuses, op \in {"payment", "status"},
           at \in {"letter", "base", "payment"} :
        /\ paymentRequest' = [paymentRequest EXCEPT ![h] = [op |-> op, at |-> at, of |-> p, to |-> to]]
        /\ op = "payment" => /\ to \in Payments!Payments
                             /\ at = IF to = "FAILED" THEN "letter" ELSE "payment"
                             /\ Payments!BeginPayment(h, p, to)
        /\ op = "status" => to \in Payments!Statuses /\ at = "base" /\ Payments!BeginStatus(h, p, to)
  BY <1>1
<1>3. [op |-> op, at |-> at, of |-> p, to |-> to] \in PayRequests
  BY DEF PayRequests
<1>4. /\ paymentRequest' \in [Http -> PayRequests]
      /\ paymentRequest'[h] = [op |-> op, at |-> at, of |-> p, to |-> to]
      /\ \A k \in Http \ {h} : paymentRequest'[k] = paymentRequest[k]
  BY <1>2, <1>3, PayGoes
<1>5. /\ paymentRequest'[h].op = op /\ paymentRequest'[h].at = at
      /\ paymentRequest'[h].of = p /\ paymentRequest'[h].to = to
  BY <1>4
<1>6. /\ paymentRequest[h].op = "rest" /\ there /\ Payments!Meets(p)
      /\ UNCHANGED <<there, state, passengers, letters, unsent, paymentBroken>>
  BY <1>2 DEF Payments!BeginPayment, Payments!BeginStatus, Payments!rows
<1>7. paymentRequest[h] = Payments!Rest
  BY <1>6 DEF PayInv, PaySteps
<1>8. /\ paymentMet \subseteq paymentMet'
      /\ p \notin paymentMet' => \A k \in Http : ~Asks(k, p)
  BY <1>6 DEF Payments!Meets, Asks
<1>9. /\ asked' \in [Payments!Passengers -> [payment : Payments!Payments, status : Payments!Statuses]]
      /\ \A q \in Payments!Passengers \ {p} : asked'[q] = asked[q]
      /\ op = "payment" => asked'[p].payment = to
      /\ op = "payment" /\ to = "FAILED" => asked'[p].status = "PAYMENT_FAILED"
      /\ op = "payment" /\ to # "FAILED" => asked'[p].status = asked[p].status
      /\ op = "status" => asked'[p].payment = asked[p].payment /\ asked'[p].status = to
  <2>1. asked[p] \in [payment : Payments!Payments, status : Payments!Statuses]
    BY PayFields
  <2>2. CASE op = "payment"
    <3>1. asked' = [asked EXCEPT ![p] = [payment |-> to,
                      status |-> IF to = "FAILED" THEN "PAYMENT_FAILED" ELSE asked[p].status]]
      BY <1>2, <2>1, <2>2 DEF Payments!BeginPayment, PayInv, PayShapes
    <3> QED
      BY <1>2, <2>1, <2>2, <3>1 DEF PayInv, PayShapes, Payments!Statuses
  <2>3. CASE op = "status"
    <3>1. asked' = [asked EXCEPT ![p] = [payment |-> asked[p].payment, status |-> to]]
      BY <1>2, <2>1, <2>3 DEF Payments!BeginStatus, PayInv, PayShapes
    <3> QED
      BY <1>2, <2>1, <2>3, <3>1 DEF PayInv, PayShapes
  <2> QED
    BY <2>2, <2>3
<1>10. /\ failures' \in [Payments!Passengers -> Nat]
       /\ \A q \in Payments!Passengers \ {p} : failures'[q] = failures[q]
       /\ failures'[p] = failures[p] + (IF op = "payment" /\ to = "FAILED" THEN 1 ELSE 0)
  <2>1. failures \in [Payments!Passengers -> Nat]
    BY DEF PayInv, PayShapes
  <2>2. CASE op = "payment" /\ to = "FAILED"
    BY <1>2, <2>2, <2>1 DEF Payments!BeginPayment
  <2>3. CASE ~(op = "payment" /\ to = "FAILED")
    BY <1>2, <2>3, <2>1 DEF Payments!BeginPayment, Payments!BeginStatus
  <2> QED
    BY <2>2, <2>3
<1>11. PayShapes'
  BY <1>4, <1>6, <1>9, <1>10 DEF PayInv, PayShapes, PayRequests
<1>12. PaySteps'
  BY <1>2, <1>4, <1>5, PayOrder
<1>13. ASSUME NEW q \in Payments!Passengers \ {p}
       PROVE  PayDueOf(q)' /\ PayLettersOf(q)'
  BY <1>4, <1>5, <1>6, <1>8, <1>9, <1>10, <1>12, PayFar DEF Asks, Payments!Of
<1>14. PayDueOf(p)'
  BY <1>8, <1>4, <1>6, <1>5, <1>2, <1>9 DEF PayDueOf, Asks, Payments!Of, PaymentDue,
     StatusDue, PayInv, PayDue, Payments!StatusOf, Payments!NewStatus
<1>15. PayLettersOf(p)'
  <2>1. PayLettersOf(p)
    BY DEF PayInv, PayLetters
  <2>2. \A k \in Http \ {h} : /\ k \in AtLetter(p)' <=> k \in AtLetter(p)
                              /\ PaymentDue(k, p)' <=> PaymentDue(k, p)
                              /\ Payments!At(k, "letter")' <=> Payments!At(k, "letter")
    <3> TAKE k \in Http \ {h}
    <3>1. paymentRequest'[k] = paymentRequest[k]
      BY <1>4
    <3> QED
      BY <3>1 DEF AtLetter, Payments!At, Payments!Of, PaymentDue
  <2>3. h \notin AtLetter(p)
    BY <1>7, PayFields DEF AtLetter, Payments!At
  <2>4. h \in AtLetter(p)' <=> at = "letter"
    BY <1>5 DEF AtLetter, Payments!At, Payments!Of
  <2>5. at = "letter" <=> op = "payment" /\ to = "FAILED"
    BY <1>2
  <2>6. IsFiniteSet(AtLetter(p))
    BY <2>1 DEF PayLettersOf
  <2>7. /\ IsFiniteSet(AtLetter(p)')
        /\ Cardinality(AtLetter(p)') = Cardinality(AtLetter(p)) + IF at = "letter" THEN 1 ELSE 0
        /\ Cardinality(AtLetter(p)) \in Nat
    <3>1. AtLetter(p) \subseteq Http /\ AtLetter(p)' \subseteq Http
      BY DEF AtLetter
    <3>2. AtLetter(p)' = IF at = "letter" THEN AtLetter(p) \cup {h} ELSE AtLetter(p)
      BY <2>2, <2>3, <2>4, <3>1
    <3>3. Cardinality(AtLetter(p)) \in Nat
      BY <2>6, FS_CardinalityType
    <3>4. /\ IsFiniteSet(AtLetter(p) \cup {h})
          /\ Cardinality(AtLetter(p) \cup {h}) = Cardinality(AtLetter(p)) + 1
      BY <2>3, <2>6, FS_AddElement
    <3>5. CASE at = "letter"
      BY <2>6, <3>2, <3>3, <3>4, <3>5
    <3>6. CASE at # "letter"
      BY <2>6, <3>2, <3>3, <3>6
    <3> QED
      BY <3>5, <3>6
  <2>8. PaymentDue(h, p)' /\ paymentRequest'[h].to = "FAILED" => Payments!At(h, "letter")'
    BY <1>5, <2>5 DEF PaymentDue, Payments!At
  <2>9. /\ letters'[p] = letters[p] /\ unsent'[p] = unsent[p] /\ paymentBroken' = paymentBroken
        /\ passengers'[p] = passengers[p]
        /\ letters[p] \in Nat /\ unsent[p] \in Nat /\ failures[p] \in Nat
    BY <1>6, PayFields
  <2>10. \A k \in Http : PaymentDue(k, p)' /\ paymentRequest'[k].to = "FAILED" /\ ~Payments!At(k, "letter")'
                         => letters'[p] + unsent'[p] > 0
    BY <1>4, <2>1, <2>2, <2>8, <2>9 DEF PayLettersOf
  <2>11. p \notin paymentBroken => failures[p] = letters[p] + unsent[p] + Cardinality(AtLetter(p))
    BY <2>1 DEF PayLettersOf
  <2>12. p \notin paymentBroken' =>
           failures'[p] = letters'[p] + unsent'[p] + Cardinality(AtLetter(p)')
    BY <1>10, <2>5, <2>7, <2>9, <2>11
  <2> QED
    BY <2>1, <2>7, <2>9, <2>10, <2>12 DEF PayLettersOf
<1> QED
  BY <1>11, <1>12, <1>13, <1>14, <1>15 DEF PayInv, PayDue, PayLetters

\* A request goes on, or ends with its work done: what it is about.
LEMMA PayProceeds ==
  ASSUME PayInv, PayShapes', PaySteps', NEW h \in Http, paymentRequest[h].op # "rest",
         NEW q \in Payments!Passengers, q = Payments!Of(h),
         \A k \in Http \ {h} : paymentRequest'[k] = paymentRequest[k],
         paymentRequest'[h] = Payments!Rest \/ paymentRequest'[h].of = q,
         q # Customer => state' = state,
         \A p \in Payments!Passengers \ {q} :
           /\ passengers'[p] = passengers[p]
           /\ letters'[p] = letters[p] /\ unsent'[p] = unsent[p],
         UNCHANGED <<there, asked, failures, paymentMet>>, paymentBroken \subseteq paymentBroken',
         PayDueOf(q)', PayLettersOf(q)'
  PROVE  PayInv'
  BY PayFields, PayFar DEF Asks, Payments!Of, PayInv, PayDue, PayLetters

\* No letter is sent or lost: those at the letter are as before.
LEMMA PayNoLetter ==
  ASSUME PayInv, NEW h \in Http, NEW p \in Payments!Passengers, ~Payments!At(h, "letter"), ~Payments!At(h, "letter")',
         \A k \in Http \ {h} : paymentRequest'[k] = paymentRequest[k],
         PaymentDue(h, p)' => PaymentDue(h, p) /\ paymentRequest'[h].to = paymentRequest[h].to,
         passengers'[p].payment = "FAILED" =>
           \/ passengers[p].payment = "FAILED"
           \/ PaymentDue(h, p) /\ paymentRequest[h].to = "FAILED",
         UNCHANGED <<letters, unsent, failures>>, paymentBroken \subseteq paymentBroken'
  PROVE  PayLettersOf(p)'
<1>1. PayLettersOf(p)
  BY DEF PayInv, PayLetters
<1>2. \A k \in Http \ {h} : /\ k \in AtLetter(p)' <=> k \in AtLetter(p)
                            /\ PaymentDue(k, p)' <=> PaymentDue(k, p)
                            /\ Payments!At(k, "letter")' <=> Payments!At(k, "letter")
  <2> TAKE k \in Http \ {h}
  <2>1. paymentRequest'[k] = paymentRequest[k]
    OBVIOUS
  <2> QED
    BY <2>1 DEF AtLetter, Payments!At, Payments!Of, PaymentDue
<1>3. AtLetter(p)' = AtLetter(p)
  BY <1>2 DEF AtLetter
<1>4. \A k \in Http : PaymentDue(k, p)' /\ paymentRequest'[k].to = "FAILED" /\ ~Payments!At(k, "letter")'
                      => letters[p] + unsent[p] > 0
  BY <1>1, <1>2 DEF PayLettersOf
<1> QED
  BY <1>1, <1>3, <1>4 DEF PayLettersOf

\* A letter is sent or lost, and counted either way.
LEMMA PayLetterGoes ==
  ASSUME PayInv, NEW h \in Http, Payments!SendsLetter(h) \/ Payments!LosesLetter(h)
  PROVE  PayInv'
<1>1. PICK q \in Payments!Passengers : q = Payments!Of(h)
  BY PayFields
<1>2. /\ Payments!At(h, "letter") /\ Payments!Go(h, "base")
      /\ UNCHANGED <<there, state, passengers, asked, failures, paymentMet, paymentBroken>>
      /\ \/ letters' = [letters EXCEPT ![q] = letters[q] + 1] /\ unsent' = unsent
         \/ unsent' = [unsent EXCEPT ![q] = unsent[q] + 1] /\ letters' = letters
  BY <1>1 DEF Payments!SendsLetter, Payments!LosesLetter, Payments!rows,
      Payments!history
<1>3. /\ paymentRequest[h].op = "payment" /\ paymentRequest[h].to = "FAILED" /\ q \in Payments!Passengers
      /\ paymentRequest[h].of = q
  BY <1>2, <1>1, PayFields DEF Payments!At, Payments!Of, PayInv, PaySteps
<1>4. /\ paymentRequest' \in [Http -> PayRequests]
      /\ paymentRequest'[h].at = "base" /\ paymentRequest'[h].op = paymentRequest[h].op
      /\ paymentRequest'[h].of = q /\ paymentRequest'[h].to = paymentRequest[h].to
      /\ \A k \in Http \ {h} : paymentRequest'[k] = paymentRequest[k]
  BY <1>2, <1>3, PayGo
<1>5. letters \in [Payments!Passengers -> Nat] /\ unsent \in [Payments!Passengers -> Nat]
  BY DEF PayInv, PayShapes
<1>6. /\ letters' \in [Payments!Passengers -> Nat] /\ unsent' \in [Payments!Passengers -> Nat]
      /\ \A p \in Payments!Passengers \ {q} : letters'[p] = letters[p] /\ unsent'[p] = unsent[p]
      /\ letters'[q] + unsent'[q] = letters[q] + unsent[q] + 1
      /\ letters[q] \in Nat /\ unsent[q] \in Nat
  BY <1>3, <1>5, <1>2
<1>7. PayShapes'
  BY <1>2, <1>4, <1>6 DEF PayInv, PayShapes, PayRequests
<1>8. PaySteps'
  BY <1>3, <1>4, PayOrder DEF Payments!Payments
<1>9. PayDueOf(q)'
  <2>1. \A k \in Http : /\ Asks(k, q)' <=> Asks(k, q)
                        /\ PaymentDue(k, q)' <=> PaymentDue(k, q)
                        /\ StatusDue(k, q)' <=> StatusDue(k, q)
                        /\ paymentRequest'[k].to = paymentRequest[k].to
                        /\ Payments!NewStatus(k)' = Payments!NewStatus(k)
    <3> TAKE k \in Http
    <3>1. CASE k = h
      BY <1>2, <1>3, <1>4, <1>1, <3>1 DEF Asks, PaymentDue, StatusDue,
          Payments!NewStatus, Payments!At, Payments!Of
    <3>2. CASE k # h
      BY <1>4, <3>2 DEF Asks, PaymentDue, StatusDue, Payments!NewStatus,
          Payments!At, Payments!Of
    <3> QED
      BY <3>1, <3>2
  <2>2. Payments!StatusOf(q)' = Payments!StatusOf(q)
    BY <1>2 DEF Payments!StatusOf
  <2>3. PayDueOf(q)
    BY <1>3 DEF PayInv, PayDue
  <2> QED
    BY <1>2, <2>1, <2>2, <2>3 DEF PayDueOf
<1>10. PayLettersOf(q)'
  <2>1. PayLettersOf(q)
    BY <1>3 DEF PayInv, PayLetters
  <2>2. IsFiniteSet(AtLetter(q)) /\ h \in AtLetter(q)
    BY <1>2, <1>1, <2>1 DEF PayLettersOf, AtLetter
  <2>3. AtLetter(q)' = AtLetter(q) \ {h}
    <3>1. \A k \in Http \ {h} : k \in AtLetter(q)' <=> k \in AtLetter(q)
      <4> TAKE k \in Http \ {h}
      <4>1. paymentRequest'[k] = paymentRequest[k]
        BY <1>4
      <4> QED
        BY <4>1 DEF AtLetter, Payments!At, Payments!Of
    <3>2. h \notin AtLetter(q)'
      BY <1>4 DEF AtLetter, Payments!At
    <3>3. AtLetter(q) \subseteq Http /\ AtLetter(q)' \subseteq Http
      BY DEF AtLetter
    <3> QED
      BY <3>1, <3>2, <3>3
  <2>4. /\ IsFiniteSet(AtLetter(q)')
        /\ Cardinality(AtLetter(q)') = Cardinality(AtLetter(q)) - 1
    BY <2>2, <2>3, FS_RemoveElement
  <2>5. Cardinality(AtLetter(q)) \in Nat
    BY <2>2, FS_CardinalityType
  <2>6. q \notin paymentBroken => failures[q] = letters[q] + unsent[q] + Cardinality(AtLetter(q))
    BY <2>1 DEF PayLettersOf
  <2>7. q \notin paymentBroken' =>
          failures'[q] = letters'[q] + unsent'[q] + Cardinality(AtLetter(q)')
    BY <1>2, <1>6, <2>4, <2>5, <2>6
  <2>8. letters'[q] + unsent'[q] > 0
    BY <1>6
  <2> QED
    BY <2>4, <2>7, <2>8 DEF PayLettersOf
<1>11. paymentRequest[h].op # "rest"
  BY <1>3
<1> QED
  BY <1>2, <1>3, <1>4, <1>1, <1>6, <1>7, <1>8, <1>9, <1>10, <1>11, PayProceeds

\* What comes behind the status.
LEMMA PayAfter ==
  ASSUME PayInv, NEW h \in Http, paymentRequest[h].op # "rest", paymentRequest[h].at \in {"base", "status"},
         Payments!After(h)
  PROVE  /\ paymentRequest' \in [Http -> PayRequests]
         /\ \A k \in Http \ {h} : paymentRequest'[k] = paymentRequest[k]
         /\ \/ /\ paymentRequest[h].op = "payment" /\ paymentRequest'[h].op = "payment"
               /\ paymentRequest'[h].at = "payment" /\ paymentRequest'[h].of = paymentRequest[h].of
               /\ paymentRequest'[h].to = "FAILED" /\ paymentRequest[h].to = "FAILED"
            \/ paymentRequest[h].op = "status" /\ paymentRequest'[h] = Payments!Rest
  BY PayGo, PayEnd, PayFields DEF Payments!After, PayInv, PaySteps

\* A claim that is gone leaves nothing due.
LEMMA PayGone ==
  ASSUME PayInv, PaySteps', NEW h \in Http, NEW q \in Payments!Passengers, q = Payments!Of(h), ~there',
         paymentRequest[h].op # "rest", \A k \in Http \ {h} : paymentRequest'[k] = paymentRequest[k],
         paymentRequest'[h] = Payments!Rest \/ paymentRequest'[h].of = q, UNCHANGED <<paymentMet, paymentBroken>>
  PROVE  PayDueOf(q)'
  BY DEF Asks, Payments!Of, PayInv, PayDue, PayDueOf

LEMMA PayReadsBase ==
  ASSUME PayInv, NEW h \in Http, Payments!ReadsBase(h)
  PROVE  PayInv'
<1>1. PICK q \in Payments!Passengers : q = Payments!Of(h)
  BY PayFields
<1>2. /\ Payments!At(h, "base") /\ IF there THEN Payments!Go(h, "status") ELSE Payments!After(h)
      /\ UNCHANGED <<there, state, passengers, letters, asked, failures, unsent, paymentMet, paymentBroken>>
  BY DEF Payments!ReadsBase, Payments!rows, Payments!history
<1>3. /\ paymentRequest[h].op \in {"payment", "status"} /\ paymentRequest[h].at = "base"
      /\ paymentRequest[h].of = q /\ ~Payments!At(h, "letter")
  BY <1>1, <1>2, PayFields DEF Payments!At, Payments!Of, PayInv, PaySteps
<1>4. CASE there
  <2>1. /\ paymentRequest' \in [Http -> PayRequests]
        /\ paymentRequest'[h].at = "status" /\ paymentRequest'[h].op = paymentRequest[h].op
        /\ paymentRequest'[h].of = paymentRequest[h].of /\ paymentRequest'[h].to = paymentRequest[h].to
        /\ \A k \in Http \ {h} : paymentRequest'[k] = paymentRequest[k]
    BY <1>2, <1>4, PayGo
  <2>2. PayShapes'
    BY <1>2, <2>1 DEF PayInv, PayShapes, PayRequests
  <2>3. PaySteps'
    BY <1>3, <2>1, PayOrder DEF PayInv, PaySteps
  <2>4. PayDueOf(q)'
    <3>1. \A k \in Http : /\ Asks(k, q)' <=> Asks(k, q)
                          /\ PaymentDue(k, q)' <=> PaymentDue(k, q)
                          /\ StatusDue(k, q)' <=> StatusDue(k, q)
                          /\ paymentRequest'[k].to = paymentRequest[k].to
                          /\ Payments!NewStatus(k)' = Payments!NewStatus(k)
      <4> TAKE k \in Http
      <4>1. CASE k = h
        BY <1>3, <2>1, <4>1 DEF Asks, PaymentDue, StatusDue,
            Payments!NewStatus, Payments!Of
      <4>2. CASE k # h
        BY <2>1, <4>2 DEF Asks, PaymentDue, StatusDue, Payments!NewStatus,
            Payments!Of
      <4> QED
        BY <4>1, <4>2
    <3>2. Payments!StatusOf(q)' = Payments!StatusOf(q)
      BY <1>2 DEF Payments!StatusOf
    <3>3. PayDueOf(q)
      BY DEF PayInv, PayDue
    <3> QED
      BY <1>2, <3>1, <3>2, <3>3 DEF PayDueOf
  <2>5. PayLettersOf(q)'
    BY <2>1, <1>2, <1>3, PayNoLetter DEF PaymentDue, Payments!Of, Payments!At
  <2> QED
    BY <1>1, <1>2, <1>3, <2>1, <2>2, <2>3, <2>4, <2>5, PayProceeds
<1>5. CASE ~there
  <2>1. /\ paymentRequest' \in [Http -> PayRequests]
        /\ \A k \in Http \ {h} : paymentRequest'[k] = paymentRequest[k]
        /\ \/ /\ paymentRequest[h].op = "payment" /\ paymentRequest'[h].op = "payment"
              /\ paymentRequest'[h].at = "payment" /\ paymentRequest'[h].of = paymentRequest[h].of
              /\ paymentRequest'[h].to = "FAILED" /\ paymentRequest[h].to = "FAILED"
           \/ paymentRequest[h].op = "status" /\ paymentRequest'[h] = Payments!Rest
    BY <1>2, <1>3, <1>5, PayAfter
  <2>2. PayShapes'
    BY <1>2, <2>1 DEF PayInv, PayShapes, PayRequests
  <2>3. PaySteps'
    BY <2>1, PayFields, PayOrder DEF Payments!Payments
  <2>4. paymentRequest'[h] = Payments!Rest \/ paymentRequest'[h].of = q
    BY <1>3, <2>1
  <2>5. PayDueOf(q)'
    BY <1>1, <1>2, <1>3, <1>5, <2>1, <2>3, <2>4, PayGone
  <2>6. PayLettersOf(q)'
    BY <2>1, PayFields, <1>2, <1>3, PayNoLetter DEF PaymentDue, Payments!Of,
       Payments!At
  <2> QED
    BY <1>1, <1>2, <1>3, <2>1, <2>2, <2>3, <2>4, <2>5, <2>6, PayProceeds
<1> QED
  BY <1>4, <1>5

LEMMA PayWritesStatus ==
  ASSUME PayInv, NEW h \in Http, Payments!WritesStatus(h)
  PROVE  PayInv'
<1>1. PICK q \in Payments!Passengers : q = Payments!Of(h)
  BY PayFields
<1>2. /\ Payments!At(h, "status") /\ there /\ Payments!After(h)
      /\ UNCHANGED <<there, letters, asked, failures, unsent, paymentMet, paymentBroken>>
  BY DEF Payments!WritesStatus, Payments!history
<1>3. /\ paymentRequest[h].op \in {"payment", "status"} /\ paymentRequest[h].at = "status"
      /\ paymentRequest[h].of = q /\ ~Payments!At(h, "letter")
      /\ paymentRequest[h].op = "status" => paymentRequest[h].to \in Payments!Statuses
      /\ paymentRequest[h].op = "payment" => paymentRequest[h].to = "FAILED"
      /\ Asks(h, q) /\ StatusDue(h, q)
  BY <1>1, <1>2, PayFields DEF Payments!At, Payments!Of, PayInv, PaySteps,
      Asks, StatusDue
<1>4. Payments!NewStatus(h) \in Payments!Statuses
  BY <1>3 DEF Payments!NewStatus, Payments!Statuses
<1>5. /\ state' \in Payments!Statuses
      /\ passengers' \in [Payments!Passengers -> [payment : Payments!Payments, status : Payments!Statuses]]
      /\ \A p \in Payments!Passengers \ {q} : passengers'[p] = passengers[p]
      /\ q # Customer => state' = state
      /\ passengers'[q].payment = passengers[q].payment
      /\ Payments!StatusOf(q)' = Payments!NewStatus(h)
  <2>1. /\ passengers \in [Payments!Passengers -> [payment : Payments!Payments, status : Payments!Statuses]]
        /\ state \in Payments!Statuses
    BY DEF PayInv, PayShapes
  <2>2. CASE q = Customer
    BY <1>1, <2>2, <1>4, <2>1 DEF Payments!WritesStatus, Payments!StatusOf
  <2>3. CASE q # Customer
    <3> DEFINE new == [payment |-> passengers[q].payment, status |-> Payments!NewStatus(h)]
    <3>1. passengers[q] \in [payment : Payments!Payments, status : Payments!Statuses]
      BY <2>1
    <3>2. passengers' = [passengers EXCEPT ![q] = new] /\ state' = state
      BY <1>1, <2>3, <3>1 DEF Payments!WritesStatus
    <3>3. /\ new \in [payment : Payments!Payments, status : Payments!Statuses]
          /\ new.payment = passengers[q].payment /\ new.status = Payments!NewStatus(h)
      BY <1>4, <3>1
    <3> HIDE DEF new
    <3>4. /\ passengers' \in [Payments!Passengers -> [payment : Payments!Payments, status : Payments!Statuses]]
          /\ passengers'[q] = new
          /\ \A p \in Payments!Passengers \ {q} : passengers'[p] = passengers[p]
      BY <2>1, <3>2, <3>3
    <3> QED
      BY <2>1, <2>3, <3>2, <3>3, <3>4 DEF Payments!StatusOf
  <2> QED
    BY <2>2, <2>3
<1>6. /\ paymentRequest' \in [Http -> PayRequests]
      /\ \A k \in Http \ {h} : paymentRequest'[k] = paymentRequest[k]
      /\ \/ /\ paymentRequest[h].op = "payment" /\ paymentRequest'[h].op = "payment"
            /\ paymentRequest'[h].at = "payment" /\ paymentRequest'[h].of = paymentRequest[h].of
            /\ paymentRequest'[h].to = "FAILED" /\ paymentRequest[h].to = "FAILED"
         \/ paymentRequest[h].op = "status" /\ paymentRequest'[h] = Payments!Rest
  BY <1>2, <1>3, PayAfter
<1>7. PayShapes'
  BY <1>2, <1>5, <1>6 DEF PayInv, PayShapes, PayRequests
<1>8. PaySteps'
  BY <1>6, PayFields, PayOrder DEF Payments!Payments
<1>9. paymentRequest'[h] = Payments!Rest \/ paymentRequest'[h].of = q
  BY <1>3, <1>6
<1>10. PayDueOf(q)'
  <2> SUFFICES ASSUME q \notin paymentMet, q \notin paymentBroken
               PROVE  PayDueOf(q)'
    BY <1>2 DEF PayDueOf
  <2>1. PayDueOf(q)
    BY DEF PayInv, PayDue
  <2>2. \A k \in Http \ {h} : ~Asks(k, q) /\ ~Asks(k, q)'
    BY <1>3, <2>1, <1>6 DEF PayDueOf, Asks, Payments!Of
  <2>3. asked[q].status = Payments!NewStatus(h)
    BY <1>2, <1>3, <2>1 DEF PayDueOf
  <2>4. \A k \in Http : ~StatusDue(k, q)'
    BY <1>6, <2>2, PayFields DEF StatusDue, Asks
  <2>5. \A k \in Http \ {h} : ~PaymentDue(k, q) /\ ~PaymentDue(k, q)'
    BY <2>2 DEF PaymentDue, Asks
  <2>6. CASE paymentRequest[h].op = "payment"
    BY <1>3, <1>6, <2>6, <1>2, <2>1, <1>5, <2>2, <2>3, <2>4, <2>5 DEF PaymentDue,
       Payments!Of, PayDueOf
  <2>7. CASE paymentRequest[h].op = "status"
    BY <1>6, <2>7, PayFields, <1>2, <2>1, <2>5, <1>5, <2>2, <2>3, <2>4 DEF PaymentDue,
       Asks, PayDueOf
  <2> QED
    BY <1>3, <2>6, <2>7
<1>11. PayLettersOf(q)'
  BY <1>6, PayFields, <1>2, <1>3, <1>5, PayNoLetter DEF PaymentDue, Payments!Of,
     Payments!At
<1> QED
  BY <1>1, <1>2, <1>3, <1>5, <1>6, <1>7, <1>8, <1>9, <1>10, <1>11, PayProceeds

LEMMA PayNotes ==
  ASSUME PayInv, NEW h \in Http, Payments!Notes(h)
  PROVE  PayInv'
<1>1. PICK q \in Payments!Passengers : q = Payments!Of(h)
  BY PayFields
<1>2. /\ Payments!At(h, "payment") /\ there /\ Payments!End(h)
      /\ passengers' = [passengers EXCEPT ![q].payment = paymentRequest[h].to]
      /\ UNCHANGED <<there, state, letters, asked, failures, unsent, paymentMet, paymentBroken>>
  BY <1>1 DEF Payments!Notes, Payments!history
<1>3. /\ paymentRequest[h].op = "payment" /\ paymentRequest[h].at = "payment"
      /\ paymentRequest[h].of = q /\ ~Payments!At(h, "letter") /\ paymentRequest[h].to \in Payments!Payments
      /\ Asks(h, q) /\ ~StatusDue(h, q) /\ PaymentDue(h, q)
  BY <1>1, <1>2, PayFields DEF Payments!At, Payments!Of, PayInv, PaySteps,
      Asks, StatusDue, PaymentDue
<1>4. /\ passengers' \in [Payments!Passengers -> [payment : Payments!Payments, status : Payments!Statuses]]
      /\ \A p \in Payments!Passengers \ {q} : passengers'[p] = passengers[p]
      /\ passengers'[q].payment = paymentRequest[h].to
      /\ passengers'[q].status = passengers[q].status
  <2> DEFINE new == [payment |-> paymentRequest[h].to, status |-> passengers[q].status]
  <2>1. /\ passengers \in [Payments!Passengers -> [payment : Payments!Payments, status : Payments!Statuses]]
        /\ passengers[q] \in [payment : Payments!Payments, status : Payments!Statuses]
    BY PayFields DEF PayInv, PayShapes
  <2>2. passengers' = [passengers EXCEPT ![q] = new]
    <3>1. [passengers[q] EXCEPT !.payment = paymentRequest[h].to] = new
      BY <1>3, <2>1
    <3> QED
      BY <1>2, <3>1
  <2>3. /\ new \in [payment : Payments!Payments, status : Payments!Statuses]
        /\ new.payment = paymentRequest[h].to /\ new.status = passengers[q].status
    BY <1>3, <2>1
  <2> HIDE DEF new
  <2> QED
    BY <2>1, <2>2, <2>3
<1>5. /\ paymentRequest' \in [Http -> PayRequests] /\ paymentRequest'[h] = Payments!Rest
      /\ \A k \in Http \ {h} : paymentRequest'[k] = paymentRequest[k]
  BY <1>2, PayEnd
<1>6. PayShapes'
  BY <1>2, <1>4, <1>5 DEF PayInv, PayShapes, PayRequests
<1>7. PaySteps'
  BY <1>5, PayFields, PayOrder
<1>8. PayDueOf(q)'
  BY <1>2, <1>3, <1>5, PayFields, <1>4 DEF PayDueOf, PayInv, PayDue, Asks,
     Payments!Of, StatusDue, Payments!StatusOf, PaymentDue
<1>9. PayLettersOf(q)'
  BY <1>5, PayFields, <1>2, <1>3, <1>4, PayNoLetter DEF PaymentDue, Payments!At
<1> QED
  BY <1>1, <1>2, <1>3, <1>4, <1>5, <1>6, <1>7, <1>8, <1>9, PayProceeds

LEMMA PayFails ==
  ASSUME PayInv, NEW h \in Http, Payments!Fails(h)
  PROVE  PayInv'
<1>1. PICK q \in Payments!Passengers : q = Payments!Of(h)
  BY PayFields
<1>2. /\ paymentRequest[h].op # "rest" /\ Payments!End(h) /\ paymentBroken' = paymentBroken \cup {q}
      /\ UNCHANGED <<there, state, passengers, letters, asked, failures, unsent, paymentMet>>
  BY <1>1 DEF Payments!Fails, Payments!rows
<1>3. /\ paymentRequest' \in [Http -> PayRequests] /\ paymentRequest'[h] = Payments!Rest
      /\ \A k \in Http \ {h} : paymentRequest'[k] = paymentRequest[k]
  BY <1>2, PayEnd
<1>4. PayShapes'
  BY <1>2, <1>3 DEF PayInv, PayShapes, PayRequests
<1>5. PaySteps'
  BY <1>3, PayFields, PayOrder
<1>6. PayDueOf(q)'
  BY <1>2 DEF PayDueOf
<1>7. PayLettersOf(q)'
  <2>1. PayLettersOf(q)
    BY DEF PayInv, PayLetters
  <2>2. \A k \in Http : /\ k \in AtLetter(q)' => k \in AtLetter(q)
                        /\ PaymentDue(k, q)' => PaymentDue(k, q) /\ paymentRequest'[k] = paymentRequest[k]
                        /\ PaymentDue(k, q)' => Payments!At(k, "letter")' = Payments!At(k, "letter")
    BY <1>3, PayFields DEF AtLetter, PaymentDue, Payments!At, Payments!Of
  <2>3. AtLetter(q)' \subseteq AtLetter(q)
    BY <2>2 DEF AtLetter
  <2>4. IsFiniteSet(AtLetter(q)')
    BY <2>1, <2>3, FS_Subset DEF PayLettersOf
  <2> QED
    BY <1>2, <2>1, <2>2, <2>4 DEF PayLettersOf
<1> QED
  BY <1>1, <1>2, <1>3, <1>4, <1>5, <1>6, <1>7, PayProceeds

\* The claim goes: nobody is promised a status, and no letter changes.
LEMMA PayDeletes ==
  ASSUME PayInv, Payments!DeleteClaim
  PROVE  PayInv'
<1>1. there' = FALSE /\ UNCHANGED <<state, passengers, letters, paymentRequest, asked, failures, unsent,
                             paymentMet, paymentBroken>>
  BY DEF Payments!DeleteClaim, Payments!history
<1>2. PayShapes'
  BY <1>1 DEF PayInv, PayShapes
<1>3. PaySteps'
  BY <1>1 DEF PayInv, PaySteps
<1>4. \A k \in Http, p \in Payments!Passengers :
        /\ Asks(k, p)' <=> Asks(k, p)
        /\ PaymentDue(k, p)' <=> PaymentDue(k, p)
        /\ Payments!At(k, "letter")' <=> Payments!At(k, "letter")
        /\ paymentRequest'[k].to = paymentRequest[k].to
  BY <1>1 DEF Asks, PaymentDue, Payments!At, Payments!Of
<1>5. \A p \in Payments!Passengers : AtLetter(p)' = AtLetter(p)
  BY <1>1 DEF AtLetter, Payments!At, Payments!Of
<1>6. PayDue'
  BY <1>1, <1>4 DEF PayInv, PayDue, PayDueOf
<1>7. PayLetters'
  BY <1>1, <1>4, <1>5 DEF PayInv, PayLetters, PayLettersOf
<1> QED
  BY <1>2, <1>3, <1>6, <1>7 DEF PayInv

\* The process ends: every passenger of a request is one of those it failed, and
\* the letters of the others are complete.
LEMMA PayStops ==
  ASSUME PayInv, Payments!Stop
  PROVE  PayInv'
<1>1. /\ \A k \in Http : paymentRequest'[k] = Payments!Rest
      /\ paymentRequest' = [h \in Http |-> Payments!Rest]
      /\ paymentBroken' = paymentBroken \cup {Payments!Of(h) : h \in {k \in Http : paymentRequest[k].op # "rest"}}
      /\ UNCHANGED <<there, state, passengers, letters, asked, failures, unsent, paymentMet>>
  BY DEF Payments!Stop, Payments!rows
<1>2. Payments!Rest \in PayRequests /\ Payments!Rest.op = "rest" /\ Payments!Rest.at = "rest"
  BY PayFields
<1>3. PayShapes'
  BY <1>1, <1>2 DEF PayInv, PayShapes, PayRequests
<1>4. PaySteps'
  BY <1>1, <1>2 DEF PaySteps
<1>5. \A p \in Payments!Passengers : p \notin paymentBroken' => \A k \in Http : ~Asks(k, p)
  <2> TAKE p \in Payments!Passengers
  <2> SUFFICES ASSUME NEW k \in Http, Asks(k, p)
               PROVE  p \in paymentBroken'
    OBVIOUS
  <2>1. paymentRequest[k].op # "rest" /\ p = Payments!Of(k)
    BY DEF Asks
  <2> QED
    BY <1>1, <2>1
<1>6. \A k \in Http, p \in Payments!Passengers : ~Asks(k, p)' /\ ~PaymentDue(k, p)' /\ ~StatusDue(k, p)'
  BY <1>1, <1>2 DEF Asks, PaymentDue, StatusDue
<1>7. \A p \in Payments!Passengers : Payments!StatusOf(p)' = Payments!StatusOf(p)
  BY <1>1 DEF Payments!StatusOf
<1>8. PayDue'
  BY <1>1, <1>5, <1>6, <1>7 DEF PayDue, PayDueOf, Asks, PaymentDue, StatusDue, PayInv
<1>9. PayLetters'
  <2> SUFFICES ASSUME NEW p \in Payments!Passengers
               PROVE  PayLettersOf(p)'
    BY DEF PayLetters
  <2>1. AtLetter(p)' = {}
    BY <1>1, <1>2 DEF AtLetter, Payments!At
  <2>2. IsFiniteSet({}) /\ Cardinality({}) = 0
    BY FS_EmptySet
  <2>3. PayLettersOf(p)
    BY DEF PayInv, PayLetters
  <2>4. p \notin paymentBroken' => failures[p] = letters[p] + unsent[p]
    <3> SUFFICES ASSUME p \notin paymentBroken'
                 PROVE  failures[p] = letters[p] + unsent[p]
      OBVIOUS
    <3>1. AtLetter(p) = {}
      BY <1>5, <1>2 DEF PayInv, PaySteps, Payments!At, AtLetter, Asks
    <3>2. letters[p] \in Nat /\ unsent[p] \in Nat
      BY PayFields
    <3>3. failures[p] = letters[p] + unsent[p] + Cardinality(AtLetter(p))
      BY <1>1, <2>3 DEF PayLettersOf
    <3> QED
      BY <2>2, <3>1, <3>2, <3>3
  <2>5. letters[p] \in Nat /\ unsent[p] \in Nat
    BY PayFields
  <2> QED
    BY <1>1, <1>6, <2>1, <2>2, <2>3, <2>4, <2>5 DEF PayLettersOf
<1> QED
  BY <1>3, <1>4, <1>8, <1>9 DEF PayInv

LEMMA PayNext ==
  ASSUME PayInv, Payments!Next
  PROVE  PayInv'
  BY PayBegins, PayLetterGoes, PayReadsBase, PayWritesStatus, PayNotes, PayFails,
     PayDeletes, PayStops DEF Payments!NotesOfCustomer, Payments!NotesOfOther,
     Payments!Next

LEMMA PayStutters ==
  ASSUME PayInv, UNCHANGED Payments!vars
  PROVE  PayInv'
<1>1. UNCHANGED <<there, state, passengers, letters, paymentRequest, asked, failures, unsent,
                  paymentMet, paymentBroken>>
  BY DEF Payments!vars
<1>2. /\ PayShapes' <=> PayShapes
      /\ PaySteps' <=> PaySteps
  BY <1>1 DEF PayShapes, PaySteps
<1>3. \A k \in Http, p \in Payments!Passengers :
        /\ Asks(k, p)' <=> Asks(k, p)
        /\ PaymentDue(k, p)' <=> PaymentDue(k, p)
        /\ StatusDue(k, p)' <=> StatusDue(k, p)
        /\ Payments!At(k, "letter")' <=> Payments!At(k, "letter")
        /\ Payments!NewStatus(k)' = Payments!NewStatus(k)
        /\ paymentRequest'[k].to = paymentRequest[k].to
  BY <1>1 DEF Asks, PaymentDue, StatusDue, Payments!At, Payments!Of,
      Payments!NewStatus
<1>4. \A p \in Payments!Passengers : AtLetter(p)' = AtLetter(p) /\ Payments!StatusOf(p)' = Payments!StatusOf(p)
  BY <1>1 DEF AtLetter, Payments!At, Payments!Of, Payments!StatusOf
<1>5. PayDue'
  BY <1>1, <1>3, <1>4 DEF PayInv, PayDue, PayDueOf
<1>6. PayLetters'
  BY <1>1, <1>3, <1>4 DEF PayInv, PayLetters, PayLettersOf
<1> QED
  BY <1>2, <1>5, <1>6 DEF PayInv

LEMMA PayPromises ==
  ASSUME PayInv
  PROVE  Payments!PaymentsConsistent
<1>1. \A p \in Payments!Passengers : Payments!Quiet(p) => \A h \in Http : ~Asks(h, p)
  BY DEF Payments!Quiet, Asks
<1>2. Payments!AsAskedLast
  BY <1>1 DEF Payments!AsAskedLast, PaymentDue, StatusDue, Asks, PayInv, PayDue,
     PayDueOf
<1>3. Payments!FailureWritten
  <2> SUFFICES ASSUME NEW p \in Payments!Passengers
               PROVE  /\ passengers[p].payment = "FAILED" => letters[p] + unsent[p] > 0
                      /\ Payments!Quiet(p) /\ p \notin paymentBroken
                           => letters[p] + unsent[p] = failures[p]
    BY DEF Payments!FailureWritten
  <2>1. PayLettersOf(p)
    BY DEF PayInv, PayLetters
  <2>2. letters[p] \in Nat /\ unsent[p] \in Nat
    BY PayFields
  <2>3. ASSUME Payments!Quiet(p), p \notin paymentBroken
        PROVE  letters[p] + unsent[p] = failures[p]
    BY PayFields, <1>1, <2>3, FS_EmptySet, <2>1, <2>2 DEF PayInv, PaySteps,
       Payments!At, AtLetter, Asks, PayLettersOf
  <2> QED
    BY <2>1, <2>3 DEF PayLettersOf
<1> QED
  BY <1>2, <1>3 DEF Payments!PaymentsConsistent

\* So does one of the payments.
LEMMA PayMoves ==
  ASSUME [Next]_vars, moving = "payments"
  PROVE  moving' = "payments" /\ [Payments!Next]_(Payments!vars)
  BY DEF vars, paymentVars, Payments!vars, Next, MoveAccounts, MoveDiscrepancies,
     MoveAssignments, MoveLinks, MoveViews, MovePartners, MoveLetters, MoveCompensation,
     MovePayments, MoveAirports

LEMMA PayInvariant == Spec => [](moving = "payments" => PayInv)
<1> DEFINE Inv == moving = "payments" => PayInv
<1>1. Init => Inv
  BY PayInit DEF Init
<1>2. Inv /\ [Next]_vars => Inv'
  BY PayMoves, PayNext, PayStutters, SideAssumption DEF Next, vars, MoveAccounts,
     MoveDiscrepancies, MoveAssignments, MoveLinks, MoveViews, MovePartners, MoveLetters,
     MoveCompensation, MovePayments, MoveAirports
<1> QED
  BY <1>1, <1>2, PTL DEF Spec

\* Whatever staff edit, remove, refile or delete, whichever letters, jobs and
\* webhook calls come late or twice, and wherever a request throws or the process
\* stops, for any number of passengers, claims and requests: an assignment says
\* what the claim says and is the only one of its signature, a signature is
\* not lost and what staff removed stays removed, unless edits met or broke off
\* or staff gave its document another type or passenger; a letter is kept under
\* the claim of its thread; and the payment of a passenger is the one asked for
\* last, with a letter for each failure (document-assignment.service.ts,
\* document.controller.ts, letter.controller.ts, email.service.ts,
\* customer.controller.ts).
THEOREM SpecCopiesConsistent == Spec => []CopiesConsistent
<1>1. /\ moving = "assignments" => AsgInv
      /\ moving = "letters" => LetInv
      /\ moving = "payments" => PayInv
      => CopiesConsistent
  BY AsgPromises, LetPromises, PayPromises DEF CopiesConsistent
<1> QED
  BY <1>1, AsgInvariant, LetInvariant, PayInvariant, PTL

-----------------------------------------------------------------------------
(* What the back office sees.                                              *)

\* Sets of claims are finite, and the larger has no fewer.
LEMMA ClaimSets ==
  ASSUME NEW S \in SUBSET Claims, NEW T \in SUBSET Claims
  PROVE  /\ IsFiniteSet(S) /\ Cardinality(S) \in Nat
         /\ S \subseteq T => Cardinality(S) <= Cardinality(T)
  BY SideAssumption, FS_Subset, FS_CardinalityType

LEMMA ViewCounts == \A S : Views!Cardinality(S) = Cardinality(S)
  BY DEF Views!Cardinality, Cardinality

LEMMA ViewNow ==
  ASSUME ViewShapes
  PROVE  Views!Now \in Nat /\ Views!Now > 0 /\ Cardinality(Old) \in Nat
  BY SideAssumption, ClaimSets, ViewCounts DEF ViewShapes, Views!Now

LEMMA ViewFields ==
  ASSUME ViewShapes
  PROVE  /\ \A c \in Claims :
              /\ claim[c] \in ViewRows
              /\ claim[c].created \in Nat /\ claim[c].assigned \in Nat
              /\ claim[c].updated \in Nat
         /\ \A h \in Http : viewRequest[h] \in ViewRequests
         /\ Views!Rest \in ViewRequests /\ Views!Rest.op = "rest"
         /\ Views!Rest.at = "rest"
         /\ reader.page \in Int /\ reader.page >= -1
         /\ reader.kept \subseteq Claims /\ reader.seen \subseteq Claims
  BY DEF ViewShapes, ViewRows, ViewReaders, ViewRequests, Views!Rest

LEMMA ViewInit == ASSUME Views!Init PROVE ViewInv
<1>1. PICK rank \in [Old -> 1..Views!Cardinality(Old)],
      first \in {"CLAIM_RECEIVED", "PAID"} :
        /\ \A c, d \in Old : rank[c] = rank[d] => c = d
        /\ claim = [c \in Claims |-> IF c \in Old
            THEN [Views!NewRow(TRUE, rank[c]) EXCEPT !.mine = TRUE, !.flag = TRUE, !.fresh = TRUE,
                                         !.status = IF rank[c] = 1 THEN first ELSE @]
            ELSE Views!NewRow(FALSE, 0)]
  BY Zenon DEF Views!Init
<1>2. /\ reader = Views!Nobody /\ stats = Views!NoStats
      /\ viewRequest = [h \in Http |-> Views!Rest]
      /\ clashed = {} /\ viewSpent = 0
  BY DEF Views!Init
<1>3. Cardinality(Old) \in Nat
  BY SideAssumption, ClaimSets
<1>4. \A c \in Claims :
        /\ claim[c] \in ViewRows
        /\ claim[c].created = claim[c].assigned /\ claim[c].created = claim[c].updated
        /\ claim[c].created <= Cardinality(Old)
        /\ claim[c].there => claim[c].created > 0
        /\ claim[c].there => claim[c].flag
  <2> SUFFICES ASSUME NEW c \in Claims
               PROVE  /\ claim[c] \in ViewRows
                      /\ claim[c].created = claim[c].assigned
                      /\ claim[c].created = claim[c].updated
                      /\ claim[c].created <= Cardinality(Old)
                      /\ claim[c].there => claim[c].created > 0
                      /\ claim[c].there => claim[c].flag
    OBVIOUS
  <2>1. CASE c \in Old
    <3>1. rank[c] \in Nat /\ rank[c] > 0 /\ rank[c] <= Cardinality(Old)
      BY <1>3, <2>1, ViewCounts
    <3>2. claim[c] = [Views!NewRow(TRUE, rank[c]) EXCEPT !.mine = TRUE, !.flag = TRUE, !.fresh = TRUE,
                                             !.status = IF rank[c] = 1 THEN first ELSE @]
      BY <1>1, <2>1
    <3> QED
      BY <3>1, <3>2 DEF Views!NewRow, ViewRows, Views!Statuses
  <2>2. CASE c \notin Old
    <3>1. claim[c] = Views!NewRow(FALSE, 0)
      BY <1>1, <2>2
    <3>2. /\ claim[c].there = FALSE /\ claim[c].created = 0 /\ claim[c].assigned = 0
          /\ claim[c].updated = 0 /\ claim[c] \in ViewRows
      BY <3>1 DEF Views!NewRow, ViewRows, Views!Statuses
    <3> QED
      BY <1>3, <3>2
  <2> QED
    BY <2>1, <2>2
<1>5. claim \in [Claims -> ViewRows]
  BY <1>1, <1>4
<1>6. ViewShapes
  BY <1>2, <1>5 DEF ViewShapes, ViewReaders, ViewStats, ViewRequests,
      Views!Nobody, Views!NoStats,
     Views!Rest, Views!Roles
<1>7. ViewTimes
  BY <1>2, <1>3, ViewCounts, <1>4, <1>6, ViewFields DEF Views!Now, ViewTimes
<1>8. ViewSteps /\ ViewNews
  BY <1>2, <1>4 DEF ViewSteps, ViewNews, NewsFit, Saving, Viewing, Views!Rest
<1>9. ViewList /\ ViewNumbers
  BY <1>2 DEF ViewList, ViewNumbers, Views!Nobody, Views!NoStats
<1> QED
  BY <1>6, <1>7, <1>8, <1>9 DEF ViewInv

-----------------------------------------------------------------------------
(* Lists and statistics.                                                   *)

\* A claim of the list has a place in it.
LEMMA ViewPlaces ==
  ASSUME ViewShapes
  PROVE  /\ Views!Listed \in SUBSET Claims /\ Views!Cardinality(Views!Listed) \in Nat
         /\ \A c \in Views!Listed : /\ Views!Place(c) \in Nat /\ Views!Place(c) > 0
                                    /\ Views!Place(c) <= Views!Cardinality(Views!Listed)
<1>1. Views!Listed \in SUBSET Claims
  BY DEF Views!Listed, Views!ListedOf
<1>2. ASSUME NEW c \in Views!Listed
      PROVE  Views!Place(c) \in Nat /\ Views!Place(c) > 0 /\ Views!Place(c) <= Cardinality(Views!Listed)
  <2> DEFINE S == {d \in Views!Listed : Views!Time(claim[d]) >= Views!Time(claim[c])}
  <2>1. S \in SUBSET Claims /\ S \subseteq Views!Listed
    BY <1>1
  <2>2. Views!Time(claim[c]) \in Nat
    BY <1>1, ViewFields DEF Views!Time
  <2>3. c \in S
    BY <2>2
  <2>4. Cardinality(S) \in Nat /\ Cardinality(S) <= Cardinality(Views!Listed) /\ IsFiniteSet(S)
    BY <1>1, <2>1, ClaimSets
  <2>5. Cardinality(S) # 0
    BY <2>3, <2>4, FS_EmptySet
  <2>6. Views!Place(c) = Cardinality(S)
    BY ViewCounts DEF Views!Place
  <2> HIDE DEF S
  <2> QED
    BY <2>4, <2>5, <2>6
<1> QED
  BY <1>1, <1>2, ClaimSets, ViewCounts

\* A step that writes claims, none of which goes back in time.
LEMMA ViewFollows ==
  ASSUME ViewShapes, ViewList, claim' \in [Claims -> ViewRows], Views!Followed,
         \A c \in Claims : /\ claim[c].created <= claim'[c].created
                           /\ claim[c].assigned <= claim'[c].assigned
                           /\ claim[c].updated <= claim'[c].updated
  PROVE  reader' \in ViewReaders /\ stats' \in ViewStats /\ ViewList' /\ ViewNumbers'
<1>1. reader \in ViewReaders /\ stats \in ViewStats
  BY DEF ViewShapes
<1>2. stats' = [stats EXCEPT !.stirred = @ \/ stats.at # "rest"]
  BY DEF Views!Followed
<1>3. stats' \in ViewStats /\ ViewNumbers'
  BY <1>1, <1>2 DEF ViewStats, ViewNumbers
<1>4. CASE reader.page < 1
  BY <1>4, ViewFields, <1>1, <1>3 DEF Views!Followed, ViewList
<1>5. CASE ~(reader.page < 1)
  <2> DEFINE New == Views!ListedOf(claim')
             Kept == {c \in reader.kept \cap New : Views!Time(claim'[c]) = Views!Time(claim[c])}
             Left == reader.left \/ ~(Views!Listed \subseteq New)
  <2>1. reader' = [reader EXCEPT !.kept = Kept, !.left = Left]
    BY <1>5 DEF Views!Followed
  <2>2. Kept \subseteq Claims /\ Left \in BOOLEAN /\ New \subseteq Claims
    BY ViewFields, <1>1 DEF Views!ListedOf, ViewReaders
  <2>3. /\ reader' \in ViewReaders /\ reader'.page = reader.page
        /\ reader'.seen = reader.seen
        /\ reader'.role = reader.role /\ reader'.news = reader.news
        /\ reader'.kept = Kept /\ reader'.left = Left
    <3> HIDE DEF New, Kept, Left
    <3> QED
      BY <1>1, <2>1, <2>2 DEF ViewReaders
  <2>4. Views!Listed' = New
    BY <2>3 DEF Views!Listed, Views!ListedOf
  <2>5. \A c \in Claims : /\ Views!Time(claim[c]) \in Nat /\ Views!Time(claim[c])' \in Nat
                          /\ Views!Time(claim[c])' = Views!Time(claim'[c])
                          /\ Views!Time(claim[c]) <= Views!Time(claim[c])'
    BY <2>3, ViewFields DEF Views!Time, ViewRows
  <2>6. ASSUME ~Left, NEW c \in Kept
        PROVE  c \in Views!Listed' /\ ToCome(c)'
    <3>1. c \in Views!Listed' /\ c \in Views!Listed /\ ToCome(c) /\ c \in Claims
      BY <1>5, <2>4, <2>2, <2>6, ViewFields DEF ViewList
    <3> DEFINE S == {d \in Views!Listed : Views!Time(claim[d]) >= Views!Time(claim[c])}
               T == {d \in New : Views!Time(claim[d])' >= Views!Time(claim[c])'}
    <3>2. S \in SUBSET Claims /\ T \in SUBSET Claims
      BY <2>2, ViewPlaces
    <3>3. S \subseteq T
      BY <2>2, <2>6, <2>5, <3>1
    <3>4. Cardinality(S) <= Cardinality(T) /\ Cardinality(S) \in Nat /\ Cardinality(T) \in Nat
      BY <3>2, <3>3, ClaimSets
    <3>5. Views!Place(c) = Cardinality(S) /\ Views!Place(c)' = Cardinality(T)
      BY <2>4, ViewCounts DEF Views!Place
    <3>6. PICK n \in Int : n = (reader.page - 1) * PageSize
      BY ViewFields, SideAssumption
    <3>7. ToCome(c)' <=> c \in reader.seen \/ Views!Place(c)' > n
      BY <2>3, <3>6 DEF ToCome
    <3> HIDE DEF S, T
    <3> QED
      BY <3>1, <3>4, <3>5, <3>6, <3>7 DEF ToCome
  <2> QED
    BY <1>3, <1>5, <2>3, <2>6, ViewFields DEF ViewList
<1> QED
  BY <1>4, <1>5

\* A step that leaves the claims and the list alone, or the claims and the numbers.
LEMMA ViewListStays ==
  ASSUME ViewList, UNCHANGED <<claim, reader>>
  PROVE  ViewList'
  BY DEF Views!Listed, Views!ListedOf, Views!Place, Views!Time, ViewList, ToCome

LEMMA ViewNumbersStay ==
  ASSUME ViewNumbers, UNCHANGED <<claim, stats>>
  PROVE  ViewNumbers'
  BY DEF Views!Count, Views!There, ViewNumbers

\* A step that writes nothing about claims.
LEMMA ViewClaimsStay ==
  ASSUME ViewInv, UNCHANGED <<claim, viewRequest, clashed>>,
         viewSpent' \in {viewSpent, viewSpent + 1},
         reader' \in ViewReaders, stats' \in ViewStats
  PROVE  ViewShapes' /\ ViewTimes' /\ ViewSteps' /\ ViewNews'
  BY ViewNow, ViewCounts, ViewFields DEF ViewInv, ViewShapes, Views!Now, ViewTimes,
     ViewSteps, ViewNews, NewsFit, Saving, Viewing, Views!Of

LEMMA ViewBeginsList ==
  ASSUME ViewInv, NEW who \in Views!Roles, NEW only \in BOOLEAN,
         Views!BeginList(who, only)
  PROVE  ViewInv'
  BY ViewClaimsStay, ViewNumbersStay DEF Views!BeginList, Views!Spend, Views!Nobody,
     ViewReaders, ViewInv, ViewShapes, ViewList

LEMMA ViewReadsPage ==
  ASSUME ViewInv, Views!ReadPage
  PROVE  ViewInv'
<1> DEFINE p == reader.page
           First == (p - 1) * PageSize
           Last == p * PageSize
<1>1. /\ p > 0 /\ UNCHANGED <<claim, stats, viewRequest, clashed, viewSpent>>
      /\ reader' = [reader EXCEPT !.seen = @ \cup Views!Page(p),
                                  !.kept = IF p = 1 THEN Views!Listed ELSE @,
                                  !.left = @ /\ p > 1,
                                  !.page = IF @ * PageSize >= Views!Cardinality(Views!Listed)
                                           THEN -1 ELSE @ + 1]
  BY DEF Views!ReadPage
<1>2. /\ ViewShapes /\ ViewList /\ reader \in ViewReaders /\ p \in Nat
      /\ Views!Cardinality(Views!Listed) \in Nat /\ Views!Listed \subseteq Claims
      /\ reader.kept \subseteq Claims
  BY <1>1, ViewFields, ViewPlaces DEF ViewInv, ViewShapes
<1>3. Views!Page(p) = {c \in Views!Listed : Views!Place(c) > First /\ Views!Place(c) <= Last}
  BY DEF Views!Page
<1>4. Views!Page(p) \subseteq Claims
  BY <1>2, <1>3
<1>5. First \in Int /\ Last \in Int /\ (p = 1 => First = 0) /\ ((p + 1) - 1) * PageSize = Last
  BY <1>2, SideAssumption
<1> HIDE DEF First, Last
<1>6. /\ reader' \in ViewReaders /\ reader'.seen = reader.seen \cup Views!Page(p)
      /\ reader'.kept = IF p = 1 THEN Views!Listed ELSE reader.kept
      /\ reader'.left = (reader.left /\ p > 1)
      /\ reader'.page = IF Last >= Views!Cardinality(Views!Listed) THEN -1 ELSE p + 1
      /\ reader'.role = reader.role /\ reader'.news = reader.news
  <2>1. reader.seen \cup Views!Page(p) \in SUBSET Claims
    BY <1>2, <1>4 DEF ViewReaders
  <2>2. (IF p = 1 THEN Views!Listed ELSE reader.kept) \in SUBSET Claims
    BY <1>2
  <2>3. (reader.left /\ p > 1) \in BOOLEAN
    OBVIOUS
  <2>4. (IF Last >= Views!Cardinality(Views!Listed) THEN -1 ELSE p + 1) \in Nat \cup {-1}
    BY <1>2
  <2>5. reader' = [reader EXCEPT !.seen = reader.seen \cup Views!Page(p),
                                !.kept = IF p = 1 THEN Views!Listed ELSE reader.kept,
                                !.left = reader.left /\ p > 1,
                                !.page = IF Last >= Views!Cardinality(Views!Listed) THEN -1
                                         ELSE p + 1]
    BY <1>1 DEF Last
  <2> QED
    BY <1>2, <2>1, <2>2, <2>3, <2>4, <2>5 DEF ViewReaders
<1>7. Views!Listed' = Views!Listed
  BY <1>1, <1>6 DEF Views!Listed, Views!ListedOf
<1>8. \A c : Views!Place(c)' = Views!Place(c)
  BY <1>1, <1>6, <1>7 DEF Views!Place, Views!Time
<1>9. ASSUME ~reader'.left, NEW c \in reader'.kept
      PROVE  /\ c \in Views!Listed /\ Views!Place(c) \in Nat /\ Views!Place(c) <= Views!Cardinality(Views!Listed)
             /\ c \in reader'.seen \/ Views!Place(c) > Last
  <2>1. c \in Views!Listed /\ (c \in reader.seen \/ Views!Place(c) > First)
    <3>1. CASE p = 1
      BY <1>2, <1>5, <1>6, <1>9, <3>1, ViewPlaces
    <3>2. CASE p # 1
      <4>1. p > 1 /\ reader.left \in BOOLEAN
        BY <1>1, <1>2, <3>2 DEF ViewReaders
      <4>2. ~reader.left
        BY <1>6, <1>9, <4>1, Zenon
      <4>3. c \in reader.kept
        BY <1>6, <1>9, <3>2, Zenon
      <4> QED
        BY <1>1, <1>2, <4>2, <4>3 DEF ViewList, ToCome, First
    <3> QED
      BY <3>1, <3>2
  <2>2. Views!Place(c) \in Nat /\ Views!Place(c) <= Views!Cardinality(Views!Listed)
    BY <1>2, <2>1, ViewPlaces
  <2> QED
    BY <1>2, <1>3, <1>5, <1>6, <2>1, <2>2
<1>10. ViewList'
  BY <1>2, <1>5, <1>6, <1>9, <1>8, <1>7 DEF ViewList, ToCome
<1>11. stats' \in ViewStats
  BY <1>1, <1>2 DEF ViewShapes
<1> QED
  BY <1>1, <1>6, <1>10, <1>11, ViewClaimsStay, ViewNumbersStay DEF ViewInv

LEMMA ViewClosesList ==
  ASSUME ViewInv, Views!CloseList
  PROVE  ViewInv'
  BY ViewClaimsStay, ViewNumbersStay DEF Views!CloseList, Views!Nobody, ViewReaders,
     Views!Roles, ViewList, ViewInv, ViewShapes

LEMMA ViewBeginsStats ==
  ASSUME ViewInv, NEW since \in {0, 1}, Views!BeginStats(since)
  PROVE  ViewInv'
<1>1. /\ stats' = [Views!NoStats EXCEPT !.at = "total", !.since = since]
      /\ UNCHANGED <<claim, reader, viewRequest, clashed>>
      /\ viewSpent' = viewSpent + 1
  BY DEF Views!BeginStats, Views!Spend
<1>2. stats' \in ViewStats /\ stats'.at = "total"
  <2>1. stats' = [at |-> "total", since |-> since, total |-> 0, paid |-> 0,
                  approved |-> 0, active |-> 0, stirred |-> FALSE]
    BY <1>1 DEF Views!NoStats
  <2> QED
    BY <2>1 DEF ViewStats
<1>3. ViewNumbers' /\ reader' \in ViewReaders
  BY <1>1, <1>2 DEF ViewNumbers, ViewInv, ViewShapes
<1> QED
  BY <1>1, <1>2, <1>3, ViewClaimsStay, ViewListStays DEF ViewInv

LEMMA ViewReadsStats ==
  ASSUME ViewInv, stats.at # "rest", Views!ReadStats
  PROVE  ViewInv'
<1>1. UNCHANGED <<claim, reader, viewRequest, clashed, viewSpent>>
  BY DEF Views!ReadStats
<1>2. stats \in ViewStats /\ ViewNumbers /\ reader' \in ViewReaders
  BY <1>1 DEF ViewInv, ViewShapes
<1>3. \A S : Views!Count(S) \in Nat
  <2>1. ASSUME NEW S PROVE Views!Count(S) \in Nat
    <3> DEFINE T == {c \in Views!There : /\ claim[c].created > stats.since
                                         /\ claim[c].status \in S
                                         /\ ~claim[c].archived}
    <3>1. T \in SUBSET Claims
      BY DEF Views!There
    <3>2. Cardinality(T) \in Nat
      BY <3>1, ClaimSets
    <3> QED
      BY <3>2, ViewCounts DEF Views!Count
  <2> QED
    BY <2>1
<1>4. ASSUME stats'.since = stats.since PROVE \A S : Views!Count(S)' = Views!Count(S)
  BY <1>1, <1>4 DEF Views!Count, Views!There
<1>5. stats' \in ViewStats /\ ViewNumbers'
  BY <1>2, <1>3, <1>4 DEF Views!ReadStats, ViewStats, ViewNumbers, Views!NoStats
<1> QED
  BY <1>1, <1>2, <1>5, ViewClaimsStay, ViewListStays DEF ViewInv

-----------------------------------------------------------------------------
(* News and other work on the claims.                                      *)

\* A step that writes the row of one claim, which no time goes back in.
LEMMA ViewRowChanges ==
  ASSUME ViewInv, NEW c \in Claims, NEW row \in ViewRows,
         claim' = [claim EXCEPT ![c] = row], Views!Followed,
         viewSpent' \in {viewSpent, viewSpent + 1},
         row.created = claim[c].created \/ claim[c].created = 0,
         claim[c].assigned <= row.assigned, claim[c].updated <= row.updated,
         row.created <= row.assigned, row.created <= row.updated,
         row.assigned <= Views!Now, row.updated <= Views!Now,
         row.there => row.created > 0
  PROVE  /\ claim' \in [Claims -> ViewRows] /\ reader' \in ViewReaders
         /\ stats' \in ViewStats /\ viewSpent' \in Nat
         /\ ViewTimes' /\ ViewList' /\ ViewNumbers'
         /\ claim'[c] = row /\ \A d \in Claims \ {c} : claim'[d] = claim[d]
  BY ViewFields, ViewFollows, ViewNow, ViewCounts DEF ViewInv, ViewShapes, ViewRows,
     Views!Now, ViewTimes

\* A request that ends.
LEMMA ViewEnds ==
  ASSUME ViewInv, NEW h \in Http, Views!End(h), UNCHANGED <<claim, clashed>>
  PROVE  viewRequest' \in [Http -> ViewRequests] /\ ViewSteps' /\ ViewNews'
  BY ViewFields DEF ViewInv, ViewShapes, Views!End, ViewSteps, Views!Of, Saving,
     Viewing, ViewNews, NewsFit

\* A request that writes the claim it is about, if that is still there.
LEMMA ViewWrites ==
  ASSUME ViewInv, NEW h \in Http, viewRequest[h].op # "rest", NEW row, NEW step,
         Views!Write(h, row, step),
         \/ step = "rest"
         \/ viewRequest[h].op = "save" /\ step \in {"time", "row"}
         \/ viewRequest[h].op = "view" /\ step = "flag",
         Views!Of(h) \in Views!There =>
           /\ row \in ViewRows /\ row.there
           /\ row.created = Views!Row(h).created
           /\ row.assigned = Views!Row(h).assigned
           /\ row.updated \in {Views!Row(h).updated, Views!Now},
         Views!Of(h) \in Views!There \ clashed =>
           /\ row.fresh => row.flag
           /\ step \in {"time", "row"} => row.flag
           /\ step = "flag" => ~row.fresh
           /\ \A k \in Http \ {h} :
                /\ Saving(k, Views!Of(h)) /\ viewRequest[k].at # "flag" => row.flag
                /\ Viewing(k, Views!Of(h)) /\ viewRequest[k].at = "flag" => ~row.fresh
  PROVE  ViewInv'
<1>1. /\ Views!Of(h) \in Claims /\ Views!Followed /\ UNCHANGED <<clashed, viewSpent>>
      /\ clashed \subseteq Claims /\ viewRequest \in [Http -> ViewRequests]
  BY DEF Views!Write, ViewInv, ViewSteps, ViewShapes
<1>2. CASE Views!Of(h) \notin Views!There
  BY <1>2, <1>1, ViewFields, ViewFollows, ViewEnds DEF Views!Write, ViewInv,
     ViewShapes, ViewTimes, Views!Now
<1>3. CASE Views!Of(h) \in Views!There
  <2> DEFINE c == Views!Of(h)
  <2>1. /\ claim' = [claim EXCEPT ![c] = row]
        /\ IF step = "rest" THEN Views!End(h) ELSE Views!Go(h, step)
        /\ row \in ViewRows /\ row.there
        /\ row.created = claim[c].created /\ row.assigned = claim[c].assigned
        /\ row.updated \in {claim[c].updated, Views!Now}
        /\ claim[c].there
    BY <1>3 DEF Views!Write, Views!Row, Views!There
  <2>2. /\ c \in Claims
        /\ claim[c].created \in Nat /\ claim[c].assigned \in Nat
        /\ claim[c].updated \in Nat
        /\ Views!Now \in Nat /\ claim[c].assigned <= Views!Now
        /\ claim[c].updated <= Views!Now
        /\ claim[c].created <= claim[c].assigned
        /\ claim[c].created <= claim[c].updated
        /\ claim[c].created > 0
    BY <1>1, <2>1, ViewFields, ViewNow DEF ViewInv, ViewTimes
  <2>3. /\ claim' \in [Claims -> ViewRows] /\ reader' \in ViewReaders
        /\ stats' \in ViewStats /\ viewSpent' \in Nat
        /\ ViewTimes' /\ ViewList' /\ ViewNumbers'
        /\ claim'[c] = row /\ \A d \in Claims \ {c} : claim'[d] = claim[d]
    <3> HIDE DEF c
    <3>1. /\ claim[c].updated <= row.updated /\ row.updated <= Views!Now
          /\ row.created <= row.updated /\ row.created <= row.assigned
          /\ claim[c].assigned <= row.assigned /\ row.assigned <= Views!Now
          /\ row.there => row.created > 0
      BY <2>1, <2>2
    <3>2. viewSpent' \in {viewSpent, viewSpent + 1}
      BY <1>1
    <3> QED
      BY <1>1, <2>1, <2>2, <3>1, <3>2, ViewRowChanges
  <2>4. /\ viewRequest' \in [Http -> ViewRequests]
        /\ \A k \in Http \ {h} : viewRequest'[k] = viewRequest[k]
        /\ \/ viewRequest'[h].op = "rest"
           \/ /\ viewRequest'[h].op = viewRequest[h].op /\ Views!Of(h)' = c /\ viewRequest'[h].at = step
              /\ \/ viewRequest[h].op = "save" /\ step \in {"time", "row"}
                 \/ viewRequest[h].op = "view" /\ step = "flag"
    BY <2>1, <1>1, ViewFields DEF ViewInv, Views!End, Views!Go, ViewRequests, Views!Of
  <2>5. ViewSteps'
    <3>1. \A d \in Claims : claim'[d].created = claim[d].created
      BY <2>1, <2>3
    <3> HIDE DEF c
    <3> QED
      BY <1>1, <2>4, <3>1 DEF ViewInv, ViewSteps, Views!Of, c
  <2>6. \A k \in Http \ {h}, d \in Claims :
          /\ Saving(k, d)' = Saving(k, d) /\ Viewing(k, d)' = Viewing(k, d)
    BY <2>4 DEF Saving, Viewing, Views!Of
  <2>7. \A d \in Claims :
          /\ Saving(h, d)' => d = c /\ Saving(h, d) /\ step \in {"time", "row"}
          /\ Viewing(h, d)' => d = c /\ Viewing(h, d) /\ step = "flag"
    BY <2>4 DEF Saving, Viewing, Views!Of
  <2>8. ViewNews'
    <3> SUFFICES ASSUME NEW d \in Claims, d \notin clashed
                 PROVE  NewsFit(d)'
      BY <1>1 DEF ViewNews, NewsFit
    <3>1. NewsFit(d)
      BY DEF ViewInv, ViewNews
    <3>2. \A k, l \in Http : ~(Saving(k, d)' /\ Viewing(l, d)')
      BY <2>6, <2>7, <3>1 DEF NewsFit
    <3>3. CASE d = c
      <4>1. /\ row.fresh => row.flag
            /\ step \in {"time", "row"} => row.flag
            /\ step = "flag" => ~row.fresh
            /\ \A k \in Http \ {h} :
                 /\ Saving(k, d) /\ viewRequest[k].at # "flag" => row.flag
                 /\ Viewing(k, d) /\ viewRequest[k].at = "flag" => ~row.fresh
        BY <1>3, <3>3
      <4> HIDE DEF c
      <4>2. \A k \in Http : Saving(k, d)' /\ viewRequest'[k].at # "flag" => row.flag
        BY <2>4, <2>6, <2>7, <4>1
      <4>3. \A k \in Http : Viewing(k, d)' /\ viewRequest'[k].at = "flag" => ~row.fresh
        BY <2>4, <2>6, <2>7, <4>1
      <4> QED
        BY <2>3, <3>2, <3>3, <4>1, <4>2, <4>3 DEF NewsFit
    <3>4. CASE d # c
      <4> HIDE DEF c
      <4> QED
        BY <2>3, <2>4, <2>6, <2>7, <3>1, <3>2, <3>4 DEF NewsFit
    <3> QED
      BY <3>3, <3>4
  <2> QED
    BY <1>1, <2>3, <2>4, <2>5, <2>8 DEF ViewInv, ViewShapes
<1> QED
  BY <1>2, <1>3

\* What is written of a row does not change the rest of it.
LEMMA ViewRow ==
  ASSUME ViewInv, NEW h \in Http, Views!Of(h) \in Views!There
  PROVE  /\ Views!Row(h) \in ViewRows /\ Views!Row(h).there /\ Views!Of(h) \in Claims
         /\ Views!Row(h) = claim[Views!Of(h)]
  BY ViewFields DEF ViewInv, Views!Row, Views!There

LEMMA ViewSaveRaises ==
  ASSUME ViewInv, NEW h \in Http, Views!SaveRaises(h)
  PROVE  ViewInv'
<1> DEFINE row == [Views!Row(h) EXCEPT !.flag = TRUE]
<1>1. viewRequest[h].op = "save" /\ viewRequest[h].at = "flag" /\ Views!Write(h, row, "time")
  BY DEF Views!SaveRaises, Views!At
<1>2. ASSUME Views!Of(h) \in Views!There
      PROVE  /\ row \in ViewRows /\ row.there /\ row.flag /\ row.fresh = Views!Row(h).fresh
             /\ row.created = Views!Row(h).created
             /\ row.assigned = Views!Row(h).assigned
             /\ row.updated = Views!Row(h).updated
  BY <1>2, ViewRow DEF ViewRows
<1>3. ASSUME Views!Of(h) \in Views!There \ clashed, NEW k \in Http \ {h},
             Viewing(k, Views!Of(h)), viewRequest[k].at = "flag"
      PROVE  ~row.fresh
  BY <1>2, <1>3, ViewRow DEF ViewInv, ViewNews, NewsFit
<1> HIDE DEF row
<1> QED
  BY <1>1, <1>2, <1>3, ViewWrites

LEMMA ViewSaveStamps ==
  ASSUME ViewInv, NEW h \in Http, Views!SaveStamps(h)
  PROVE  ViewInv'
<1> DEFINE row == [Views!Row(h) EXCEPT !.updated = Views!Now]
<1>1. viewRequest[h].op = "save" /\ viewRequest[h].at = "time" /\ Views!Write(h, row, "row")
  BY DEF Views!SaveStamps, Views!At
<1>2. ASSUME Views!Of(h) \in Views!There
      PROVE  /\ row \in ViewRows /\ row.there /\ row.flag = Views!Row(h).flag
             /\ row.fresh = Views!Row(h).fresh /\ row.updated = Views!Now
             /\ row.created = Views!Row(h).created
             /\ row.assigned = Views!Row(h).assigned
  BY <1>2, ViewRow, ViewNow DEF ViewInv, ViewRows
<1>3. ASSUME Views!Of(h) \in Views!There \ clashed
      PROVE  /\ row.flag
             /\ \A k \in Http \ {h} : ~Viewing(k, Views!Of(h))
  BY <1>1, <1>2, <1>3, ViewRow DEF ViewInv, ViewNews, NewsFit, Saving
<1> HIDE DEF row
<1> QED
  BY <1>1, <1>2, <1>3, ViewWrites

LEMMA ViewSaveAdds ==
  ASSUME ViewInv, NEW h \in Http, Views!SaveAdds(h)
  PROVE  ViewInv'
<1> DEFINE row == [Views!Row(h) EXCEPT !.fresh = TRUE]
<1>1. viewRequest[h].op = "save" /\ viewRequest[h].at = "row" /\ Views!Write(h, row, "rest")
  BY DEF Views!SaveAdds, Views!At
<1>2. ASSUME Views!Of(h) \in Views!There
      PROVE  /\ row \in ViewRows /\ row.there /\ row.flag = Views!Row(h).flag
             /\ row.updated = Views!Row(h).updated
             /\ row.created = Views!Row(h).created
             /\ row.assigned = Views!Row(h).assigned
  BY <1>2, ViewRow DEF ViewRows
<1>3. ASSUME Views!Of(h) \in Views!There \ clashed
      PROVE  /\ row.flag
             /\ \A k \in Http \ {h} : ~Viewing(k, Views!Of(h))
  BY <1>1, <1>2, <1>3, ViewRow DEF ViewInv, ViewNews, NewsFit, Saving
<1> HIDE DEF row
<1> QED
  BY <1>1, <1>2, <1>3, ViewWrites

LEMMA ViewViewMarks ==
  ASSUME ViewInv, NEW h \in Http, Views!ViewMarks(h)
  PROVE  ViewInv'
<1> DEFINE row == [Views!Row(h) EXCEPT !.fresh = FALSE]
<1>1. viewRequest[h].op = "view" /\ viewRequest[h].at = "rows" /\ Views!Write(h, row, "flag")
  BY DEF Views!ViewMarks, Views!At
<1>2. ASSUME Views!Of(h) \in Views!There
      PROVE  /\ row \in ViewRows /\ row.there /\ ~row.fresh
             /\ row.updated = Views!Row(h).updated
             /\ row.created = Views!Row(h).created
             /\ row.assigned = Views!Row(h).assigned
  BY <1>2, ViewRow DEF ViewRows
<1>3. ASSUME Views!Of(h) \in Views!There \ clashed
      PROVE  \A k \in Http \ {h} : ~Saving(k, Views!Of(h))
  BY <1>1, <1>3, ViewRow DEF ViewInv, ViewNews, NewsFit, Viewing
<1> HIDE DEF row
<1> QED
  BY <1>1, <1>2, <1>3, ViewWrites

LEMMA ViewViewLowers ==
  ASSUME ViewInv, NEW h \in Http, Views!ViewLowers(h)
  PROVE  ViewInv'
<1> DEFINE row == [Views!Row(h) EXCEPT !.flag = FALSE]
<1>1. viewRequest[h].op = "view" /\ viewRequest[h].at = "flag" /\ Views!Write(h, row, "rest")
  BY DEF Views!ViewLowers, Views!At
<1>2. ASSUME Views!Of(h) \in Views!There
      PROVE  /\ row \in ViewRows /\ row.there /\ row.fresh = Views!Row(h).fresh
             /\ row.updated = Views!Row(h).updated
             /\ row.created = Views!Row(h).created
             /\ row.assigned = Views!Row(h).assigned
  BY <1>2, ViewRow DEF ViewRows
<1>3. ASSUME Views!Of(h) \in Views!There \ clashed
      PROVE  /\ ~row.fresh
             /\ \A k \in Http \ {h} : ~Saving(k, Views!Of(h))
  BY <1>1, <1>2, <1>3, ViewRow DEF ViewInv, ViewNews, NewsFit, Viewing
<1> HIDE DEF row
<1> QED
  BY <1>1, <1>2, <1>3, ViewWrites

LEMMA ViewThrow ==
  ASSUME ViewInv, NEW h \in Http, Views!Throw(h)
  PROVE  ViewInv'
  BY ViewEnds, ViewListStays, ViewNumbersStay, ViewNow, ViewCounts, ViewFields DEF
     Views!Throw, Views!Spend, ViewInv, ViewShapes, Views!Now, ViewTimes

\* A look and news that meet are of a claim where they clashed.
LEMMA ViewBegin ==
  ASSUME ViewInv, NEW h \in Http, NEW c \in Claims, NEW op, NEW step,
         \/ op = "save" /\ step = "flag"
         \/ op = "view" /\ step = "rows",
         Views!Begin(h, op, step, c)
  PROVE  ViewInv'
<1>1. /\ viewRequest[h].op = "rest" /\ claim[c].there
      /\ viewRequest' = [viewRequest EXCEPT ![h] = [op |-> op, at |-> step, claim |-> c]]
      /\ UNCHANGED <<claim, reader, stats>> /\ viewSpent' = viewSpent + 1
      /\ viewRequest \in [Http -> ViewRequests] /\ clashed \subseteq Claims
  BY DEF Views!Begin, Views!Spend, Views!There, ViewInv, ViewShapes
<1>2. /\ viewRequest' \in [Http -> ViewRequests]
      /\ viewRequest'[h].op = op /\ viewRequest'[h].at = step
      /\ viewRequest'[h].claim = c
      /\ \A k \in Http \ {h} : viewRequest'[k] = viewRequest[k]
  BY <1>1 DEF ViewRequests
<1>3. /\ clashed' \in {clashed, clashed \cup {c}}
      /\ c \notin clashed' =>
           ~\E k \in Http : viewRequest[k].claim = c /\ {viewRequest[k].op, op} = {"save", "view"}
  BY DEF Views!Begin
<1>4. ViewList' /\ ViewNumbers'
  BY <1>1, ViewListStays, ViewNumbersStay DEF ViewInv
<1>5. viewSpent' \in Nat /\ Views!Now' >= Views!Now /\ Views!Now \in Nat /\ Views!Now' \in Nat
  BY ViewNow, <1>1, ViewCounts DEF ViewInv, ViewShapes, Views!Now
<1>6. ViewTimes'
  BY <1>1, <1>5, ViewFields DEF ViewInv, ViewTimes
<1>7. ViewSteps'
  BY <1>1, <1>2 DEF ViewInv, ViewSteps, ViewTimes, Views!Of
<1>8. ViewNews'
  BY <1>3, <1>2, <1>1 DEF ViewNews, NewsFit, ViewInv, Saving, Viewing, Views!Of
<1> QED
  BY <1>1, <1>2, <1>3, <1>4, <1>5, <1>6, <1>7, <1>8 DEF ViewInv, ViewShapes

\* Other work on a claim, which brings no news.
LEMMA ViewChanges ==
  ASSUME ViewInv, NEW c \in Claims, NEW row \in ViewRows,
         claim' = [claim EXCEPT ![c] = row], Views!Followed,
         viewSpent' = viewSpent + 1,
         UNCHANGED <<viewRequest, clashed>>,
         row.created = claim[c].created \/ claim[c].created = 0,
         row.assigned \in {claim[c].assigned, Views!Now},
         row.updated \in {claim[c].updated, Views!Now},
         row.created <= row.assigned, row.created <= row.updated,
         row.there => row.created > 0,
         \/ /\ row.fresh = claim[c].fresh /\ row.flag = claim[c].flag
            /\ row.there => claim[c].there
         \/ claim[c].created = 0 /\ ~row.fresh
  PROVE  ViewInv'
<1>1. /\ claim[c].assigned \in Nat /\ claim[c].updated \in Nat /\ Views!Now \in Nat
      /\ claim[c].assigned <= Views!Now /\ claim[c].updated <= Views!Now
      /\ clashed \subseteq Claims /\ viewRequest \in [Http -> ViewRequests]
  BY ViewFields, ViewNow DEF ViewInv, ViewTimes, ViewShapes
<1>2. /\ claim[c].assigned <= row.assigned /\ claim[c].updated <= row.updated
      /\ row.assigned <= Views!Now /\ row.updated <= Views!Now
  BY <1>1
<1>3. viewSpent' \in {viewSpent, viewSpent + 1}
  OBVIOUS
<1>4. /\ claim' \in [Claims -> ViewRows] /\ reader' \in ViewReaders
      /\ stats' \in ViewStats /\ viewSpent' \in Nat
      /\ ViewTimes' /\ ViewList' /\ ViewNumbers'
      /\ claim'[c] = row /\ \A d \in Claims \ {c} : claim'[d] = claim[d]
  BY <1>2, <1>3, ViewRowChanges
<1>5. row.created \in Nat /\ claim[c].created \in Nat
  BY ViewFields DEF ViewInv, ViewRows
<1>6. ViewSteps'
  BY <1>4, <1>5 DEF ViewInv, ViewSteps, Views!Of
<1>7. \A k \in Http, d \in Claims :
        /\ Saving(k, d)' = Saving(k, d) /\ Viewing(k, d)' = Viewing(k, d)
        /\ Saving(k, d) \/ Viewing(k, d) => claim[d].created > 0
  BY DEF Saving, Viewing, Views!Of, ViewInv, ViewSteps
<1>8. ViewNews'
  BY <1>4, <1>7, <1>5 DEF ViewNews, NewsFit, ViewInv
<1> QED
  BY <1>1, <1>4, <1>6, <1>8 DEF ViewInv, ViewShapes

LEMMA ViewCreates ==
  ASSUME ViewInv, NEW c \in Claims, Views!CreateClaim(c)
  PROVE  ViewInv'
<1> DEFINE row == Views!NewRow(TRUE, Views!Now)
<1>1. /\ claim[c].created = 0 /\ claim' = [claim EXCEPT ![c] = row]
      /\ Views!Followed /\ viewSpent' = viewSpent + 1
      /\ UNCHANGED <<viewRequest, clashed>>
  BY DEF Views!CreateClaim, Views!Spend
<1>2. Views!Now \in Nat /\ Views!Now > 0
  BY ViewNow DEF ViewInv
<1>3. /\ row \in ViewRows /\ row.created = Views!Now /\ row.assigned = Views!Now
      /\ row.updated = Views!Now
      /\ ~row.fresh
  BY <1>2 DEF Views!NewRow, ViewRows, Views!Statuses
<1>4. row.created <= row.assigned /\ row.created <= row.updated /\ row.created > 0
  <2> HIDE DEF row
  <2> QED
    BY <1>2, <1>3
<1>5. row.assigned \in {claim[c].assigned, Views!Now} /\ row.updated \in {claim[c].updated, Views!Now}
  BY <1>3
<1> HIDE DEF row
<1> QED
  BY <1>1, <1>3, <1>4, <1>5, ViewChanges

LEMMA ViewChange ==
  ASSUME ViewInv, NEW c \in Claims, NEW status \in Views!Statuses,
         \/ Views!AddAgent(c) \/ Views!DeleteAgent(c) \/ Views!ArchiveClaim(c) \/ Views!DeleteClaim(c)
         \/ Views!UpdateStatus(c, status)
  PROVE  ViewInv'
<1>1. PICK row \in {[claim[c] EXCEPT !.assigned = Views!Now, !.mine = TRUE],
                    [claim[c] EXCEPT !.assigned = Views!Now, !.mine = FALSE],
                    [claim[c] EXCEPT !.archived = ~claim[c].archived],
                    [claim[c] EXCEPT !.status = status],
                    [claim[c] EXCEPT !.there = FALSE]} : Views!Change(c, row)
  BY DEF Views!AddAgent, Views!DeleteAgent, Views!ArchiveClaim,
      Views!UpdateStatus, Views!DeleteClaim
<1>2. /\ claim[c].there /\ claim' = [claim EXCEPT ![c] = row]
      /\ Views!Followed /\ viewSpent' = viewSpent + 1
      /\ UNCHANGED <<viewRequest, clashed>>
  BY <1>1 DEF Views!Change, Views!Spend, Views!There
<1>3. /\ claim[c] \in ViewRows /\ Views!Now \in Nat
      /\ claim[c].created <= claim[c].assigned /\ claim[c].created <= claim[c].updated
      /\ claim[c].assigned <= Views!Now /\ claim[c].created > 0
      /\ claim[c].created \in Nat /\ claim[c].assigned \in Nat
      /\ claim[c].updated \in Nat
  BY <1>2, ViewFields, ViewNow DEF ViewInv, ViewTimes
<1>4. /\ row \in ViewRows /\ row.created = claim[c].created
      /\ row.assigned \in {claim[c].assigned, Views!Now}
      /\ row.updated = claim[c].updated
      /\ row.fresh = claim[c].fresh /\ row.flag = claim[c].flag
  BY <1>1, <1>3 DEF ViewRows
<1>5. row.created <= row.assigned /\ row.created <= row.updated /\ row.created > 0
  BY <1>3, <1>4
<1> QED
  BY <1>2, <1>4, <1>5, ViewChanges

LEMMA ViewNext == ASSUME ViewInv, Views!Next PROVE ViewInv'
  BY ViewBeginsList, ViewReadsPage, ViewClosesList, ViewBeginsStats, ViewReadsStats,
     ViewBegin, ViewSaveRaises, ViewSaveStamps, ViewSaveAdds, ViewViewMarks,
     ViewViewLowers, ViewThrow, ViewCreates, ViewChange DEF Views!Statuses, Views!Next

LEMMA ViewStutters ==
  ASSUME ViewInv, UNCHANGED Views!vars
  PROVE  ViewInv'
  BY ViewClaimsStay, ViewListStays, ViewNumbersStay DEF Views!vars, ViewInv,
     ViewShapes

\* Claims are counted apart and together.
LEMMA ClaimsApart ==
  ASSUME NEW S \in SUBSET Claims, NEW T \in SUBSET Claims, NEW U \in SUBSET Claims,
         S \cup T \subseteq U, S \cap T = {}
  PROVE  Cardinality(S) + Cardinality(T) <= Cardinality(U)
<1>1. IsFiniteSet(S) /\ IsFiniteSet(T)
  BY ClaimSets
<1>2. Cardinality(S \cup T) = Cardinality(S) + Cardinality(T) - Cardinality(S \cap T)
  BY <1>1, FS_Union
<1>3. Cardinality(S \cap T) = 0
  BY FS_EmptySet
<1>4. S \cup T \in SUBSET Claims /\ Cardinality(S \cup T) <= Cardinality(U)
  BY ClaimSets
<1> QED
  BY <1>2, <1>3, <1>4, ClaimSets

LEMMA ViewPromises == ASSUME ViewInv PROVE Views!ViewsConsistent
<1> DEFINE Having(S) == {c \in Views!There : /\ claim[c].created > stats.since
                                   /\ claim[c].status \in S /\ ~claim[c].archived}
           Open == Views!Statuses \ {"PAID", "CLOSED"}
<1>1. \A S : Views!Count(S) = Cardinality(Having(S)) /\ Having(S) \in SUBSET Claims
  BY ViewCounts DEF Views!Count, Views!There
<1>2. /\ Having({"PAID"}) \cup Having(Open) \subseteq Having(Views!Statuses)
      /\ Having({"PAID"}) \cap Having(Open) = {}
      /\ Having({"APPROVED"}) \subseteq Having(Open)
  BY DEF Views!Statuses
<1>3. /\ Views!Count({"PAID"}) + Views!Count(Open) <= Views!Count(Views!Statuses)
      /\ Views!Count({"APPROVED"}) <= Views!Count(Open)
  <2> HIDE DEF Having
  <2> QED
    BY <1>1, <1>2, ClaimsApart, ClaimSets
<1>4. Views!StatsAgree
  BY <1>3 DEF Views!StatsAgree, ViewInv, ViewNumbers
<1>5. Views!NothingSkipped
  BY DEF Views!NothingSkipped, ViewInv, ViewList
<1>6. Views!NewsShown
  BY DEF Views!NewsShown, Views!There, ViewInv, ViewNews, NewsFit
<1> QED
  BY <1>4, <1>5, <1>6 DEF Views!ViewsConsistent

-----------------------------------------------------------------------------
(* Airports.                                                               *)

\* Rows of the table differ in what they are found by.
LEMMA AirTable ==
  /\ \A r \in Index!Table : r = Index!Row(r.of, r.language)
  /\ \A r, s \in Index!Table : Index!Key(r) = Index!Key(s) => r = s
  BY DEF Index!Table, Index!English, Index!Row, Index!Key

LEMMA AirInit == ASSUME Index!Init PROVE AirInv
<1>1. /\ Index!Table \subseteq Index!Table /\ {} \subseteq Index!Table
      /\ Index!None = [kept |-> FALSE, found |-> {}]
      /\ Index!Rest = [at |-> "rest", query |-> CHOOSE q \in Index!Queries : TRUE, found |-> {},
                 whole |-> TRUE]
      /\ index.docs = {} \/ Index!Whole
  BY DEF Index!None, Index!Rest, Index!Init, Index!Absent, Index!Whole
<1>2. AirShapes
  <2>1. index \in [there : BOOLEAN, mapped : BOOLEAN, docs : SUBSET Index!Table]
    <3>1. \/ index = [there |-> FALSE, mapped |-> FALSE, docs |-> {}]
          \/ index = [there |-> TRUE, mapped |-> TRUE, docs |-> Index!Table]
      BY DEF Index!Init, Index!Absent
    <3>2. CASE index = [there |-> FALSE, mapped |-> FALSE, docs |-> {}]
      BY <1>1, <3>2
    <3>3. CASE index = [there |-> TRUE, mapped |-> TRUE, docs |-> Index!Table]
      <4> DEFINE T == Index!Table
      <4> HIDE DEF T
      <4>1. index = [there |-> TRUE, mapped |-> TRUE, docs |-> T]
        BY <3>3 DEF T
      <4>2. index \in [there : BOOLEAN, mapped : BOOLEAN, docs : SUBSET T]
        BY <4>1
      <4> QED
        BY <4>2 DEF T
    <3> QED
      BY <3>1, <3>2, <3>3
  <2>2. cache \in [Index!Queries -> [kept : BOOLEAN, found : SUBSET Index!Table]]
    BY <1>1 DEF Index!Init
  <2>3. search \in [Http -> AirSearches]
    BY <1>1 DEF Index!Init, AirSearches
  <2> QED
    BY <2>1, <2>2, <2>3 DEF Index!Init, AirShapes, Index!Down
<1>3. AirRows /\ AirEmptied /\ Index!IndexWhole
  BY <1>1 DEF Index!Init, AirRows, AirEmptied, Index!IndexWhole, Index!Down
<1>4. AirAnswers
  BY <1>1 DEF Index!Init, AirAnswers
<1> QED
  BY <1>2, <1>3, <1>4 DEF AirInv

\* Rows that are sent and meet no error are all there afterwards.
LEMMA AirFills ==
  ASSUME AirShapes, NEW given \in SUBSET Index!Table, NEW bad, Index!Fill(given, bad)
  PROVE  /\ index' \in [there : BOOLEAN, mapped : BOOLEAN, docs : SUBSET Index!Table]
         /\ index'.there /\ index'.mapped = index.mapped
         /\ partial' = (bad # {})
         /\ given = Index!Table /\ bad = {} => index'.docs = Index!Table
<1>1. PICK added \in SUBSET (given \ bad) :
        /\ {Index!Key(r) : r \in added} = {Index!Key(r) : r \in given \ bad}
        /\ index' = [there |-> TRUE, mapped |-> index.mapped,
                     docs |-> added \cup {r \in index.docs : \A d \in added : Index!Key(d) # Index!Key(r)}]
        /\ partial' = (bad # {})
  BY DEF Index!Fill
<1>2. index \in [there : BOOLEAN, mapped : BOOLEAN, docs : SUBSET Index!Table]
  BY DEF AirShapes
<1>3. added = given \ bad
  BY <1>1, AirTable
<1>4. given = Index!Table /\ bad = {} => index'.docs = Index!Table
  BY <1>1, <1>2, <1>3
<1> QED
  BY <1>1, <1>2, <1>4

\* A step that leaves searches and answers alone.
LEMMA AirAnswersStay ==
  ASSUME AirInv, UNCHANGED <<cache, search, earlyAnswers>>
  PROVE  AirAnswers'
  BY DEF AirInv, AirAnswers

\* The steps of a process that starts.
LEMMA AirSyncs ==
  ASSUME AirInv,
         \/ Index!Start \/ Index!Counts \/ Index!CountFails \/ Index!Looks \/ Index!Deletes \/ Index!Creates \/ Index!ReadsTable
         \/ Index!FillsIndex
  PROVE  AirInv'
<1> USE DEF AirInv
<1>1. /\ UNCHANGED <<table, late, cache, search, reloaded, overtaken, earlyAnswers>>
      /\ miscounted' \in BOOLEAN /\ (miscounted => miscounted')
  BY DEF Index!Start, Index!Counts, Index!CountFails, Index!Looks,
      Index!Deletes, Index!Creates, Index!ReadsTable, Index!FillsIndex,
     Index!Step, Index!history, AirShapes
<1>2. /\ sync \in [at : {"down", "count", "exists", "delete", "create", "query", "bulk",
                         "done"}, rows : SUBSET Index!Table]
      /\ index \in [there : BOOLEAN, mapped : BOOLEAN, docs : SUBSET Index!Table]
      /\ table \in SUBSET Index!Table /\ partial \in BOOLEAN /\ emptied \in BOOLEAN
  BY DEF AirShapes, Index!Table
<1> DEFINE Parts == /\ sync' \in [at : {"down", "count", "exists", "delete", "create", "query",
                                       "bulk", "done"}, rows : SUBSET Index!Table]
                    /\ index' \in [there : BOOLEAN, mapped : BOOLEAN, docs : SUBSET Index!Table]
                    /\ partial' \in BOOLEAN /\ emptied' \in BOOLEAN
                    /\ AirRows' /\ AirEmptied' /\ Index!IndexWhole'
<1>3. ASSUME Index!Start \/ Index!CountFails \/ Index!Looks PROVE Parts
  BY <1>2, <1>3, <1>1 DEF Index!Start, Index!CountFails, Index!Looks, Index!Step,
     Index!history, AirRows, AirEmptied, Index!IndexWhole, Index!Whole
<1>4. ASSUME Index!Counts PROVE Parts
  BY <1>4, <1>1, <1>2 DEF Index!Counts, Index!Step, Index!history, AirRows,
     AirEmptied, Index!IndexWhole, Index!Whole
<1>5. ASSUME Index!Deletes PROVE Parts
  BY <1>5, <1>1, <1>2 DEF Index!Deletes, Index!Step, AirRows, AirEmptied,
     Index!IndexWhole, Index!Whole, Index!Absent
<1>6. ASSUME Index!Creates PROVE Parts
  BY <1>6, <1>1, <1>2 DEF Index!Creates, Index!Step, Index!history, AirRows,
     AirEmptied, Index!IndexWhole, Index!Whole
<1>7. ASSUME Index!ReadsTable PROVE Parts
  BY <1>7, <1>2, <1>1 DEF Index!ReadsTable, Index!history, AirRows, AirEmptied,
     Index!IndexWhole, Index!Whole
<1>8. ASSUME Index!FillsIndex PROVE Parts
  <2>1. PICK bad : /\ sync.at = "bulk" /\ Index!Fill(sync.rows, bad)
                      /\ sync' = [at |-> "done", rows |-> {}]
                      /\ UNCHANGED <<table, reloaded, miscounted, overtaken, emptied>>
    BY <1>8 DEF Index!FillsIndex
  <2>2. sync.rows \in SUBSET Index!Table
    BY <1>2
  <2>3. /\ index' \in [there : BOOLEAN, mapped : BOOLEAN, docs : SUBSET Index!Table]
        /\ index'.there /\ index'.mapped = index.mapped
        /\ partial' = (bad # {})
        /\ sync.rows = Index!Table /\ bad = {} => index'.docs = Index!Table
    BY <2>1, <2>2, AirFills
  <2> QED
    BY <1>1, <1>2, <2>1, <2>3 DEF AirRows, AirEmptied, Index!IndexWhole,
        Index!Whole
<1>9. Parts
  BY <1>3, <1>4, <1>5, <1>6, <1>7, <1>8
<1> QED
  BY <1>1, <1>9, AirAnswersStay DEF AirShapes

\* What befalls the process and the table.
LEMMA AirEvents ==
  ASSUME AirInv, Index!Stop \/ Index!Arrives \/ Index!Truncate \/ Index!Copy
  PROVE  AirInv'
<1> USE DEF AirInv
<1>1. CASE Index!Stop
  BY <1>1 DEF Index!Stop, Index!history, Index!Rest, AirSearches, AirShapes,
     Index!Down, AirRows, AirEmptied, Index!IndexWhole, Index!Whole, AirAnswers
<1>2. CASE Index!Arrives
  BY <1>2, AirFills, AirAnswersStay DEF Index!Arrives, AirShapes, AirRows, AirEmptied,
     Index!IndexWhole
<1>3. CASE Index!Truncate \/ Index!Copy
  <2>1. /\ table' \in {{}, Index!English, Index!Table} /\ reloaded' \in BOOLEAN
        /\ reloaded => reloaded'
        /\ ~reloaded' => table' = table
        /\ UNCHANGED <<index, sync, late, cache, search, partial, miscounted, overtaken,
                       emptied, earlyAnswers>>
    BY <1>3 DEF Index!Truncate, Index!Copy, Index!history, AirShapes, AirRows
  <2>2. AirShapes' /\ AirRows' /\ AirEmptied' /\ Index!IndexWhole'
    BY <2>1 DEF AirShapes, AirRows, AirEmptied, Index!IndexWhole, Index!Whole
  <2> QED
    BY <2>1, <2>2, AirAnswersStay
<1> QED
  BY <1>1, <1>2, <1>3

\* A whole index has the rows that are right and no others.
LEMMA AirHits ==
  ASSUME Index!Whole, NEW q \in Index!Queries
  PROVE  Index!Hits(q) = Right(q)
<1> DEFINE l == IF q.by = "code" THEN "en" ELSE q.by
<1>1. Index!Hits(q) = {r \in Index!Table : r.of = q.of /\ r.language = l}
  BY DEF Index!Hits, Index!Whole
<1>2. \A r \in Index!Table : r.of = q.of /\ r.language = l <=> r = Index!Row(q.of, l)
  BY AirTable DEF Index!Row
<1> QED
  BY <1>1, <1>2 DEF Right

LEMMA AirSearch ==
  ASSUME AirInv, NEW h,
         \/ h \in Http /\ (Index!Searches(h) \/ Index!Keeps(h) \/ \E q \in Index!Queries : Index!Ask(h, q))
         \/ \E q \in Index!Queries : Index!Expires(q)
  PROVE  AirInv'
<1> USE DEF AirInv
<1>1. UNCHANGED <<table, index, sync, late, partial, reloaded, miscounted, overtaken, emptied>>
  BY DEF Index!Searches, Index!Keeps, Index!Ask, Index!Expires, Index!history
<1>2. AirRows' /\ AirEmptied' /\ Index!IndexWhole'
  BY <1>1 DEF AirRows, AirEmptied, Index!IndexWhole, Index!Whole
<1>3. /\ cache \in [Index!Queries -> [kept : BOOLEAN, found : SUBSET Index!Table]]
      /\ search \in [Http -> AirSearches] /\ earlyAnswers \subseteq Index!Queries
      /\ index.docs \subseteq Index!Table
      /\ Index!Rest \in AirSearches /\ Index!Rest.at = "rest"
      /\ h \in Http => search[h] \in AirSearches
  BY DEF AirShapes, AirSearches, Index!Rest
<1> DEFINE Parts == /\ cache' \in [Index!Queries -> [kept : BOOLEAN, found : SUBSET Index!Table]]
                    /\ search' \in [Http -> AirSearches]
                    /\ earlyAnswers' \subseteq Index!Queries
                    /\ AirAnswers'
<1>4. ASSUME h \in Http, Index!Searches(h) PROVE Parts
  <2> DEFINE q == search[h].query
             next == [at |-> "keep", query |-> q, found |-> Index!Hits(q), whole |-> Index!Whole]
  <2>1. /\ search' = [search EXCEPT ![h] = IF index.there THEN next ELSE Index!Rest]
        /\ UNCHANGED <<cache, earlyAnswers>> /\ search[h].at # "rest"
    BY <1>4 DEF Index!Searches, Index!history
  <2>2. q \in Index!Queries
    BY <1>4, <2>1 DEF AirAnswers
  <2>3. next \in AirSearches /\ (next.whole => next.found = Right(q))
    BY <1>3, <2>2, AirHits DEF Index!Hits, Index!Whole, AirSearches
  <2>4. next.query = q
    OBVIOUS
  <2> HIDE DEF next, q
  <2>5. search' \in [Http -> AirSearches]
    BY <1>3, <1>4, <2>1, <2>3
  <2>6. AirAnswers'
    BY <1>3, <1>4, <2>1, <2>2, <2>3, <2>4 DEF AirAnswers
  <2> QED
    BY <1>3, <2>1, <2>5, <2>6
<1>5. ASSUME h \in Http, Index!Keeps(h) PROVE Parts
  <2> DEFINE q == search[h].query
  <2>1. /\ search[h].at = "keep"
        /\ cache' = [cache EXCEPT ![q] = [kept |-> TRUE, found |-> search[h].found]]
        /\ earlyAnswers' = IF search[h].whole THEN earlyAnswers \ {q} ELSE earlyAnswers \cup {q}
        /\ search' = [search EXCEPT ![h] = Index!Rest]
    BY <1>5 DEF Index!Keeps
  <2>2. /\ q \in Index!Queries /\ search[h].found \subseteq Index!Table
        /\ search[h].whole => search[h].found = Right(q)
    BY <1>3, <1>5, <2>1 DEF AirAnswers, AirSearches
  <2> HIDE DEF q
  <2>3. /\ cache' \in [Index!Queries -> [kept : BOOLEAN, found : SUBSET Index!Table]]
        /\ search' \in [Http -> AirSearches] /\ earlyAnswers' \subseteq Index!Queries
    BY <1>3, <1>5, <2>1, <2>2
  <2>4. AirAnswers'
    BY <1>3, <1>5, <2>1, <2>2 DEF AirAnswers
  <2> QED
    BY <2>3, <2>4
<1>6. ASSUME h \in Http, NEW q \in Index!Queries, Index!Ask(h, q) PROVE Parts
  BY <1>6, <1>3 DEF Index!Ask, Index!history, AirSearches, AirAnswers
<1>7. ASSUME NEW q \in Index!Queries, Index!Expires(q) PROVE Parts
  BY <1>7, <1>3 DEF Index!Expires, Index!None, AirAnswers
<1>8. Parts
  BY <1>4, <1>5, <1>6, <1>7
<1> QED
  BY <1>1, <1>2, <1>8 DEF AirShapes

LEMMA AirNext == ASSUME AirInv, Index!Next PROVE AirInv'
  BY AirSearch, AirSyncs, AirEvents DEF Index!Next

LEMMA AirStutters == ASSUME AirInv, UNCHANGED Index!vars PROVE AirInv'
  BY AirAnswersStay DEF Index!vars, AirInv, AirShapes, AirRows, AirEmptied,
     Index!IndexWhole, Index!Whole

LEMMA AirPromises == ASSUME AirInv PROVE Index!IndexConsistent
  BY DEF AirInv, AirEmptied, AirAnswers, Right, Index!IndexConsistent,
      Index!NotEmptied, Index!AnswersWhole

-----------------------------------------------------------------------------
(* Compensation.                                                           *)

\* What an eligible claim is worth before the deduction of Malta, by its class.
LEMMA WorthValues ==
  ASSUME NEW f \in Compensation!Facts
  PROVE  /\ f.distance \in Nat /\ f.late \in Nat /\ f.denied \in BOOLEAN
         /\ f.alternative \in BOOLEAN /\ f.malta \in BOOLEAN
         /\ Compensation!Class(f) = IF f.distance <= 1500 THEN 1 ELSE IF f.distance <= 3500 THEN 2 ELSE 3
         /\ Compensation!Base(f) = IF f.distance <= 1500 THEN 250
                                   ELSE IF f.distance <= 3500 THEN 400 ELSE 600
         /\ Compensation!Base(f) \div 2 = IF f.distance <= 1500 THEN 125
                                          ELSE IF f.distance <= 3500 THEN 200 ELSE 300
         /\ f.distance # 0 => Compensation!Worth(f) =
              IF ~Compensation!Eligible(f) THEN 0
              ELSE (IF Compensation!Halved(f) THEN Compensation!Base(f) \div 2 ELSE Compensation!Base(f))
                   - (IF f.malta THEN 50 ELSE 0)
<1>1. /\ f.distance \in Nat /\ f.late \in Nat /\ f.denied \in BOOLEAN
      /\ f.alternative \in BOOLEAN /\ f.malta \in BOOLEAN
  BY SideAssumption DEF Compensation!Facts
<1>2. Compensation!Class(f) = IF f.distance <= 1500 THEN 1 ELSE IF f.distance <= 3500 THEN 2 ELSE 3
  BY DEF Compensation!Class
<1>3. Compensation!Base(f) = IF f.distance <= 1500 THEN 250
                             ELSE IF f.distance <= 3500 THEN 400 ELSE 600
  BY <1>1, <1>2 DEF Compensation!Base
<1>4. 250 \div 2 = 125 /\ 400 \div 2 = 200 /\ 600 \div 2 = 300
  OBVIOUS
<1>5. Compensation!Base(f) \div 2 = IF f.distance <= 1500 THEN 125
                                    ELSE IF f.distance <= 3500 THEN 200 ELSE 300
  BY <1>3, <1>4
<1>6. f.distance # 0 => Compensation!Worth(f) =
        IF ~Compensation!Eligible(f) THEN 0
        ELSE (IF Compensation!Halved(f) THEN Compensation!Base(f) \div 2 ELSE Compensation!Base(f)) - (IF f.malta THEN 50 ELSE 0)
  BY DEF Compensation!Worth, Compensation!Amount
<1> QED
  BY <1>1, <1>2, <1>3, <1>5, <1>6

\* Whoever is eligible no less, flew no less and is halved no more gets no less.
LEMMA WorthGrows ==
  ASSUME NEW f \in Compensation!Facts, NEW g \in Compensation!Facts, f.distance # 0,
         f.distance <= g.distance,
         f.malta = g.malta, Compensation!Eligible(f) => Compensation!Eligible(g),
         Compensation!Halved(g) => Compensation!Halved(f)
  PROVE  Compensation!Worth(f) <= Compensation!Worth(g)
<1>1. f.distance \in Nat /\ g.distance \in Nat /\ g.distance # 0 /\ f.malta \in BOOLEAN
  BY WorthValues
<1> DEFINE Short(d) == IF d <= 1500 THEN 125 ELSE IF d <= 3500 THEN 200 ELSE 300
           Whole(d) == IF d <= 1500 THEN 250 ELSE IF d <= 3500 THEN 400 ELSE 600
           Deducted == IF f.malta THEN 50 ELSE 0
           Paid(p, d) == IF Compensation!Halved(p) THEN Short(d) ELSE Whole(d)
<1>2. /\ Compensation!Worth(f) = IF ~Compensation!Eligible(f) THEN 0 ELSE Paid(f, f.distance) - Deducted
      /\ Compensation!Worth(g) = IF ~Compensation!Eligible(g) THEN 0 ELSE Paid(g, g.distance) - Deducted
  BY <1>1, WorthValues
<1>3. Deducted \in {0, 50}
  OBVIOUS
<1>4. /\ Short(f.distance) <= Short(g.distance)
      /\ Whole(f.distance) <= Whole(g.distance)
      /\ Short(f.distance) <= Whole(g.distance)
      /\ Short(f.distance) \in Nat /\ Whole(f.distance) \in Nat
      /\ Short(g.distance) \in Nat /\ Whole(g.distance) \in Nat
      /\ Short(g.distance) > 50 /\ Whole(g.distance) > 50
  BY <1>1
<1> HIDE DEF Short, Whole, Deducted
<1> QED
  BY <1>2, <1>3, <1>4

LEMMA WorthPromises == ASSUME WorthInv PROVE Compensation!AmountsConsistent
<1> SUFFICES ASSUME Compensation!Answered PROVE Compensation!AmountsConsistent
  BY DEF Compensation!AmountsConsistent, Compensation!FavourNeverCosts,
      Compensation!DistanceNeverCosts, Compensation!EligibleIsWorth
<1>1. /\ facts \in Compensation!Facts /\ answer = Compensation!Worth(facts)
      /\ facts.distance # 0
      /\ facts.late \in Nat /\ facts.distance \in Nat
  BY WorthValues DEF Compensation!Answered, WorthInv, Compensation!Worth
<1>2. Compensation!With("denied", FALSE) <= answer
  <2> DEFINE g == [facts EXCEPT !.denied = FALSE]
  <2>1. /\ g \in Compensation!Facts /\ g.distance = facts.distance
        /\ g.delay = facts.delay
        /\ g.notice = facts.notice /\ g.alternative = facts.alternative
        /\ g.late = facts.late /\ g.malta = facts.malta /\ ~g.denied
    BY <1>1 DEF Compensation!Facts
  <2>2. Compensation!With("denied", FALSE) = Compensation!Worth(g)
    BY DEF Compensation!With
  <2> HIDE DEF g
  <2>3. Compensation!Eligible(g) => Compensation!Eligible(facts)
    BY <2>1 DEF Compensation!Eligible, Compensation!Excluded,
        Compensation!Late, Compensation!Cancelled
  <2>4. Compensation!Class(g) = Compensation!Class(facts) /\ Compensation!Class(facts) \in {1, 2, 3}
    BY <1>1, <2>1 DEF Compensation!Class
  <2>5. Compensation!Halved(facts) => Compensation!Halved(g)
    BY <1>1, <2>1, <2>4 DEF Compensation!Halved, Compensation!Cancelled,
        Compensation!WithinThreshold
  <2>6. Compensation!Worth(g) <= answer
    BY <1>1, <2>1, <2>3, <2>5, WorthGrows
  <2> QED
    BY <2>2, <2>6
<1>3. Compensation!With("alternative", TRUE) <= answer
  <2> DEFINE g == [facts EXCEPT !.alternative = TRUE]
  <2>1. /\ g \in Compensation!Facts /\ g.distance = facts.distance
        /\ g.delay = facts.delay
        /\ g.notice = facts.notice /\ g.denied = facts.denied
        /\ g.late = facts.late /\ g.malta = facts.malta /\ g.alternative
    BY <1>1 DEF Compensation!Facts
  <2>2. Compensation!With("alternative", TRUE) = Compensation!Worth(g)
    BY DEF Compensation!With
  <2> HIDE DEF g
  <2>3. Compensation!Eligible(g) => Compensation!Eligible(facts)
    BY <2>1 DEF Compensation!Eligible, Compensation!Excluded,
        Compensation!Late, Compensation!Cancelled
  <2>4. Compensation!Class(g) = Compensation!Class(facts) /\ Compensation!Class(facts) \in {1, 2, 3}
    BY <1>1, <2>1 DEF Compensation!Class
  <2>5. Compensation!Halved(facts) => Compensation!Halved(g)
    BY <1>1, <2>1, <2>4 DEF Compensation!Halved, Compensation!Cancelled,
        Compensation!WithinThreshold
  <2>6. Compensation!Worth(g) <= answer
    BY <1>1, <2>1, <2>3, <2>5, WorthGrows
  <2> QED
    BY <2>2, <2>6
<1>4. ASSUME NEW h \in Delays, h < facts.late
      PROVE  Compensation!With("late", h) <= answer
  <2> DEFINE g == [facts EXCEPT !.late = h]
  <2>1. /\ g \in Compensation!Facts /\ g.distance = facts.distance
        /\ g.delay = facts.delay
        /\ g.notice = facts.notice /\ g.denied = facts.denied
        /\ g.alternative = facts.alternative /\ g.malta = facts.malta /\ g.late = h
    BY <1>1 DEF Compensation!Facts
  <2>2. Compensation!With("late", h) = Compensation!Worth(g)
    BY DEF Compensation!With
  <2>3. h \in Nat
    BY SideAssumption
  <2> HIDE DEF g
  <2>4. Compensation!Class(g) = Compensation!Class(facts) /\ Compensation!Class(facts) \in {1, 2, 3}
    BY <1>1, <2>1 DEF Compensation!Class
  <2>5. Compensation!Eligible(g) => Compensation!Eligible(facts)
    BY <2>1 DEF Compensation!Eligible, Compensation!Excluded,
        Compensation!Late, Compensation!Cancelled
  <2>6. Compensation!Halved(facts) => Compensation!Halved(g)
    BY <1>1, <1>4, <2>1, <2>3, <2>4 DEF Compensation!Halved,
        Compensation!Cancelled, Compensation!WithinThreshold
  <2> QED
    BY <1>1, <2>1, <2>2, <2>5, <2>6, WorthGrows
<1>5. ASSUME NEW d \in Distances \ {0}, d < facts.distance,
             ~(Compensation!Halved(facts) /\ ~Compensation!Halved([facts EXCEPT !.distance = d]))
      PROVE  Compensation!Worth([facts EXCEPT !.distance = d]) <= answer
  <2> DEFINE g == [facts EXCEPT !.distance = d]
  <2>1. /\ g \in Compensation!Facts /\ g.distance = d /\ g.delay = facts.delay
        /\ g.notice = facts.notice /\ g.denied = facts.denied
        /\ g.alternative = facts.alternative /\ g.malta = facts.malta
        /\ d \in Nat /\ d # 0
    BY <1>1, SideAssumption DEF Compensation!Facts
  <2>2. Compensation!Halved(facts) => Compensation!Halved(g)
    BY <1>5
  <2> HIDE DEF g
  <2>3. Compensation!Eligible(g) => Compensation!Eligible(facts)
    BY <2>1 DEF Compensation!Eligible, Compensation!Excluded,
        Compensation!Late, Compensation!Cancelled
  <2>4. Compensation!Worth(g) <= answer
    BY <1>1, <1>5, <2>1, <2>2, <2>3, WorthGrows
  <2> QED
    BY <2>4 DEF g
<1>6. Compensation!Eligible(facts) =>
        /\ answer > 0
        /\ 2 * (answer + IF facts.malta THEN 50 ELSE 0) >= Compensation!Base(facts)
  BY <1>1, WorthValues
<1> QED
  BY <1>2, <1>3, <1>4, <1>5, <1>6
    DEF Compensation!AmountsConsistent, Compensation!FavourNeverCosts,
        Compensation!DistanceNeverCosts, Compensation!EligibleIsWorth

LEMMA WorthInit == ASSUME Compensation!Init PROVE WorthInv
  BY DEF Compensation!Init, WorthInv

LEMMA WorthNext == ASSUME WorthInv, Compensation!Next PROVE WorthInv'
  BY DEF Compensation!Next, Compensation!Ask, WorthInv

LEMMA WorthStutters == ASSUME WorthInv, UNCHANGED Compensation!vars PROVE WorthInv'
  BY DEF Compensation!vars, Compensation!Worth, WorthInv

-----------------------------------------------------------------------------

\* So does one of what the back office sees.
LEMMA ViewMoves ==
  ASSUME [Next]_vars, moving = "views"
  PROVE  moving' = "views" /\ [Views!Next]_(Views!vars)
  BY DEF vars, viewVars, Views!vars, Next, MoveAccounts, MoveDiscrepancies,
     MoveAssignments, MoveLinks, MoveViews, MovePartners, MoveLetters, MoveCompensation,
     MovePayments, MoveAirports

LEMMA ViewInvariant == Spec => [](moving = "views" => ViewInv)
<1> DEFINE Inv == moving = "views" => ViewInv
<1>1. Init => Inv
  BY ViewInit DEF Init
<1>2. Inv /\ [Next]_vars => Inv'
  BY ViewMoves, ViewNext, ViewStutters, SideAssumption DEF Next, vars, MoveAccounts,
     MoveDiscrepancies, MoveAssignments, MoveLinks, MoveViews, MovePartners, MoveLetters,
     MoveCompensation, MovePayments, MoveAirports
<1> QED
  BY <1>1, <1>2, PTL DEF Spec

\* So does one of the airports.
LEMMA AirMoves ==
  ASSUME [Next]_vars, moving = "airports"
  PROVE  moving' = "airports" /\ [Index!Next]_(Index!vars)
  BY DEF vars, indexVars, Index!vars, Next, MoveAccounts, MoveDiscrepancies,
     MoveAssignments, MoveLinks, MoveViews, MovePartners, MoveLetters, MoveCompensation,
     MovePayments, MoveAirports

LEMMA AirInvariant == Spec => [](moving = "airports" => AirInv)
<1> DEFINE Inv == moving = "airports" => AirInv
<1>1. Init => Inv
  BY AirInit DEF Init
<1>2. Inv /\ [Next]_vars => Inv'
  BY AirMoves, AirNext, AirStutters, SideAssumption DEF Next, vars, MoveAccounts,
     MoveDiscrepancies, MoveAssignments, MoveLinks, MoveViews, MovePartners, MoveLetters,
     MoveCompensation, MovePayments, MoveAirports
<1> QED
  BY <1>1, <1>2, PTL DEF Spec

\* So does one of the compensation.
LEMMA WorthMoves ==
  ASSUME [Next]_vars, moving = "compensation"
  PROVE  moving' = "compensation" /\ [Compensation!Next]_(Compensation!vars)
  BY DEF vars, Compensation!vars, Next, MoveAccounts, MoveDiscrepancies,
     MoveAssignments, MoveLinks, MoveViews, MovePartners, MoveLetters, MoveCompensation,
     MovePayments, MoveAirports

LEMMA WorthInvariant == Spec => [](moving = "compensation" => WorthInv)
<1> DEFINE Inv == moving = "compensation" => WorthInv
<1>1. Init => Inv
  BY WorthInit DEF Init
<1>2. Inv /\ [Next]_vars => Inv'
  BY WorthMoves, WorthNext, WorthStutters, SideAssumption DEF Next, vars,
     MoveAccounts, MoveDiscrepancies, MoveAssignments, MoveLinks, MoveViews,
     MovePartners, MoveLetters, MoveCompensation, MovePayments, MoveAirports
<1> QED
  BY <1>1, <1>2, PTL DEF Spec

\* Whatever claims come, change hands or go while staff turn the pages of a list
\* or count the claims, for any number of claims, size of the page and number of
\* requests: nobody who reads to the end misses a claim that stayed in its place,
\* the numbers of the statistics agree, and news nobody has seen is shown, unless
\* the request that marks it as seen met the one that brings it; however a start
\* of the process finds the index of the airports, it has all of them or the
\* errors and stops that befell it, and the answers kept are right; and for any
\* distances and delays a fact in the passenger's favour never costs
\* (claim-search.service.ts, claim-stats.service.ts, recent-updates.service.ts,
\* claim.service.ts, search-sync.service.ts, airport.gateway.ts).
THEOREM SpecViewsConsistent == Spec => []ViewsConsistent
<1>1. /\ moving = "views" => ViewInv
      /\ moving = "airports" => AirInv
      /\ moving = "compensation" => WorthInv
      => ViewsConsistent
  BY ViewPromises, AirPromises, WorthPromises DEF ViewsConsistent
<1> QED
  BY <1>1, ViewInvariant, AirInvariant, WorthInvariant, PTL

=============================================================================
