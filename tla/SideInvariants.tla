---------------------------- MODULE SideInvariants ----------------------------
(***************************************************************************)
(* The inductive invariants of the side components, and what their proofs  *)
(* in SideComponentsProofs speak of: where a request is, and what it holds *)
(* that another one may have changed since.                                *)
(***************************************************************************)
EXTENDS MCSideComponents, Sequences

-----------------------------------------------------------------------------
(* Links of passengers.                                                    *)

\* A link is held by the requests that open or use it; Late ones are past the
\* check of its token, and Before its use.
Holds(h, l) == linkRequest[h].op \in {"open", "sign", "upload"} /\ Links!Link(h) = l

Late(h) == linkRequest[h].op \in {"sign", "upload"} /\ linkRequest[h].at # "verify"

Before(h) ==
  /\ Late(h) /\ linkRequest[h].at # "mark"
  /\ linkRequest[h].at = "close" => Links!Of(h) # Customer

LinkRequests ==
  [op : {"rest", "copy", "open", "sign", "upload"},
   at : {"rest", "read", "upsert", "link", "get", "verify", "mark", "revoke",
         "save", "passenger", "parents", "close", "enqueue"},
   of : Links!Passengers, kind : Links!Kinds, link : Nat, minor : BOOLEAN, requires : BOOLEAN]

People == [minor : BOOLEAN, birthday : BOOLEAN, parents : BOOLEAN,
           asked : BOOLEAN, signed : BOOLEAN]

LinkRows == [of : Links!Passengers, kind : Links!Kinds, minor : BOOLEAN, requires : BOOLEAN,
             short : {"sending", "kept", "gone"},
             token : {"good", "revoked", "expired"}, resolved : BOOLEAN]

LinkShapes ==
  /\ holder \in [Links!Passengers -> People]
  /\ copied \in [Links!Passengers -> [Links!Kinds -> [made : BOOLEAN, opened : BOOLEAN]]]
  /\ links \in Seq(LinkRows)
  /\ linkRequest \in [Http -> LinkRequests]
  /\ used \in Seq(Nat) /\ Len(used) = Len(links)
  /\ seen \subseteq DOMAIN links

LinkSteps ==
  \A h \in Http :
    /\ linkRequest[h].op = "rest" => linkRequest[h] = Links!Rest
    /\ linkRequest[h].op = "copy" => linkRequest[h].at \in {"read", "upsert", "link"}
    /\ linkRequest[h].op = "open" => linkRequest[h].at \in {"get", "verify", "mark"}
    /\ linkRequest[h].op = "upload" => linkRequest[h].at \in {"verify", "revoke", "save"}
    /\ linkRequest[h].op = "sign" =>
         linkRequest[h].at \in {"verify", "revoke", "passenger", "parents", "close",
                                "enqueue", "mark"}
    /\ linkRequest[h].op \in {"open", "sign", "upload"} => Links!Link(h) \in DOMAIN links
    /\ linkRequest[h].at = "upsert" => linkRequest[h].of # Customer
    /\ Links!At(h, "open", "mark") => Links!Of(h) # Customer
    /\ Links!At(h, "sign", "parents") => Links!Of(h) # Customer

\* Where links and their records were made for whom.
LinkRecords ==
  /\ ~holder[Customer].minor
  /\ \A k \in Links!Kinds : ~copied[Customer][k].made
  /\ \A p \in Links!Passengers, k \in Links!Kinds : copied[p][k].opened => copied[p][k].made
  /\ \A h \in Http : Links!At(h, "copy", "link") /\ linkRequest[h].of # Customer =>
                       copied[linkRequest[h].of][linkRequest[h].kind].made
  /\ \A l \in DOMAIN links : links[l].of # Customer =>
                               copied[links[l].of][links[l].kind].made

\* A link to a minor asks for the parents unless they were given meanwhile.
LinkAsks ==
  /\ \A h \in Http : linkRequest[h].op = "copy" /\ linkRequest[h].at # "read"
                     /\ linkRequest[h].minor /\ ~holder[linkRequest[h].of].parents
                     => linkRequest[h].requires
  /\ \A l \in DOMAIN links : links[l].minor /\ ~holder[links[l].of].parents
                             => links[l].requires
  /\ \A h \in Http : linkRequest[h].op = "sign" /\ linkRequest[h].minor
                     /\ linkRequest[h].at \in {"close", "enqueue", "mark"}
                     => holder[Links!Of(h)].parents

\* Used only behind the check, and once by a request that holds it alone.
LinkUses ==
  /\ \A h \in Http : Late(h) /\ linkRequest[h].at # "revoke" =>
                       links[Links!Link(h)].token # "good"
  /\ \A h \in Http : Late(h) /\ ~Before(h) => used[Links!Link(h)] > 0
  /\ \A l \in DOMAIN links : links[l].token = "good" => used[l] = 0

LinkSole ==
  \A l \in DOMAIN links \ linkMet :
    /\ used[l] <= 1
    /\ \A h \in Http : Holds(h, l) => /\ Before(h) => used[l] = 0
                                      /\ \A k \in Http : Holds(k, l) => k = h

LinkSpent ==
  \A l \in DOMAIN links :
    links[l].token = "revoked" =>
      \/ used[l] > 0 \/ l \in linkBroken
      \/ \E h \in Http : Late(h) /\ Links!Link(h) = l
      \/ <<l, "parents">> \in refused /\ ~links[l].minor
      \/ <<l, "birthday">> \in refused

LinkClosed ==
  \A p \in Links!Passengers :
    \/ holder[p].asked
    \/ \E l \in DOMAIN links :
         /\ links[l].of = p
         /\ \/ used[l] > 0 \/ l \in linkBroken \/ <<l, "birthday">> \in refused
            \/ \E h \in Http : Links!At(h, "sign", "enqueue") /\ Links!Link(h) = l

LinkInv ==
  /\ LinkShapes /\ LinkSteps /\ LinkRecords /\ LinkAsks
  /\ LinkUses /\ LinkSole /\ LinkSpent /\ LinkClosed /\ Links!OpenedStaysOpened

-----------------------------------------------------------------------------
(* Discrepancies.                                                          *)

HubDocs == [type : Hub!Types, passenger : Travellers, live : BOOLEAN, signed : BOOLEAN,
            sentFor : Travellers, edited : BOOLEAN]

HubRows == [type : {"SIGNATURE", "PASSENGER"}, docs : Seq(Nat), passenger : Travellers,
            active : BOOLEAN, by : {"refresh", "names", "pair", "staff"}, met : BOOLEAN]

HubTasks == [at : {"rest", "read", "row", "signPassport", "signAssignment", "rows",
                   "document"},
             op : {"none", "refresh", "names", "pair", "remove"},
             row : Nat, passport : Nat, assignment : Nat, score : BOOLEAN,
             beside : SUBSET Nat]

HubShapes ==
  /\ docs \in Seq(HubDocs) /\ Len(docs) <= (Limit - 1)
  /\ rows \in Seq(HubRows)
  /\ task \in [Hub!Tasks -> HubTasks]
  /\ failed \subseteq DOMAIN docs

\* A document a task or a row speaks of, of a type that staff may have changed.
HubDoc(d, type) == d \in DOMAIN docs /\ (docs[d].type = type \/ docs[d].edited)

\* The documents a row is about.
HubAbout ==
  \A n \in DOMAIN rows :
    \/ /\ rows[n].type = "PASSENGER" /\ Len(rows[n].docs) = 1
       /\ HubDoc(rows[n].docs[1], "PASSPORT")
    \/ /\ rows[n].type = "SIGNATURE" /\ Len(rows[n].docs) = 2
       /\ \/ HubDoc(rows[n].docs[1], "PASSPORT") /\ HubDoc(rows[n].docs[2], "ASSIGNMENT")
          \/ HubDoc(rows[n].docs[1], "ASSIGNMENT") /\ HubDoc(rows[n].docs[2], "PASSPORT")

\* What the tasks do, and what they read of the documents and rows.
HubStep(k) ==
  /\ task[k].op = "none" => task[k] = Hub!Rest
  /\ k \in Http => task[k].op \in {"none", "refresh", "remove"}
  /\ k \notin Http /\ task[k].op # "none" =>
       task[k].op = k[2] /\ Hub!Doc(k) \in DOMAIN docs
  /\ task[k].op = "remove" =>
       /\ task[k].at \in {"rows", "document"} /\ task[k].passport \in DOMAIN docs
  /\ task[k].op = "names" => task[k].at = "read" /\ HubDoc(Hub!Doc(k), "PASSPORT")
  /\ task[k].op = "refresh" =>
       /\ task[k].at \in {"read", "row"}
       /\ task[k].row = 0 \/ task[k].row \in DOMAIN rows
       /\ task[k].at = "row" =>
            /\ task[k].row \in Hub!Signatures
            /\ HubDoc(task[k].passport, "PASSPORT")
            /\ HubDoc(task[k].assignment, "ASSIGNMENT")
  /\ task[k].op = "pair" =>
       /\ task[k].at \in {"read", "signPassport", "signAssignment", "row"}
       /\ HubDoc(Hub!Doc(k), "ASSIGNMENT")
       /\ task[k].at # "read" =>
            /\ HubDoc(task[k].passport, "PASSPORT")
            /\ \/ docs[task[k].passport].sentFor = docs[Hub!Doc(k)].sentFor
               \/ docs[task[k].passport].edited
            /\ ~task[k].score => Hub!Doc(k) \in failed
       /\ task[k].at = "row" => task[k].score

HubSteps == \A k \in Hub!Tasks : HubStep(k)

\* The document a task is to make an active row of.
HubFirst(k, d) ==
  \/ task[k].op \in {"names", "pair"} /\ d = Hub!Doc(k)
  \/ task[k].op = "refresh" /\ task[k].at = "row" /\ d = task[k].passport

\* A task knows the removals in progress, and its document is there or was
\* removed beside it.
HubMeets ==
  \A k \in Hub!Tasks :
    /\ task[k].op \in {"refresh", "names", "pair"} => Hub!Leaving \subseteq task[k].beside
    /\ \A d \in DOMAIN docs : HubFirst(k, d) => docs[d].live \/ d \in task[k].beside

\* Where a removal closed the rows, those that are active met it.
HubCloses ==
  \A h \in Http :
    Hub!At(h, "remove", "document") =>
      \A n \in DOMAIN rows :
        rows[n].docs[1] = task[h].passport /\ rows[n].active
          => rows[n].met \/ rows[n].by = "staff"

\* A document nobody edited is of the passenger it was sent for, and a row
\* names a passenger some document was sent for.
HubOwn ==
  /\ \A d \in DOMAIN docs : docs[d].edited \/ docs[d].passenger = docs[d].sentFor
  /\ \A n \in DOMAIN rows : \E d \in DOMAIN docs : docs[d].sentFor = rows[n].passenger

\* The documents of a row were sent for its passenger, with the exceptions of
\* RowsOfOwnPassenger.
HubNames(row) ==
  \/ docs[row.docs[1]].edited \/ docs[row.docs[2]].edited
  \/ /\ docs[row.docs[1]].sentFor = row.passenger
     /\ docs[row.docs[2]].sentFor = row.passenger
  \/ /\ row.by \in {"refresh", "staff"}
     /\ \E d, e \in DOMAIN docs : docs[d].sentFor # docs[e].sentFor

HubNamed == \A n \in Hub!Signatures : HubNames(rows[n])

HubInv ==
  /\ HubShapes /\ HubAbout /\ HubSteps /\ HubMeets /\ HubCloses /\ HubOwn
  /\ Hub!ActiveRowsLive /\ HubNamed /\ Hub!PairsCompared

\* The documents are alike: what is known of their signatures changed, or staff
\* gave one another type or passenger.
HubAlike ==
  /\ DOMAIN docs' = DOMAIN docs
  /\ \A d \in DOMAIN docs :
       /\ docs'[d].live = docs[d].live /\ docs'[d].sentFor = docs[d].sentFor
       /\ docs[d].edited => docs'[d].edited
       /\ ~docs'[d].edited => /\ docs'[d].type = docs[d].type
                              /\ docs'[d].passenger = docs[d].passenger

-----------------------------------------------------------------------------
(* Signed assignments.                                                     *)

AsgPeople == [name : Nat, minor : BOOLEAN]

AsgDocs == [sig : Nat, passenger : Assignments!Passengers, name : Nat, flight : Nat,
            layout : Assignments!Layouts, type : Assignments!Types, live : BOOLEAN]

AsgOwners == {<<>>} \cup UNION {[S -> Assignments!Passengers] : S \in SUBSET Nat}

AsgRequests == [op : {"rest", "sign", "edit"},
                at : {"rest", "passenger", "claim", "enqueue", "read", "next",
                      "remove", "save"},
                n : Nat, of : SUBSET Assignments!Passengers, name : Nat, minor : BOOLEAN,
                people : [Assignments!Passengers -> AsgPeople] \cup {<<>>}, flight : Nat,
                owner : AsgOwners, todo : SUBSET Nat, doc : Nat]

AsgShapes ==
  /\ person \in [Assignments!Passengers -> AsgPeople] /\ flight \in Nat /\ moved \in Nat
  /\ assignments \in Seq(AsgDocs) /\ jobs \in Seq(AsgDocs)
  /\ assignmentRequest \in [Http -> AsgRequests]
  /\ assignmentSpent \in Nat
  /\ edited # {} => Assignments!Unsigned \in edited

AsgStepOf(h) ==
  /\ assignmentRequest[h].op = "rest" => assignmentRequest[h] = Assignments!Rest
  /\ assignmentRequest[h].op = "sign" =>
       /\ assignmentRequest[h].at \in {"passenger", "claim", "enqueue"}
       /\ \E p \in Assignments!Passengers : assignmentRequest[h].of = {p}
  /\ assignmentRequest[h].op = "edit" =>
       /\ assignmentRequest[h].at \in {"read", "next", "remove", "save"}
       /\ assignmentRequest[h].at # "read" =>
            /\ assignmentRequest[h].people \in [Assignments!Passengers -> AsgPeople]
            /\ assignmentRequest[h].owner \in AsgOwners
            /\ \A d \in assignmentRequest[h].todo :
                 /\ d \in DOMAIN assignments /\ d \in DOMAIN assignmentRequest[h].owner
                 /\ assignmentRequest[h].owner[d] \in assignmentRequest[h].of
                 /\ assignments[d].sig \in edited
                      \/ assignmentRequest[h].owner[d] = assignments[d].passenger
       /\ assignmentRequest[h].at \in {"remove", "save"} => assignmentRequest[h].doc \in assignmentRequest[h].todo
       /\ assignmentRequest[h].at = "save" =>
            Assignments!SignatureFound(h) \/ Assignments!Needed(h) = "regular"

AsgSteps == \A h \in Http : AsgStepOf(h)

\* Each signature has a number of its own: a request's, a job's or that of the
\* documents filled in for it, and a job's only after a restart also that of a
\* document.  Of the documents staff edited nothing is said.
Signs(h, s) == assignmentRequest[h].op = "sign" /\ assignmentRequest[h].n = s

AsgNumbers ==
  /\ \A d \in DOMAIN assignments : assignments[d].sig <= assignmentSpent
  /\ \A i \in DOMAIN jobs : jobs[i].sig <= assignmentSpent
  /\ \A h \in Http : assignmentRequest[h].n <= assignmentSpent

AsgSigs ==
  /\ \A d \in DOMAIN assignments : assignments[d].sig \in edited \/ assignments[d].type = "ASSIGNMENT"
  /\ \A d, e \in DOMAIN assignments : assignments[d].sig = assignments[e].sig =>
       assignments[d].sig \in edited \/ assignments[d].passenger = assignments[e].passenger
  /\ \A d \in DOMAIN assignments, i \in DOMAIN jobs : assignments[d].sig = jobs[i].sig =>
       \/ assignments[d].sig \in edited
       \/ assignments[d].passenger = jobs[i].passenger /\ jobs[i].passenger \in assignmentBroken
  /\ \A i, j \in DOMAIN jobs : jobs[i].sig = jobs[j].sig => i = j
  /\ \A h \in Http, d \in DOMAIN assignments :
       assignments[d].sig \in edited \/ ~Signs(h, assignments[d].sig)
  /\ \A h \in Http, i \in DOMAIN jobs : ~Signs(h, jobs[i].sig)
  /\ \A h, k \in Http : Signs(h, assignmentRequest[k].n) /\ assignmentRequest[k].op = "sign" => h = k

\* Of a passenger nothing has disturbed, one edit is in progress.
Clear(p) == p \notin assignmentMet /\ p \notin assignmentBroken

\* Nothing has disturbed the passenger of a document that staff did not edit.
Fair(d) == assignments[d].sig \notin edited /\ Clear(assignments[d].passenger)

AsgAlone ==
  \A h, k \in Http, p \in Assignments!Passengers :
    /\ assignmentRequest[h].op = "edit" /\ assignmentRequest[k].op = "edit"
    /\ p \in assignmentRequest[h].of /\ p \in assignmentRequest[k].of /\ Clear(p)
    => h = k

\* Data of a passenger and of the flight that are those of the claim.
Says(p, name, day) == name = person[p].name /\ (day = flight \/ flight = moved)

SignFits(h) ==
  assignmentRequest[h].op = "sign" =>
    \A p \in Assignments!Passengers : assignmentRequest[h].of = {p} =>
      /\ assignmentRequest[h].minor => person[p].minor
      /\ Clear(p) =>
           /\ assignmentRequest[h].at = "claim" /\ p # Customer => assignmentRequest[h].name = person[p].name
           /\ assignmentRequest[h].at = "enqueue" => Says(p, assignmentRequest[h].name, assignmentRequest[h].flight)

AsgSigns == \A h \in Http : SignFits(h)

JobFits(i) ==
  /\ jobs[i].live /\ jobs[i].type = "ASSIGNMENT"
  /\ jobs[i].layout = "parental" => person[jobs[i].passenger].minor
  /\ Clear(jobs[i].passenger) => Says(jobs[i].passenger, jobs[i].name, jobs[i].flight)

AsgJobs == \A i \in DOMAIN jobs : JobFits(i)

\* What an edit has read is true of those nothing disturbed, and the documents it
\* has to do are there, but for the one it is about to save again.
EditFits(h) ==
  assignmentRequest[h].op = "edit" /\ assignmentRequest[h].at # "read" =>
    /\ \A p \in Assignments!Passengers : assignmentRequest[h].people[p].minor => person[p].minor
    /\ \A p \in assignmentRequest[h].of : Clear(p) =>
         Says(p, assignmentRequest[h].people[p].name, assignmentRequest[h].flight)
    /\ \A d \in assignmentRequest[h].todo :
         /\ assignments[d].sig \in edited \/ (assignments[d].layout = "parental"
              => assignmentRequest[h].people[assignments[d].passenger].minor)
         /\ Fair(d) /\ ~(assignmentRequest[h].at = "save" /\ assignmentRequest[h].doc = d)
              => assignments[d].live
    /\ assignmentRequest[h].at = "save" =>
         /\ ~assignments[assignmentRequest[h].doc].live
         /\ Fair(assignmentRequest[h].doc) =>
              /\ assignments[assignmentRequest[h].doc].sig \notin removed
              /\ \A e \in DOMAIN assignments :
                   assignments[e].sig = assignments[assignmentRequest[h].doc].sig => ~assignments[e].live

AsgEdits == \A h \in Http : EditFits(h)

\* A document says what the claim says, or an edit has it to do.
Does(h, d) ==
  /\ assignmentRequest[h].op = "edit" /\ assignments[d].passenger \in assignmentRequest[h].of
  /\ assignmentRequest[h].at = "read" \/ d \in assignmentRequest[h].todo

Outgrown(d) == person[assignments[d].passenger].minor /\ assignments[d].layout = "regular"

DocSays(d) ==
  assignments[d].live =>
    \/ Outgrown(d) \/ ~Fair(d)
    \/ Says(assignments[d].passenger, assignments[d].name, assignments[d].flight)
    \/ \E h \in Http : Does(h, d)

DocStays(d) ==
  /\ assignments[d].sig \in edited
     \/ (assignments[d].layout = "parental" => person[assignments[d].passenger].minor)
  /\ assignments[d].live /\ assignments[d].sig \in removed => ~Fair(d)

SavesAgain(h, s) == Assignments!At(h, "edit", "save") /\ assignments[assignmentRequest[h].doc].sig = s

DocKept(d) ==
  \/ assignments[d].sig \in removed \/ assignments[d].sig \in edited
  \/ assignments[d].passenger \in assignmentBroken
  \/ \E e \in DOMAIN assignments : assignments[e].live /\ assignments[e].sig = assignments[d].sig
  \/ \E h \in Http : SavesAgain(h, assignments[d].sig)

AsgDocsFit == \A d \in DOMAIN assignments : DocSays(d) /\ DocStays(d) /\ DocKept(d)

\* One document of a signature is there.
AsgOnce ==
  \A d, e \in DOMAIN assignments :
    assignments[d].live /\ assignments[e].live /\ assignments[d].sig = assignments[e].sig =>
      d = e \/ ~Fair(d)

AsgRemoved == \A s \in removed : \E d \in DOMAIN assignments : assignments[d].sig = s

AsgInv ==
  /\ AsgShapes /\ AsgSteps /\ AsgNumbers /\ AsgSigs /\ AsgAlone
  /\ AsgSigns /\ AsgJobs /\ AsgEdits
  /\ AsgDocsFit /\ AsgOnce /\ AsgRemoved

\* What every step leaves as it is: a document only goes, and is what it was
\* unless staff edit it, a minor stays one, and
\* of one nothing disturbs the data stay while something is pending, but for the
\* day the flight's job has found.
AsgDataOf(p) ==
  /\ person'[p].name = person[p].name
  /\ (flight' = flight /\ moved' = moved) \/ flight' = moved'

AsgOn ==
  /\ DOMAIN assignments \subseteq DOMAIN assignments'
  /\ \A d \in DOMAIN assignments :
       /\ assignments'[d].sig = assignments[d].sig
       /\ assignments'[d].name = assignments[d].name /\ assignments'[d].flight = assignments[d].flight
       /\ assignments'[d].layout = assignments[d].layout /\ (assignments'[d].live => assignments[d].live)
       /\ \/ assignments[d].sig \in edited'
          \/ /\ assignments'[d].passenger = assignments[d].passenger
             /\ assignments'[d].type = assignments[d].type
  /\ assignmentMet \subseteq assignmentMet' /\ assignmentBroken \subseteq assignmentBroken' /\ removed \subseteq removed'
  /\ edited \subseteq edited'
  /\ \A p \in Assignments!Passengers : person[p].minor => person'[p].minor
  /\ \A p \in Assignments!Pending : Clear(p)' => AsgDataOf(p)

-----------------------------------------------------------------------------
(* Letters of the office.                                                  *)

LetMails == [thread : Nat, kind : {"INBOX", "SENT", "NOTICE"}, chosen : Old \cup {Letters!None},
             row : {"none", "there", "gone"}, claim : Old \cup {Letters!None}, file : BOOLEAN]

LetRequests == [op : {"rest", "letter", "notice", "answer", "move"},
                at : {"rest", "look", "send", "row", "file", "thread", "address",
                      "news", "fetch", "update"},
                mail : Nat, claim : Old \cup {Letters!None}]

LetShapes ==
  /\ filed \in [Old -> {"there", "archived", "gone"}]
  /\ mail \in Seq(LetMails)
  /\ letterRequest \in [Http -> LetRequests]

LetStepOf(h) ==
  /\ letterRequest[h].op = "rest" => letterRequest[h] = Letters!Rest
  /\ letterRequest[h].op = "letter" =>
       /\ letterRequest[h].at \in {"look", "send", "row", "file"}
       /\ letterRequest[h].at \in {"look", "send"} => Letters!Mail(h) \in Letters!Mails \cup {0}
       /\ letterRequest[h].at \in {"row", "file"} =>
            Letters!Mail(h) \in Letters!Mails /\ mail[Letters!Mail(h)].kind = "SENT"
  /\ letterRequest[h].op = "notice" =>
       /\ letterRequest[h].at \in {"send", "row"}
       /\ letterRequest[h].at = "row" => Letters!Mail(h) \in Letters!Mails /\ mail[Letters!Mail(h)].kind = "NOTICE"
  /\ letterRequest[h].op = "answer" =>
       /\ letterRequest[h].at \in {"thread", "address", "row", "news", "fetch", "file"}
       /\ Letters!Mail(h) \in Letters!Mails /\ mail[Letters!Mail(h)].kind = "INBOX"
       /\ letterRequest[h].at = "news" => letterRequest[h].claim # Letters!None
  /\ letterRequest[h].op = "move" =>
       letterRequest[h].at = "update" /\ Letters!Mail(h) \in Letters!Mails /\ letterRequest[h].claim # Letters!None

LetSteps == \A h \in Http : LetStepOf(h)

\* A thread is named by its first mail.
Thread(m) == Letters!InThread(mail[m].thread)

LetThreads ==
  \A m \in Letters!Mails : mail[m].thread \in 1..m /\ mail[mail[m].thread].thread = mail[m].thread

LetRows ==
  \A m \in Letters!Mails :
    /\ mail[m].row = "gone" => m \in refiled
    /\ mail[m].row = "there" /\ mail[m].claim # Letters!None => filed[mail[m].claim] # "gone"
    /\ mail[m].kind = "INBOX" /\ m # mail[m].thread /\ m \notin early
         => mail[mail[m].thread].row # "none"

\* A mail with a row under a claim beside another of its thread, and one that need
\* not be filed where its thread is.
Beside(m, c) == \E n \in Thread(m) \ {m} : mail[n].row = "there" /\ mail[n].claim = c

Excused(m) == m \in early \/ Thread(m) \cap refiled # {} \/ Beside(m, Letters!None)

AnswerFits(m) ==
  mail[m].kind = "INBOX" /\ mail[m].row = "there" /\ m # mail[m].thread =>
    Excused(m) \/ (mail[m].claim # Letters!None /\ Beside(m, mail[m].claim))

LetAnswers == \A m \in Letters!Mails : AnswerFits(m)

\* The same of an answer that is looked at, unless its row is there already or the
\* claim that was found is gone again.
RequestFits(h) ==
  /\ letterRequest[h].op = "answer" /\ letterRequest[h].at \in {"address", "row"}
  /\ Letters!Mail(h) # mail[Letters!Mail(h)].thread
  => \/ Excused(Letters!Mail(h)) \/ mail[Letters!Mail(h)].row = "there"
     \/ /\ letterRequest[h].at = "row" /\ letterRequest[h].claim # Letters!None
        /\ filed[letterRequest[h].claim] = "gone" \/ Beside(Letters!Mail(h), letterRequest[h].claim)

LetRequestsFit == \A h \in Http : RequestFits(h)

\* What was sent is stored, or carried by the request that sent it.
Carries(h) == letterRequest[h].op \in {"letter", "notice"} /\ letterRequest[h].at \in {"row", "file"}

KeptOf(m) ==
  mail[m].kind # "INBOX" =>
    \/ mail[m].row = "there" /\ (mail[m].kind = "SENT" => mail[m].file)
    \/ mail[m].row = "gone" \/ m \in letterBroken
    \/ \E h \in Http : Carries(h) /\ Letters!Mail(h) = m

LetKept == \A m \in Letters!Mails : KeptOf(m)

LetInv ==
  /\ LetShapes /\ LetSteps /\ LetThreads /\ LetRows
  /\ LetAnswers /\ LetRequestsFit /\ LetKept

\* What every step leaves as it is: a mail that is filed stays where it is, unless
\* it is refiled or goes with its claim.
LetOn ==
  /\ Letters!Mails \subseteq Letters!Mails'
  /\ \A n \in Letters!Mails :
       /\ mail'[n].thread = mail[n].thread /\ mail'[n].kind = mail[n].kind
       /\ mail[n].row = "there" =>
            \/ n \in refiled'
            \/ mail'[n].row = "there" /\ mail'[n].claim = mail[n].claim
  /\ early \subseteq early' /\ refiled \subseteq refiled'
  /\ \A c \in Old : filed[c] = "gone" => filed'[c] = "gone"

-----------------------------------------------------------------------------
(* Payments of passengers.                                                 *)

PayShapes ==
  /\ there \in BOOLEAN /\ state \in Payments!Statuses
  /\ passengers \in [Payments!Passengers -> [payment : Payments!Payments, status : Payments!Statuses]]
  /\ asked \in [Payments!Passengers -> [payment : Payments!Payments, status : Payments!Statuses]]
  /\ letters \in [Payments!Passengers -> Nat] /\ unsent \in [Payments!Passengers -> Nat]
  /\ failures \in [Payments!Passengers -> Nat]
  /\ paymentRequest \in [Http -> [op : {"rest", "payment", "status"},
                           at : {"rest", "letter", "base", "status", "payment"},
                           of : Payments!Passengers, to : Payments!Payments \cup Payments!Statuses]]

PaySteps ==
  \A h \in Http :
    /\ paymentRequest[h].op = "rest" => paymentRequest[h] = Payments!Rest
    /\ paymentRequest[h].op = "payment" =>
         /\ paymentRequest[h].to \in Payments!Payments
         /\ paymentRequest[h].at \in {"letter", "base", "status", "payment"}
         /\ paymentRequest[h].at # "payment" => paymentRequest[h].to = "FAILED"
    /\ paymentRequest[h].op = "status" =>
         paymentRequest[h].to \in Payments!Statuses /\ paymentRequest[h].at \in {"base", "status"}

\* A request that is about a passenger, one that is still to note a payment, and
\* one that is still to set a status.
Asks(h, p) == paymentRequest[h].op # "rest" /\ Payments!Of(h) = p

PaymentDue(h, p) == paymentRequest[h].op = "payment" /\ Payments!Of(h) = p

StatusDue(h, p) == Asks(h, p) /\ paymentRequest[h].at # "payment"

AtLetter(p) == {h \in Http : Payments!At(h, "letter") /\ Payments!Of(h) = p}

\* What was asked for is noted or due, by a request that is alone.
PayDueOf(p) ==
  p \notin paymentMet \cup paymentBroken =>
    /\ \A h, k \in Http : Asks(h, p) /\ Asks(k, p) => h = k
    /\ there =>
         /\ \A h \in Http : PaymentDue(h, p) => asked[p].payment = paymentRequest[h].to
         /\ \A h \in Http : StatusDue(h, p) => asked[p].status = Payments!NewStatus(h)
         /\ (\A h \in Http : ~PaymentDue(h, p)) => asked[p].payment = passengers[p].payment
         /\ (\A h \in Http : ~StatusDue(h, p)) => asked[p].status = Payments!StatusOf(p)

PayDue == \A p \in Payments!Passengers : PayDueOf(p)

\* Letters come before what they are about, one for each failure.
PayLettersOf(p) ==
  /\ passengers[p].payment = "FAILED" => letters[p] + unsent[p] > 0
  /\ \A h \in Http : PaymentDue(h, p) /\ paymentRequest[h].to = "FAILED" /\ ~Payments!At(h, "letter")
                     => letters[p] + unsent[p] > 0
  /\ IsFiniteSet(AtLetter(p))
  /\ p \notin paymentBroken => failures[p] = letters[p] + unsent[p] + Cardinality(AtLetter(p))

PayLetters == \A p \in Payments!Passengers : PayLettersOf(p)

PayInv == PayShapes /\ PaySteps /\ PayDue /\ PayLetters

PayRequests == [op : {"rest", "payment", "status"},
                at : {"rest", "letter", "base", "status", "payment"},
                of : Payments!Passengers, to : Payments!Payments \cup Payments!Statuses]

-----------------------------------------------------------------------------
(* What the back office sees.                                              *)

ViewRows == [there : BOOLEAN, created : Nat, assigned : Nat, updated : Nat,
             mine : BOOLEAN, archived : BOOLEAN, flag : BOOLEAN, fresh : BOOLEAN,
             status : Views!Statuses]

ViewReaders == [role : Views!Roles, news : BOOLEAN, page : Nat \cup {-1},
                seen : SUBSET Claims, kept : SUBSET Claims, left : BOOLEAN]

ViewStats == [at : {"rest", "total", "paid", "approved", "active", "done"}, since : Nat,
              total : Nat, paid : Nat, approved : Nat, active : Nat,
              stirred : BOOLEAN]

ViewRequests == [op : {"rest", "save", "view"}, at : {"rest", "flag", "time", "row", "rows"},
                 claim : Claims \cup {CHOOSE c \in Claims : TRUE}]

ViewShapes ==
  /\ claim \in [Claims -> ViewRows] /\ reader \in ViewReaders /\ stats \in ViewStats
  /\ viewRequest \in [Http -> ViewRequests] /\ clashed \subseteq Claims
  /\ viewSpent \in Nat

\* No claim has a time to come, and one that is there has been made.
ViewTimes ==
  \A c \in Claims :
    /\ claim[c].created <= claim[c].assigned /\ claim[c].created <= claim[c].updated
    /\ claim[c].assigned <= Views!Now /\ claim[c].updated <= Views!Now
    /\ claim[c].there => claim[c].created > 0

ViewSteps ==
  \A h \in Http :
    /\ viewRequest[h].op = "save" => viewRequest[h].at \in {"flag", "time", "row"}
    /\ viewRequest[h].op = "view" => viewRequest[h].at \in {"rows", "flag"}
    /\ viewRequest[h].op # "rest" => Views!Of(h) \in Claims /\ claim[Views!Of(h)].created > 0

\* The claims that stayed in their places were seen or are on a page to come.
ToCome(c) == c \in reader.seen \/ Views!Place(c) > (reader.page - 1) * PageSize

ViewList ==
  /\ reader.page = -1 => reader.left \/ reader.kept \subseteq reader.seen
  /\ reader.page > 0 /\ ~reader.left => \A c \in reader.kept : c \in Views!Listed /\ ToCome(c)

\* Numbers that were read and that nothing stirred are those there are.
ViewNumbers ==
  ~stats.stirred =>
    /\ stats.at \in {"paid", "approved", "active", "done"} => stats.total = Views!Count(Views!Statuses)
    /\ stats.at \in {"approved", "active", "done"} => stats.paid = Views!Count({"PAID"})
    /\ stats.at \in {"active", "done"} => stats.approved = Views!Count({"APPROVED"})
    /\ stats.at = "done" => stats.active = Views!Count(Views!Statuses \ {"PAID", "CLOSED"})

\* Of a claim where no news met a look at it, the flag is up before the row is
\* fresh, and no longer fresh before it goes down.
Saving(h, c) == viewRequest[h].op = "save" /\ Views!Of(h) = c

Viewing(h, c) == viewRequest[h].op = "view" /\ Views!Of(h) = c

NewsFit(c) ==
  c \notin clashed =>
    /\ claim[c].there /\ claim[c].fresh => claim[c].flag
    /\ \A h \in Http : Saving(h, c) /\ viewRequest[h].at # "flag" => claim[c].flag
    /\ \A h \in Http : Viewing(h, c) /\ viewRequest[h].at = "flag" => ~claim[c].fresh
    /\ \A h, k \in Http : ~(Saving(h, c) /\ Viewing(k, c))

ViewNews == \A c \in Claims : NewsFit(c)

ViewInv ==
  ViewShapes /\ ViewTimes /\ ViewSteps /\ ViewList /\ ViewNumbers /\ ViewNews

-----------------------------------------------------------------------------
(* Airports.                                                               *)

AirSearches == [at : {"rest", "search", "keep"},
                query : Index!Queries \cup {CHOOSE q \in Index!Queries : TRUE},
                found : SUBSET Index!Table, whole : BOOLEAN]

AirShapes ==
  /\ table \in {{}, Index!English, Index!Table}
  /\ index \in [there : BOOLEAN, mapped : BOOLEAN, docs : SUBSET Index!Table]
  /\ sync \in [at : {"down", "count", "exists", "delete", "create", "query", "bulk",
                     "done"}, rows : SUBSET Index!Table]
  /\ late \subseteq Index!Table
  /\ cache \in [Index!Queries -> [kept : BOOLEAN, found : SUBSET Index!Table]]
  /\ search \in [Http -> AirSearches]
  /\ partial \in BOOLEAN /\ reloaded \in BOOLEAN /\ miscounted \in BOOLEAN
  /\ overtaken \in BOOLEAN /\ emptied \in BOOLEAN
  /\ earlyAnswers \subseteq Index!Queries

\* The rows that are sent are those of the table, unless it is loaded again, to
\* an index that was made for them.
AirRows ==
  /\ ~reloaded => table = Index!Table
  /\ sync.at = "bulk" /\ ~reloaded => sync.rows = Index!Table
  /\ sync.at \in {"query", "bulk"} => index.there /\ index.mapped

\* An index that is made anew was empty or could not be counted.
AirEmptied ==
  /\ sync.at \in {"exists", "delete"} => index.docs = {} \/ miscounted \/ overtaken
  /\ emptied => miscounted \/ overtaken

\* The answers of a whole index, when they are found and when they are kept.
Right(q) == Index!Table \cap {Index!Row(q.of, IF q.by = "code" THEN "en" ELSE q.by)}

AirAnswers ==
  /\ \A h \in Http : search[h].at # "rest" => search[h].query \in Index!Queries
  /\ \A h \in Http : search[h].at = "keep" /\ search[h].whole =>
       search[h].found = Right(search[h].query)
  /\ \A q \in Index!Queries : cache[q].kept /\ q \notin earlyAnswers => cache[q].found = Right(q)

AirInv == AirShapes /\ AirRows /\ AirEmptied /\ Index!IndexWhole /\ AirAnswers

-----------------------------------------------------------------------------
(* Compensation.                                                           *)

WorthInv ==
  /\ facts \in Compensation!Facts \cup {Compensation!NoFacts}
  /\ facts # Compensation!NoFacts => answer = Compensation!Worth(facts)

-----------------------------------------------------------------------------
(* Accounts.                                                               *)

AccRequests ==
  [op : {"rest", "register", "resend", "verify", "claim", "staff", "forgot", "reset",
         "google"},
   at : {"rest", "look", "pending", "save", "letter", "undo", "get", "delete", "create",
         "change", "account", "link", "register"},
   email : Emails \cup {Accounts!NoOne}, n : Nat, code : 0..Limit, there : SUBSET Emails]
AccUsers == [password : 0..Limit, by : {"verify", "claim", "staff", "google"},
             there : SUBSET Emails]

AccShapes ==
  /\ Accounts!Users \subseteq Emails /\ users \in [Accounts!Users -> AccUsers]
  /\ linked \in Accounts!Users \cup {Accounts!NoOne}
  /\ pending \in [Emails -> [code : 0..Limit, there : {{}}]]
  /\ reset \in [Emails -> 0..Limit] /\ sent \in [Emails -> 0..Limit]
  /\ mailed \in [Emails -> SUBSET (1..Limit)] /\ over \subseteq 1..Limit
  /\ changed \in [Emails -> [1..Limit -> Nat]]
  /\ accountRequest \in [Http -> AccRequests]
  /\ googled \in Nat /\ accountSpent \in 0..Limit

\* Requests that handle the same letters and codes of one address.
Codewise == {"register", "resend", "verify"}
Passwise == {"forgot", "reset"}
AccAlone ==
  \A h, k \in Http :
    /\ h # k /\ accountRequest[h].email = accountRequest[k].email
    /\ \/ accountRequest[h].op \in Codewise /\ accountRequest[k].op \in Codewise
       \/ accountRequest[h].op \in Passwise /\ accountRequest[k].op \in Passwise
    => accountRequest[h].email \in accountMet

\* Where the look of a request has found no user, there was none as it began.
AccLooked(r) ==
  \/ r.op \in {"register", "claim"} /\ r.at # "look"
  \/ r.op = "verify" /\ r.at # "get"
  \/ r.op = "google" /\ r.at = "register"

AccStep(r) ==
  /\ r.op = "rest" => r = Accounts!Rest
  /\ r.op # "rest" => r.email \in Emails /\ r.n \in 1..accountSpent
  /\ r.op \in {"verify", "reset"} => r.code # 0
  /\ r.op = "reset" => r.code <= accountSpent
  /\ r.op = "resend" /\ r.at = "letter" => r.code # 0
  /\ r.op = "google" => r.email = Google
  /\ AccLooked(r) => r.there = {}
  /\ r.op = "forgot" /\ r.at # "look" => Accounts!Users # {}
  /\ r.there \subseteq Accounts!Users

\* What a request about a registration relies on where it met no other.
AccCode(r) ==
  r.email \notin accountMet =>
    LET waits == pending[r.email].code IN
    /\ r.op = "register" /\ r.at = "save" => waits = 0
    /\ r.op = "register" /\ r.at = "letter" => waits = r.n \/ (waits = 0 /\ r.n \in over)
    /\ r.op = "register" /\ r.at = "undo" => waits \in {0, r.n}
    /\ r.op = "resend" /\ r.at = "letter" => waits = r.code \/ r.code \in over
    /\ r.op = "verify" /\ r.at = "delete" => waits \in {0, r.code}

\* And one about a password where none came to grief either.
AccPass(r) ==
  r.email \notin accountMet \cup accountBroken =>
    /\ r.op = "forgot" => changed[r.email][r.n] = 0
    /\ r.op = "forgot" /\ r.at = "save" => sent[r.email] = r.n
    /\ r.op = "reset" => sent[r.email] = r.code
    /\ r.op = "reset" /\ r.at = "change" =>
         changed[r.email][r.code] = 0 /\ reset[r.email] \in {0, r.code}

AccFits(r) == /\ AccStep(r)
              /\ r.op \in Codewise => AccCode(r)
              /\ r.op \in Passwise => AccPass(r)

AccMailed ==
  \A e \in Emails \ accountMet : \A n \in mailed[e] :
    pending[e].code = n \/ n \in over

\* A code that has changed a password is about to be deleted.
AccSentAt(e) ==
  /\ \/ sent[e] \in {0, reset[e]} \cup over
     \/ \E h \in Http : Accounts!At(h, "forgot", "save") /\ Accounts!Email(h) = e
  /\ \A n \in 1..Limit : changed[e][n] < 2
  /\ reset[e] # 0 /\ changed[e][reset[e]] > 0 =>
       \E h \in Http : /\ Accounts!At(h, "reset", "delete") /\ Accounts!Email(h) = e
                       /\ accountRequest[h].code = reset[e]

AccSent ==
  /\ \A e \in Emails : /\ sent[e] <= accountSpent
                       /\ \A n \in 1..Limit : changed[e][n] > 0 => n <= accountSpent
  /\ \A e \in Emails \ (accountMet \cup accountBroken) : AccSentAt(e)

AccMade ==
  /\ \A e \in Accounts!Users : users[e].by # "staff" => users[e].there = {}
  /\ \A e \in Emails : reset[e] # 0 => Accounts!Users # {}
  /\ googled > 0 /\ linked = Accounts!NoOne => googled = 1 /\ Google \in Accounts!Users
  /\ "known" \notin stopped

AccInv ==
  /\ AccShapes /\ AccAlone /\ AccMailed /\ AccSent /\ AccMade
  /\ \A h \in Http : AccFits(accountRequest[h])

\* The requests that save or delete a code of a password stay where they are,
\* but for one that comes to grief.
AccKept ==
  \A h \in Http :
    Accounts!Email(h) \notin accountMet' \cup accountBroken' =>
      /\ Accounts!At(h, "forgot", "save") =>
           Accounts!At(h, "forgot", "save")' /\ Accounts!Email(h)' = Accounts!Email(h)
      /\ Accounts!At(h, "reset", "delete") =>
           /\ Accounts!At(h, "reset", "delete")' /\ Accounts!Email(h)' = Accounts!Email(h)
           /\ accountRequest'[h].code = accountRequest[h].code

\* A step of a request about a password, at its address alone.
AccPassStep(h, r, last, kept, times) ==
  LET e == accountRequest[h].email IN
  /\ accountRequest[h].op \in Passwise /\ r \in AccRequests
  /\ accountRequest' = [accountRequest EXCEPT ![h] = r]
  /\ r.op = "rest" \/ (r.op = accountRequest[h].op /\ r.email = e)
  /\ last \in 0..Limit /\ kept \in 0..Limit /\ times \in [1..Limit -> Nat]
  /\ sent' = [sent EXCEPT ![e] = last] /\ reset' = [reset EXCEPT ![e] = kept]
  /\ changed' = [changed EXCEPT ![e] = times]
  /\ over \subseteq over' /\ over' \subseteq 1..Limit
  /\ users' \in [Accounts!Users -> AccUsers]
  /\ \A d \in Accounts!Users : users'[d].there = users[d].there /\ users'[d].by = users[d].by
  /\ last <= accountSpent /\ \A n \in 1..Limit : times[n] > 0 => n <= accountSpent
  /\ kept # 0 => Accounts!Users # {}
  /\ e \notin accountMet \cup accountBroken =>
       /\ last \in {0, kept} \cup over' \/ (r.op = "forgot" /\ r.at = "save")
       /\ \A n \in 1..Limit : times[n] < 2
       /\ kept # 0 /\ times[kept] > 0 => r.op = "reset" /\ r.at = "delete" /\ r.code = kept
  /\ UNCHANGED <<linked, pending, mailed, accountMet, accountBroken, googled, stopped,
                 accountSpent>>

-----------------------------------------------------------------------------
(* Partners.                                                               *)

Credited == {CHOOSE c \in Old : TRUE}
Places == Codes \X Sources

PartRequests ==
  [op : {"rest", "partner", "link", "delete", "click", "claim", "assign", "stats"},
   at : {"rest", "role", "look", "create", "delete", "find", "count", "partner", "save",
         "days", "total"},
   user : Travellers \cup {Partners!None}, code : Codes \cup {Partners!None},
   source : Sources \cup {Partners!None}, claim : Credited \cup {Partners!None},
   id : Nat, sum : Nat]

PartShapes ==
  /\ role \subseteq Travellers /\ code \in [Travellers -> Codes \cup {Partners!None}]
  /\ link \in [Places -> [id : Nat, clicks : Nat, of : Travellers \cup {Partners!None}]]
  /\ credit \in [Credited -> [by : Travellers \cup {Partners!None},
                              referrer : Codes \cup {Partners!None}, made : BOOLEAN]]
  /\ partnerRequest \in [Http -> PartRequests]
  /\ visits \in [1..(Limit + 1) -> Nat] /\ partnerSpent \in 0..(Limit + 1)

\* The visits in progress at a place, and those that may yet be counted for the
\* link that is there.
Visiting(l) == {h \in Http : partnerRequest[h].op = "click" /\ Partners!Place(h) = l}
Counting(l) ==
  {h \in Visiting(l) : partnerRequest[h].at = "find" \/ partnerRequest[h].id = link[l].id}

\* A link has an id of its own, and a request that makes one an id no link has.
PartIds ==
  /\ \A l \in Places : link[l] # Partners!NoLink =>
       /\ link[l].id \in 1..partnerSpent
       /\ \A m \in Places \ {l} : link[m].id # link[l].id
       /\ \A h \in Http : partnerRequest[h].op = "link" => partnerRequest[h].id # link[l].id
  /\ \A l \in Places : link[l].id = 0 => link[l] = Partners!NoLink
  /\ \A h \in Http : partnerRequest[h].op = "link" =>
       /\ partnerRequest[h].id \in 1..partnerSpent /\ visits[partnerRequest[h].id] = 0
       /\ \A k \in Http \ {h} : partnerRequest[k].op = "link" =>
            partnerRequest[k].id # partnerRequest[h].id
  /\ \A id \in 1..(Limit + 1) : id > partnerSpent => visits[id] = 0

PartClicks ==
  \A l \in Places :
    /\ link[l].clicks + Cardinality(Visiting(l)) <= partnerSpent
    /\ link[l] # Partners!NoLink /\ <<"visit", l>> \notin lost =>
         link[l].clicks + Cardinality(Counting(l)) >= visits[link[l].id]

\* The visits counted for a partner, or for all.
ClicksOf(u) == Partners!Clicks({l \in Places : u # Partners!None => link[l].of = u})

\* What a request has found stays so: a code is given for good.
PartFound(h) ==
  LET r == partnerRequest[h] IN
  /\ r.op \in {"partner", "link", "claim", "assign"} => r.code \in Codes
  /\ r.op = "partner" => r.user \in Travellers
  /\ r.op \in {"link", "delete", "click"} => Partners!Place(h) \in Places
  /\ r.op \in {"claim", "assign"} => r.claim \in Credited
  /\ r.op = "click" /\ r.at = "count" => r.id # 0
  /\ r.op = "link" /\ r.at = "create" => Partners!PartnersOf(r.code) # {}
  /\ r.op = "claim" /\ r.at = "partner" /\ Partners!PartnersOf(r.code) = {} =>
       r.claim \in unknown
  /\ r.op \in {"claim", "assign"} /\ r.at = "save" =>
       IF r.user = Partners!None THEN r.op = "claim" /\ r.claim \in unknown
                                 ELSE code[r.user] = r.code
  /\ r.op = "stats" /\ r.code = Partners!None => r.source = Partners!None
  /\ r.op = "stats" /\ r.at = "total" /\ r.code = Partners!None /\ <<"answer", h>> \notin lost =>
       \A u \in {r.user} : r.sum <= ClicksOf(u)

PartInv ==
  /\ PartShapes /\ PartIds /\ PartClicks
  /\ Partners!RoleHasPartner /\ Partners!LinkOfItsCode /\ Partners!ReferrerCredited
  /\ ~short
  /\ \A l \in Places : link[l] # Partners!NoLink => link[l].of \in Travellers
  /\ \A h \in Http : PartFound(h)

-----------------------------------------------------------------------------
(* What the types rest on beside the invariants of the components: data are *)
(* named by the events so far, and letters are no more than the failures.   *)

AsgTyped ==
  /\ assignmentSpent <= Limit - 1 /\ flight <= assignmentSpent
  /\ ~person[Customer].minor
  /\ \A p \in Assignments!Passengers : person[p].name <= assignmentSpent

LetTyped == \A m \in Letters!Mails : mail[m].file => mail[m].row = "there"

PayTyped ==
  /\ paymentSpent \in 0..(Limit - 1)
  /\ paymentMet \subseteq Payments!Passengers /\ paymentBroken \subseteq Payments!Passengers
  /\ \A p \in Payments!Passengers :
       /\ failures[p] <= paymentSpent
       /\ letters[p] + unsent[p] + Cardinality(AtLetter(p)) <= failures[p]

AirTyped == indexSpent \in 0..(Limit - 1)

WorthTyped == facts = Compensation!NoFacts => answer = 0

Typed ==
  /\ moving = "assignments" => AsgTyped
  /\ moving = "letters" => LetTyped
  /\ moving = "payments" => PayTyped
  /\ moving = "airports" => AirTyped
  /\ moving = "compensation" => WorthTyped
===============================================================================
