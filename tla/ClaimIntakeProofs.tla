-------------------------- MODULE ClaimIntakeProofs --------------------------
(***************************************************************************)
(* Theorems about ClaimIntake, for any ids, trips, requests in progress,   *)
(* numbers of letters and attempts, and any bound on the events.           *)
(***************************************************************************)
EXTENDS ClaimIntake, FiniteSetTheorems, TLAPS

-----------------------------------------------------------------------------
(* The inductive invariant.                                                *)

\* Types of every variable but spent, which only bounds the events.
ClaimRecs == [trip : Trips, step : Steps \cup {DEFAULT_STEP, SIGN_STEP},
              archived : BOOLEAN, active : BOOLEAN, owned : BOOLEAN]
RequestRecs == [at : {"rest"} \cup Creating \cup Revoking, id : Ids \cup {NoId},
                trip : Trips \cup {NoId}, found : SUBSET Ids, left : Int,
                owned : BOOLEAN, parted : BOOLEAN]
JobRecs == [kind : Kinds \cup {"none"}, id : Ids \cup {NoId}, n : Nat, m : Nat,
            tries : 0..(Attempts - 1), sent : Nat, unstored : Nat,
            stalled : BOOLEAN]
Queued == {j \in JobRecs : j.kind \in Kinds /\ j.id \in Ids}
CallsAt(kind) == IF kind = "followUpClaim"
                 THEN {"record", "letter", "store", "done"}
                 ELSE {"letter", "store", "next", "done"}
WorkerPlaces == {"rest", "record", "letter", "store", "next", "done"}
WorkerRecs == [at : WorkerPlaces, job : JobRecs, changed : BOOLEAN]
Marks == {"parted", "broken", "answered", "deleted", "revoked", "missed", "ended",
          "stalled"}

Made == Creating \ {"save"}  \* the claim of the request is made

Typed ==
  /\ Claims \subseteq Ids /\ claims \in [Claims -> ClaimRecs]
  /\ links \subseteq Claims \X Claims
  /\ request \in [Http -> RequestRecs]
  /\ jobs \subseteq Queued /\ IsFiniteSet(jobs)
  /\ worker \in [Kinds -> WorkerRecs]
  /\ past \in [Ids -> SUBSET Marks]

\* What a request and a worker hold where they are.
Placed ==
  /\ \A h \in Http : /\ request[h].at # "rest" => request[h].trip \in Trips
                     /\ request[h].at \in {"rest", "save"} => request[h].id = NoId
                     /\ request[h].at \in Made \cup Revoking => request[h].id \in Ids
  /\ \A k \in Kinds : \/ worker[k] = Idle
                      \/ /\ worker[k].at \in CallsAt(k)
                         /\ worker[k].job \in Queued /\ worker[k].job.kind = k

\* An id that anything was done with is that of a claim, or of one deleted.
Used(i) == i \in Claims \/ Is(i, "deleted")
IdsUsed ==
  /\ \A h \in Http : /\ request[h].at \in Made \cup Revoking => Used(request[h].id)
                     /\ \A f \in request[h].found : Used(f)
  /\ \A j \in jobs : Used(j.id)
  /\ \A k \in Kinds : worker[k] # Idle => Used(worker[k].job.id)
  /\ \A i \in Ids : past[i] # {} => Used(i)

\* The claim of a request is owned once its owner is linked.  Here and below,
\* an id that a claim was deleted of may stand for another claim.
OwnerLinked ==
  /\ \A h \in Http : (request[h].id \in Claims /\ ~Is(request[h].id, "deleted")) =>
       /\ request[h].at = "reverse" => claims[request[h].id].owned = request[h].owned
       /\ request[h].at \in {"followUps", "reminder", "flight"} =>
            claims[request[h].id].owned
  /\ \A i \in Claims : (Is(i, "answered") /\ ~Is(i, "deleted")) => claims[i].owned

\* A reminder waits, runs or ended; one that scheduled the next is followed by it.
Reminded(i) == JobsOf("claimReminder", i) # {} \/ Is(i, "ended")
ReminderKept ==
  /\ \A h \in Http : At(h, "flight") => Reminded(request[h].id)
  /\ \A i \in Ids : Is(i, "answered") => Reminded(i)
  /\ Doing("claimReminder", "done") =>
       \E j \in jobs : /\ j.kind = "claimReminder"
                       /\ j.id = worker["claimReminder"].job.id

\* Reminders of a claim in the queue: none before its request adds one, then
\* one, and none while one of them runs.
Waiting(i) == {j \in jobs : j.kind = "claimReminder" /\ j.id = i}
OneWaits ==
  /\ \A h \in Http :
       (request[h].at \in Made \ {"flight"} /\ ~Is(request[h].id, "deleted")) =>
         JobsOf("claimReminder", request[h].id) = {}
  /\ \A i \in Ids : (~Is(i, "stalled") /\ ~Is(i, "deleted")) =>
       \A j, k \in Waiting(i) : j = k
  /\ LET w == worker["claimReminder"]
     IN (w.at \in {"letter", "store", "next"} /\ ~Is(w.job.id, "stalled")
           /\ ~Is(w.job.id, "deleted")) => Waiting(w.job.id) = {}

\* Letters that a job may have sent: one for each time that its mail could not
\* be stored, one if it was stalled, and the one of this attempt.
Owed(j) == j.unstored + IF j.stalled THEN 1 ELSE 0
SentOnce ==
  /\ \A j \in jobs : j.sent <= Owed(j)
  /\ \A k \in Kinds : LET w == worker[k] IN
       \/ w.job.sent <= Owed(w.job)
       \/ w.job.sent = Owed(w.job) + 1 /\ w.at \in {"store", "next", "done"}

\* What a task read of a claim holds as long as nothing changed the claim.
ReadHolds ==
  \A k \in Kinds : LET w == worker[k] IN
    (w # Idle /\ ~w.changed) => w.job.id \in Claims /\ Wants(k, w.job.id)

\* Claims of one trip: what is linked, found, created and revoked.
TripsAgree ==
  /\ \A l \in links : \/ claims[l[1]].trip = claims[l[2]].trip
                     \/ \E i \in {l[1], l[2]} : Is(i, "deleted")
  /\ \A h \in Http :
       /\ \A f \in request[h].found : f \in Claims =>
            \/ claims[f].trip = request[h].trip
            \/ Is(f, "deleted") \/ (request[h].at \in Revoking /\ Is(f, "missed"))
       /\ request[h].id \in Claims =>
            \/ claims[request[h].id].trip = request[h].trip
            \/ Is(request[h].id, "deleted")

PartedRequest(h) ==
  IF At(h, "save") THEN request[h].parted ELSE Is(request[h].id, "parted")
Apart ==
  \A h, k \in Http :
    (h # k /\ request[h].at \in Creating /\ request[k].at # "rest"
           /\ request[h].trip = request[k].trip) => PartedRequest(h)

\* Unless another request is about the trip, a new claim knows all others.
KnowsAll ==
  \A h \in Http :
    /\ (At(h, "save") /\ ~request[h].parted) =>
          Same(request[h].trip) \subseteq request[h].found
    /\ (At(h, "reverse") /\ past[request[h].id] \cap {"parted", "missed", "deleted"} = {}) =>
          /\ \A l \in links : request[h].id \in {l[1], l[2]} =>
               l[1] = request[h].id /\ l[2] \in request[h].found
          /\ request[h].id \in Claims =>
               \A f \in request[h].found \cap Claims :
                 <<request[h].id, f>> \in links \/ Is(f, "deleted")

\* A choice between claims: those it knows of are marked, the others of the
\* trip were missed, or created next to it.
ChoiceKnown ==
  \A h \in Http : request[h].at \in Revoking =>
    /\ \A j \in request[h].found \cup {request[h].id} : Is(j, "revoked")
    /\ \A i \in Same(request[h].trip) \ (request[h].found \cup {request[h].id}) :
         Is(i, "missed") \/ Is(i, "parted")

IInv == /\ Typed /\ Placed /\ IdsUsed /\ IdGivenOnce
        /\ OwnerLinked /\ ReminderKept /\ OneWaits /\ SentOnce /\ ReadHolds
        /\ TripsAgree /\ Apart /\ KnowsAll /\ ChoiceKnown
        /\ LinksSymmetric /\ DuplicatesKnown

-----------------------------------------------------------------------------
(* What the steps do to the requests.                                      *)

Places == {"rest"} \cup Creating \cup Revoking

\* A request that is not there, or is over.
LEMMA RestFields ==
  Rest \in RequestRecs /\ Rest.at = "rest" /\ Rest.id = NoId /\ Rest.found = {}
  BY DEF Rest, RequestRecs

\* A step of a request to its next call.
LEMMA GoEffect ==
  ASSUME Typed, NEW h \in Http, NEW call \in Places, Go(h, call)
  PROVE  /\ request' \in [Http -> RequestRecs]
         /\ request'[h].at = call /\ request'[h].id = request[h].id
         /\ request'[h].trip = request[h].trip
         /\ request'[h].found = request[h].found
         /\ request'[h].owned = request[h].owned
         /\ request'[h].parted = request[h].parted
         /\ \A k \in Http \ {h} : request'[k] = request[k]
  BY DEF Typed, Go, RequestRecs, Places

\* A request that ends, whether answered or not.
LEMMA EndEffect ==
  ASSUME Typed, NEW h \in Http, request' = [request EXCEPT ![h] = Rest]
  PROVE  /\ request' \in [Http -> RequestRecs] /\ request'[h] = Rest
         /\ \A k \in Http \ {h} : request'[k] = request[k]
  BY RestFields DEF Typed

\* Of a request another one only learns that it is not alone.
Same1(k) ==
  /\ request'[k].at = request[k].at /\ request'[k].id = request[k].id
  /\ request'[k].trip = request[k].trip /\ request'[k].found = request[k].found
  /\ request'[k].owned = request[k].owned
  /\ request[k].parted => request'[k].parted

\* A request that comes in finds the claims of its trip, and parts the others.
LEMMA CreateEffect ==
  ASSUME Typed, NEW h \in Http, NEW trip \in Trips, Create(h, trip)
  PROVE  /\ request' \in [Http -> RequestRecs]
         /\ request'[h].at = "save" /\ request'[h].id = NoId
         /\ request'[h].trip = trip /\ request'[h].found = Same(trip)
         /\ request'[h].parted = (Beside(trip) # {})
         /\ \A k \in Http \ {h} : Same1(k)
         /\ \A k \in Http \ {h} : k \in Beside(trip) => request'[k].parted
         /\ past' = Mark({request[k].id : k \in Beside(trip)}, "parted")
         /\ UNCHANGED <<claims, links, jobs, worker>>
<1>1. PICK owned \in BOOLEAN :
       request' = [k \in Http |->
         IF k = h THEN [at |-> "save", id |-> NoId, trip |-> trip,
                        found |-> FindDuplicate(trip), left |-> MaxAttempts,
                        owned |-> owned, parted |-> Beside(trip) # {}]
         ELSE IF k \in Beside(trip) THEN [request[k] EXCEPT !.parted = TRUE]
         ELSE request[k]]
  BY DEF Create
<1>2. Same(trip) \subseteq Ids /\ MaxAttempts \in Int
  BY IntakeAssumption DEF Same, Typed
<1>3. \A r \in RequestRecs : /\ [r EXCEPT !.parted = TRUE] \in RequestRecs
                              /\ [r EXCEPT !.parted = TRUE].at = r.at
                              /\ [r EXCEPT !.parted = TRUE].id = r.id
                              /\ [r EXCEPT !.parted = TRUE].trip = r.trip
                              /\ [r EXCEPT !.parted = TRUE].found = r.found
                              /\ [r EXCEPT !.parted = TRUE].owned = r.owned
                              /\ [r EXCEPT !.parted = TRUE].parted
  BY DEF RequestRecs
<1>4. \A k \in Http \ {h} : Same1(k) /\ request'[k] \in RequestRecs
                             /\ (k \in Beside(trip) => request'[k].parted)
  BY <1>1, <1>3 DEF Typed, Same1
<1>5. /\ request'[h].at = "save" /\ request'[h].id = NoId
      /\ request'[h].trip = trip /\ request'[h].found = Same(trip)
      /\ request'[h].parted = (Beside(trip) # {})
  BY <1>1 DEF FindDuplicate
<1>6. request'[h] \in RequestRecs
  BY <1>1, <1>2 DEF FindDuplicate, RequestRecs, Creating
<1>7. request' \in [Http -> RequestRecs]
  BY <1>1, <1>4, <1>6
<1> QED
  BY <1>4, <1>5, <1>7 DEF Create, database, queues

\* Claims of the trip that are not found, and claims found that are of another.
Missed(i, found) == (Same(claims[i].trip) \ (found \cup {i}))
                      \cup (found \ Same(claims[i].trip))

\* revokeClaim reads the duplicates the claim knows of.
LEMMA RevokeEffect ==
  ASSUME Typed, NEW h \in Http, NEW i \in Claims, Revoke(h, i)
  PROVE  /\ request' \in [Http -> RequestRecs]
         /\ request'[h].at = "archive" /\ request'[h].id = i
         /\ request'[h].trip = claims[i].trip
         /\ request'[h].found = {b \in Claims : <<i, b>> \in links}
         /\ \A k \in Http \ {h} : Same1(k)
         /\ \A k \in Http \ {h} :
              k \in Beside(claims[i].trip) => request'[k].parted
         /\ past' = [j \in Ids |-> past[j]
              \cup (IF j \in request'[h].found \cup {i} THEN {"revoked"} ELSE {})
              \cup (IF j \in Missed(i, request'[h].found) THEN {"missed"} ELSE {})
              \cup (IF j \in {request[k].id : k \in Beside(claims[i].trip)}
                    THEN {"parted"} ELSE {})]
         /\ UNCHANGED <<claims, links, jobs, worker>>
<1> DEFINE found == {b \in Claims : <<i, b>> \in links}
           r == [Rest EXCEPT !.at = "archive", !.id = i, !.found = found,
                             !.trip = claims[i].trip]
<1>1. request' = [k \in Http |->
         IF k = h THEN r
         ELSE IF k \in Beside(claims[i].trip) THEN [request[k] EXCEPT !.parted = TRUE]
         ELSE request[k]]
  BY DEF Revoke
<1>2. i \in Ids /\ claims[i].trip \in Trips /\ found \in SUBSET Ids
  BY DEF Typed, ClaimRecs
<1>3. /\ r \in RequestRecs /\ r.at = "archive" /\ r.id = i
      /\ r.trip = claims[i].trip /\ r.found = found
  <2>1. PICK t \in Trips : t = claims[i].trip
    BY <1>2
  <2> HIDE DEF found
  <2>2. /\ [Rest EXCEPT !.at = "archive", !.id = i, !.found = found, !.trip = t]
             \in RequestRecs
        /\ [Rest EXCEPT !.at = "archive", !.id = i, !.found = found, !.trip = t].at
             = "archive"
        /\ [Rest EXCEPT !.at = "archive", !.id = i, !.found = found, !.trip = t].id = i
        /\ [Rest EXCEPT !.at = "archive", !.id = i, !.found = found, !.trip = t].found
             = found
        /\ [Rest EXCEPT !.at = "archive", !.id = i, !.found = found, !.trip = t].trip = t
    BY <1>2, RestFields DEF RequestRecs, Revoking
  <2> QED
    BY <2>1, <2>2
<1>4. \A q \in RequestRecs : /\ [q EXCEPT !.parted = TRUE] \in RequestRecs
                              /\ [q EXCEPT !.parted = TRUE].at = q.at
                              /\ [q EXCEPT !.parted = TRUE].id = q.id
                              /\ [q EXCEPT !.parted = TRUE].trip = q.trip
                              /\ [q EXCEPT !.parted = TRUE].found = q.found
                              /\ [q EXCEPT !.parted = TRUE].owned = q.owned
                              /\ [q EXCEPT !.parted = TRUE].parted
  BY DEF RequestRecs
<1>5. request'[h] = r
  BY <1>1
<1> HIDE DEF r
<1>6. \A k \in Http \ {h} : Same1(k) /\ request'[k] \in RequestRecs
                /\ (k \in Beside(claims[i].trip) => request'[k].parted)
  BY <1>1, <1>4 DEF Typed, Same1
<1>7. request' \in [Http -> RequestRecs]
  BY <1>1, <1>3, <1>6
<1>8. past' = [j \in Ids |-> past[j]
         \cup (IF j \in found \cup {i} THEN {"revoked"} ELSE {})
         \cup (IF j \in Missed(i, found) THEN {"missed"} ELSE {})
         \cup (IF j \in {request[k].id : k \in Beside(claims[i].trip)}
               THEN {"parted"} ELSE {})]
  BY DEF Revoke, Missed
<1>9. UNCHANGED <<claims, links, jobs, worker>>
  BY DEF Revoke, database, queues
<1>10. request'[h].found = found
  BY <1>3, <1>5
<1> HIDE DEF found
<1>11. /\ request'[h].at = "archive" /\ request'[h].id = i
       /\ request'[h].trip = claims[i].trip
  BY <1>3, <1>5
<1> QED
  BY <1>6, <1>7, <1>8, <1>9, <1>10, <1>11 DEF found

\* A claim is made with the trip and the owner of its request.
LEMMA SaveEffect ==
  ASSUME Typed, NEW h \in Http, NEW id \in Ids, Save(h, id)
  PROVE  /\ request' \in [Http -> RequestRecs]
         /\ request'[h].at = "reverse" /\ request'[h].id = id
         /\ request'[h].trip = request[h].trip
         /\ request'[h].found = request[h].found
         /\ request'[h].owned = request[h].owned
         /\ \A k \in Http \ {h} : request'[k] = request[k]
         /\ Claims' = Claims \cup {id}
         /\ \A i \in Claims : claims'[i] = claims[i]
         /\ claims'[id].trip = request[h].trip
         /\ claims'[id].owned = request[h].owned
         /\ claims'[id].step = DEFAULT_STEP
         /\ request[h].trip \in Trips => claims' \in [Claims' -> ClaimRecs]
<1>1. request' = [request EXCEPT ![h].at = "reverse", ![h].id = id]
  BY DEF Save
<1>5. request \in [Http -> RequestRecs]
  BY DEF Typed
<1>2. request' \in [Http -> RequestRecs]
  BY <1>1, <1>5 DEF RequestRecs, Creating
<1>3. /\ request'[h].at = "reverse" /\ request'[h].id = id
      /\ request'[h].trip = request[h].trip /\ request'[h].found = request[h].found
      /\ request'[h].owned = request[h].owned
  BY <1>1, <1>5 DEF RequestRecs, Creating
<1>4. \A k \in Http \ {h} : request'[k] = request[k]
  BY <1>1 DEF Typed
<1> DEFINE new == [trip |-> request[h].trip, step |-> DEFAULT_STEP,
                   archived |-> FALSE, active |-> TRUE, owned |-> request[h].owned]
<1>6. claims' = [i \in Claims \cup {id} |-> IF i = id THEN new ELSE claims[i]]
  BY DEF Save
<1>7. Claims' = Claims \cup {id}
  BY <1>6 DEF Claims
<1>8. \A i \in Claims : claims'[i] = claims[i]
  BY <1>6 DEF Save
<1>9. /\ claims'[id].trip = request[h].trip /\ claims'[id].owned = request[h].owned
      /\ claims'[id].step = DEFAULT_STEP
  BY <1>6
<1>10. request[h].owned \in BOOLEAN
  BY DEF Typed, RequestRecs
<1>11. request[h].trip \in Trips => new \in ClaimRecs
  BY <1>10 DEF ClaimRecs
<1>12. request[h].trip \in Trips => claims' \in [Claims' -> ClaimRecs]
  BY <1>6, <1>7, <1>11 DEF Typed
<1> QED
  BY <1>2, <1>3, <1>4, <1>7, <1>8, <1>9, <1>12

-----------------------------------------------------------------------------
(* What the steps do to the claims.                                        *)

\* Linking the owner changes nothing else of a claim.
LEMMA LinkOwnerEffect ==
  ASSUME Typed, NEW h \in Http, request[h].id \in Claims,
         claims' = [claims EXCEPT ![request[h].id].owned = TRUE]
  PROVE  /\ Claims' = Claims /\ claims' \in [Claims -> ClaimRecs]
         /\ claims'[request[h].id].owned
         /\ \A i \in Claims : /\ claims'[i].trip = claims[i].trip
                              /\ claims[i].owned => claims'[i].owned
                              /\ claims'[i].step = claims[i].step
                              /\ claims'[i].archived = claims[i].archived
                              /\ claims'[i].active = claims[i].active
         /\ \A i \in Claims \ {request[h].id} : claims'[i] = claims[i]
<1>1. claims \in [Claims -> ClaimRecs]
  BY DEF Typed
<1>2. DOMAIN claims' = DOMAIN claims
  BY <1>1
<1> QED
  BY <1>1, <1>2 DEF Claims, ClaimRecs

\* Archiving changes only the claims that were found.
LEMMA ArchiveEffect ==
  ASSUME Typed, NEW h \in Http, ArchiveDuplicates(h)
  PROVE  /\ Claims' = Claims /\ claims' \in [Claims -> ClaimRecs]
         /\ \A i \in Claims : /\ claims'[i].trip = claims[i].trip
                              /\ claims'[i].owned = claims[i].owned
         /\ \A i \in Claims \ request[h].found : claims'[i] = claims[i]
<1>1. claims \in [Claims -> ClaimRecs]
  BY DEF Typed
<1>2. claims' = [i \in Claims |-> IF i \in request[h].found
                                 THEN [claims[i] EXCEPT !.archived = TRUE]
                                 ELSE claims[i]]
  BY DEF ArchiveDuplicates
<1>3. Claims' = Claims
  BY <1>2 DEF Claims
<1> QED
  BY <1>1, <1>2, <1>3 DEF ClaimRecs

\* What the customer and the back office edit.
EditStep(i) == \/ \E step \in Steps : UpdateClaim(i, step)
               \/ UploadSign(i) \/ ArchiveClaim(i) \/ ChangeStatus(i)

\* An edit changes one claim, neither its trip nor its owner.
LEMMA EditEffect ==
  ASSUME Typed, NEW i \in Claims, EditStep(i)
  PROVE  /\ Claims' = Claims /\ claims' \in [Claims -> ClaimRecs]
         /\ \A k \in Claims : /\ claims'[k].trip = claims[k].trip
                              /\ claims'[k].owned = claims[k].owned
         /\ \A k \in Claims \ {i} : claims'[k] = claims[k]
         /\ Changed({i})
         /\ UNCHANGED <<links, request, jobs, past>>
<1>1. claims \in [Claims -> ClaimRecs] /\ claims[i] \in ClaimRecs
  BY DEF Typed
<1> DEFINE Edited == \E claim \in ClaimRecs, event \in {"customer", "staff"} :
              /\ claim.trip = claims[i].trip /\ claim.owned = claims[i].owned
              /\ Edit(i, event, claim)
<1>6. Edited
  <2>1. ASSUME NEW step \in Steps, UpdateClaim(i, step)
        PROVE  Edited
    <3> DEFINE c == [claims[i] EXCEPT !.step = step]
    <3>1. c \in ClaimRecs /\ c.trip = claims[i].trip /\ c.owned = claims[i].owned
      BY <1>1 DEF ClaimRecs
    <3>2. Edit(i, "customer", c)
      BY <2>1 DEF UpdateClaim
    <3> QED
      BY <3>1, <3>2
  <2>2. CASE UploadSign(i)
    <3> DEFINE c == [claims[i] EXCEPT !.step = SIGN_STEP]
    <3>1. c \in ClaimRecs /\ c.trip = claims[i].trip /\ c.owned = claims[i].owned
      BY <1>1 DEF ClaimRecs
    <3>2. Edit(i, "customer", c)
      BY <2>2 DEF UploadSign
    <3> QED
      BY <3>1, <3>2
  <2>3. CASE ArchiveClaim(i)
    <3>1. PICK b \in BOOLEAN : Edit(i, "staff", [claims[i] EXCEPT !.archived = b])
      BY <2>3 DEF ArchiveClaim
    <3> DEFINE c == [claims[i] EXCEPT !.archived = b]
    <3>2. c \in ClaimRecs /\ c.trip = claims[i].trip /\ c.owned = claims[i].owned
      BY <1>1 DEF ClaimRecs
    <3> QED
      BY <3>1, <3>2
  <2>4. CASE ChangeStatus(i)
    <3>1. PICK b \in BOOLEAN : Edit(i, "staff", [claims[i] EXCEPT !.active = b])
      BY <2>4 DEF ChangeStatus
    <3> DEFINE c == [claims[i] EXCEPT !.active = b]
    <3>2. c \in ClaimRecs /\ c.trip = claims[i].trip /\ c.owned = claims[i].owned
      BY <1>1 DEF ClaimRecs
    <3> QED
      BY <3>1, <3>2
  <2> QED
    BY <2>1, <2>2, <2>3, <2>4 DEF EditStep
<1>2. PICK claim \in ClaimRecs, event \in {"customer", "staff"} :
              /\ claim.trip = claims[i].trip /\ claim.owned = claims[i].owned
              /\ Edit(i, event, claim)
  BY <1>6
<1>3. claims' = [claims EXCEPT ![i] = claim]
  BY <1>2 DEF Edit
<1>4. Claims' = Claims
  BY <1>3 DEF Claims
<1>5. Changed({i}) /\ UNCHANGED <<links, request, jobs, past>>
  BY <1>2 DEF Edit
<1> QED
  BY <1>1, <1>2, <1>3, <1>4, <1>5

\* A claim that is deleted takes its links along, and leaves its jobs.
LEMMA DeleteEffect ==
  ASSUME Typed, NEW i \in Claims, DeleteClaim(i)
  PROVE  /\ Claims' = Claims \ {i} /\ claims' \in [Claims' -> ClaimRecs]
         /\ \A k \in Claims \ {i} : claims'[k] = claims[k]
         /\ links' = {l \in links : i \notin {l[1], l[2]}}
         /\ past' = Mark({i}, "deleted")
         /\ Changed({i})
         /\ UNCHANGED <<request, jobs>>
  BY DEF DeleteClaim, Claims, Typed

-----------------------------------------------------------------------------
(* What the steps do to the jobs and the workers.                          *)

\* A worker without a job.
LEMMA IdleFields ==
  /\ Idle \in WorkerRecs /\ Idle.at = "rest" /\ Idle.job.kind = "none"
  /\ Idle.job.id = NoId /\ Idle.job.sent = 0 /\ ~Idle.job.stalled
  /\ Idle.job.unstored = 0 /\ ~Idle.changed /\ Idle.job \in JobRecs
  BY IntakeAssumption DEF Idle, Job, WorkerRecs, WorkerPlaces, JobRecs

\* A job as it is added.
LEMMA JobFields ==
  ASSUME NEW kind \in Kinds, NEW i \in Ids, NEW n \in Nat, NEW m \in Nat
  PROVE  /\ Job(kind, i, n, m) \in Queued
         /\ Job(kind, i, n, m).kind = kind /\ Job(kind, i, n, m).id = i
         /\ Job(kind, i, n, m).sent = 0 /\ ~Job(kind, i, n, m).stalled
         /\ Job(kind, i, n, m).unstored = 0
  BY IntakeAssumption DEF Job, Queued, JobRecs

\* Only a follow-up is tried again, and it remembers what it sent.
LEMMA RetriedFields ==
  ASSUME NEW j \in Queued
  PROVE  /\ Retried(j) \subseteq Queued /\ IsFiniteSet(Retried(j))
         /\ \A r \in Retried(j) : /\ r.kind = "followUpClaim" /\ r.id = j.id
                                  /\ r.sent = j.sent /\ r.stalled = j.stalled
                                  /\ r.unstored = j.unstored
<1>1. CASE j.kind = "followUpClaim" /\ j.tries + 1 < Attempts
  <2> DEFINE r == [j EXCEPT !.tries = @ + 1]
  <2>1. Retried(j) = {r}
    BY <1>1 DEF Retried
  <2>2. j.tries + 1 \in 0..(Attempts - 1)
    BY <1>1, IntakeAssumption DEF Queued, JobRecs
  <2>3. /\ r \in Queued /\ r.kind = j.kind /\ r.id = j.id
        /\ r.sent = j.sent /\ r.stalled = j.stalled
        /\ r.unstored = j.unstored
    BY <2>2 DEF Queued, JobRecs
  <2> HIDE DEF r
  <2> QED
    BY <1>1, <2>1, <2>3, FS_Singleton
<1>2. CASE ~(j.kind = "followUpClaim" /\ j.tries + 1 < Attempts)
  BY <1>2, FS_EmptySet DEF Retried
<1> QED
  BY <1>1, <1>2

\* A job returns once from a worker that stopped.
LEMMA StalledFields ==
  ASSUME NEW j \in Queued
  PROVE  /\ Stalled(j) \subseteq Queued /\ IsFiniteSet(Stalled(j))
         /\ \A r \in Stalled(j) : /\ r.kind = j.kind /\ r.id = j.id /\ r.stalled
                                  /\ r.sent = j.sent /\ r.unstored = j.unstored
         /\ j.stalled => Stalled(j) = {}
         /\ ~j.stalled => Stalled(j) # {}
<1> DEFINE r == [j EXCEPT !.stalled = TRUE]
<1>1. /\ r \in Queued /\ r.kind = j.kind /\ r.id = j.id /\ r.stalled
      /\ r.sent = j.sent /\ r.unstored = j.unstored
  BY DEF Queued, JobRecs
<1>2. Stalled(j) = IF j.stalled THEN {} ELSE {r}
  BY DEF Stalled
<1> HIDE DEF r
<1> QED
  BY <1>1, <1>2, FS_EmptySet, FS_Singleton

\* A claim that changes is marked with every job that read it.
LEMMA ChangedEffect ==
  ASSUME Typed, NEW ids \in SUBSET Ids, Changed(ids)
  PROVE  /\ worker' \in [Kinds -> WorkerRecs]
         /\ \A k \in Kinds :
              /\ worker'[k].at = worker[k].at /\ worker'[k].job = worker[k].job
              /\ worker[k] = Idle => worker'[k] = Idle
              /\ worker[k].changed => worker'[k].changed
              /\ worker[k].job.id \in ids => worker'[k].changed
<1>1. /\ worker \in [Kinds -> WorkerRecs]
      /\ worker' = [k \in Kinds |-> IF worker[k].job.id \in ids
                                     THEN [worker[k] EXCEPT !.changed = TRUE]
                                     ELSE worker[k]]
  BY DEF Typed, Changed
<1>2. Idle.job.id \notin ids
  BY IdleFields, IntakeAssumption
<1> QED
  BY <1>1, <1>2 DEF WorkerRecs

\* A worker that is done with a job, and one that goes on to its next call.
LEMMA IdleEffect ==
  ASSUME Typed, NEW kind \in Kinds, worker' = [worker EXCEPT ![kind] = Idle]
  PROVE  /\ worker' \in [Kinds -> WorkerRecs] /\ worker'[kind] = Idle
         /\ \A k \in Kinds \ {kind} : worker'[k] = worker[k]
  BY IdleFields DEF Typed

LEMMA OnEffect ==
  ASSUME Typed, NEW kind \in Kinds, NEW call \in WorkerPlaces,
         worker' = [worker EXCEPT ![kind].at = call]
  PROVE  /\ worker' \in [Kinds -> WorkerRecs] /\ worker'[kind].at = call
         /\ worker'[kind].job = worker[kind].job
         /\ worker'[kind].changed = worker[kind].changed
         /\ \A k \in Kinds \ {kind} : worker'[k] = worker[k]
  BY DEF Typed, WorkerPlaces, WorkerRecs

LEMMA SentEffect ==
  ASSUME Typed, NEW kind \in Kinds, NEW call \in WorkerPlaces,
         worker' = [worker EXCEPT ![kind].at = call, ![kind].job.sent = @ + 1]
  PROVE  /\ worker' \in [Kinds -> WorkerRecs] /\ worker'[kind].at = call
         /\ worker'[kind].changed = worker[kind].changed
         /\ worker'[kind].job.kind = worker[kind].job.kind
         /\ worker'[kind].job.id = worker[kind].job.id
         /\ worker'[kind].job.stalled = worker[kind].job.stalled
         /\ worker'[kind].job.sent = worker[kind].job.sent + 1
         /\ worker'[kind].job.unstored = worker[kind].job.unstored
         /\ \A k \in Kinds \ {kind} : worker'[k] = worker[k]
<1>1. worker \in [Kinds -> WorkerRecs] /\ worker[kind] \in WorkerRecs
      /\ worker[kind].job \in JobRecs /\ worker[kind].job.sent \in Nat
  BY DEF Typed, WorkerRecs, JobRecs
<1> DEFINE j == [worker[kind].job EXCEPT !.sent = @ + 1]
           w == [worker[kind] EXCEPT !.at = call, !.job = j]
<1>2. /\ j \in JobRecs /\ j.kind = worker[kind].job.kind /\ j.id = worker[kind].job.id
      /\ j.stalled = worker[kind].job.stalled /\ j.sent = worker[kind].job.sent + 1
      /\ j.unstored = worker[kind].job.unstored
  BY <1>1 DEF JobRecs
<1>3. worker' = [worker EXCEPT ![kind] = w]
  BY <1>1 DEF WorkerRecs
<1> HIDE DEF j
<1>4. /\ w \in WorkerRecs /\ w.at = call /\ w.job = j
      /\ w.changed = worker[kind].changed
  BY <1>1, <1>2 DEF WorkerPlaces, WorkerRecs
<1> HIDE DEF w
<1> QED
  BY <1>1, <1>2, <1>3, <1>4

-----------------------------------------------------------------------------
(* Type correctness.                                                       *)

\* The history holds marks only.
LEMMA MarkType ==
  ASSUME Typed, NEW ids, NEW what \in Marks
  PROVE  Mark(ids, what) \in [Ids -> SUBSET Marks]
  BY DEF Typed, Mark

LEMMA EndedByType ==
  ASSUME Typed, NEW j
  PROVE  EndedBy(j) \in [Ids -> SUBSET Marks]
  BY MarkType DEF EndedBy, Marks, Typed

\* Among the first numbers there is one that no job of the claim has.
LEMMA FreeNumber ==
  ASSUME NEW S, IsFiniteSet(S)
  PROVE  \E n \in 1..(Cardinality(S) + 1) : n \notin {j.n : j \in S}
<1> DEFINE T == {j.n : j \in S}
           N == 1..(Cardinality(S) + 1)
           f == [j \in S |-> j.n]
<1>1. f \in Surjection(S, T)
  BY DEF Surjection
<1>2. /\ IsFiniteSet(T) /\ Cardinality(T) <= Cardinality(S)
      /\ Cardinality(S) \in Nat /\ Cardinality(T) \in Nat
  <2> HIDE DEF f, T
  <2>1. IsFiniteSet(T) /\ Cardinality(T) <= Cardinality(S)
    BY <1>1, FS_Surjection
  <2> QED
    BY <2>1, FS_CardinalityType
<1>3. Cardinality(N) = Cardinality(S) + 1
  BY <1>2, FS_Interval
<1>4. ~(N \subseteq T)
  <2> HIDE DEF N, T
  <2> QED
    BY <1>2, <1>3, FS_Subset
<1> QED
  BY <1>4

\* The jobs of a claim are finitely many, so they can be counted.
LEMMA JobsOfFinite ==
  ASSUME Typed, NEW kind, NEW i
  PROVE  IsFiniteSet(JobsOf(kind, i))
<1>1. IsFiniteSet(jobs \cup {worker[kind].job})
  BY FS_AddElement DEF Typed
<1> QED
  BY <1>1, FS_Subset DEF JobsOf

LEMMA UnusedType ==
  ASSUME Typed, NEW kind, NEW i
  PROVE  Unused(kind, i) \in Nat
<1> DEFINE others == JobsOf(kind, i)
<1>1. IsFiniteSet(others)
  BY JobsOfFinite
<1>2. Cardinality(others) \in Nat
  BY <1>1, FS_CardinalityType
<1>3. \E m \in 1..(Cardinality(others) + 1) : m \notin {j.n : j \in others}
  BY <1>1, FreeNumber
<1>4. Unused(kind, i) = CHOOSE n \in 1..(Cardinality(others) + 1) :
                          n \notin {j.n : j \in others}
  BY DEF Unused
<1> HIDE DEF others
<1>5. Unused(kind, i) \in 1..(Cardinality(others) + 1)
  BY <1>3, <1>4
<1> QED
  BY <1>2, <1>5

\* A job that a call threw out of keeps all but the count of unstored mails.
LEMMA ThrownFields ==
  ASSUME Typed, Placed, NEW kind \in Kinds, worker[kind] # Idle
  PROVE  LET j == worker[kind].job  t == Thrown(kind)
         IN /\ t \in Queued /\ t.kind = j.kind /\ t.id = j.id
            /\ t.sent = j.sent /\ t.stalled = j.stalled
            /\ t.unstored = j.unstored + IF worker[kind].at = "store" THEN 1 ELSE 0
<1>1. worker[kind].job \in Queued
  BY DEF Placed
<1>2. worker[kind].job.unstored \in Nat
  BY <1>1 DEF Queued, JobRecs
<1> DEFINE t == [worker[kind].job EXCEPT !.unstored = @ + 1]
<1>3. /\ t \in Queued /\ t.kind = worker[kind].job.kind /\ t.id = worker[kind].job.id
      /\ t.sent = worker[kind].job.sent /\ t.stalled = worker[kind].job.stalled
      /\ t.unstored = worker[kind].job.unstored + 1
  BY <1>1, <1>2 DEF Queued, JobRecs
<1>4. Thrown(kind) = IF worker[kind].at = "store" THEN t ELSE worker[kind].job
  BY DEF Thrown, Doing
<1> HIDE DEF t
<1> QED
  BY <1>1, <1>2, <1>3, <1>4

\* What a worker does, one relation for each outcome.
Takes(kind, j) ==
  /\ j \in jobs /\ j.kind = kind /\ worker[kind] = Idle
  /\ j.id \in Claims /\ Wants(kind, j.id)
  /\ jobs' = jobs \ {j} /\ past' = past
  /\ worker'[kind].at = IF kind = "followUpClaim" THEN "record" ELSE "letter"
  /\ worker'[kind].job = j /\ ~worker'[kind].changed
Drops(kind, j) ==
  /\ j \in jobs /\ j.kind = kind
  /\ worker[kind] = Idle /\ worker'[kind] = Idle
  /\ \E r \in {{}, Retried(j)} : jobs' = (jobs \ {j}) \cup r
  /\ past' = EndedBy(j)
Throws(kind) ==
  /\ worker[kind].at \in {"record", "letter", "store", "next"}
  /\ worker'[kind] = Idle
  /\ jobs' = jobs \cup Retried(Thrown(kind)) /\ past' = EndedBy(worker[kind].job)
Records(kind) ==
  /\ kind = "followUpClaim" /\ worker[kind].at = "record"
  /\ worker'[kind].at = "letter"
  /\ worker'[kind].job = worker[kind].job /\ worker'[kind].changed = worker[kind].changed
  /\ UNCHANGED <<jobs, past>>
Sends(kind) ==
  /\ worker[kind].at = "letter"
  /\ worker'[kind].at = "store"
  /\ worker'[kind].changed = worker[kind].changed
  /\ worker'[kind].job.kind = worker[kind].job.kind
  /\ worker'[kind].job.id = worker[kind].job.id
  /\ worker'[kind].job.stalled = worker[kind].job.stalled
  /\ worker'[kind].job.sent = worker[kind].job.sent + 1
  /\ worker'[kind].job.unstored = worker[kind].job.unstored
  /\ UNCHANGED <<jobs, past>>
Stores(kind) ==
  /\ worker[kind].at \in {"letter", "store"}
  /\ worker'[kind].at = IF kind = "followUpClaim" THEN "done" ELSE "next"
  /\ worker'[kind].job = worker[kind].job /\ worker'[kind].changed = worker[kind].changed
  /\ UNCHANGED <<jobs, past>>
Schedules(kind) ==
  /\ kind = "claimReminder" /\ worker[kind].at = "next"
  /\ worker'[kind].at = "done"
  /\ worker'[kind].job = worker[kind].job /\ worker'[kind].changed = worker[kind].changed
  /\ \E n \in Nat : jobs' = jobs \cup {Job(kind, worker[kind].job.id, n, 1)}
  /\ past' = past
Ends(kind) ==
  /\ worker[kind].at = "done" /\ worker'[kind] = Idle
  /\ UNCHANGED <<jobs, past>>

WorkStep(kind) ==
  /\ \/ \E j \in jobs : Takes(kind, j) \/ Drops(kind, j)
     \/ Throws(kind) \/ Records(kind) \/ Sends(kind) \/ Stores(kind)
     \/ Schedules(kind) \/ Ends(kind)
  /\ worker' \in [Kinds -> WorkerRecs]
  /\ \A k \in Kinds \ {kind} : worker'[k] = worker[k]
  /\ UNCHANGED <<claims, links, request>>

\* A worker is idle, or at a call of its kind with a job of its kind.
LEMMA WorkerAt ==
  ASSUME Typed, Placed, NEW kind \in Kinds
  PROVE  /\ worker[kind] \in WorkerRecs
         /\ worker[kind].at = "rest" <=> worker[kind] = Idle
         /\ worker[kind] # Idle => /\ worker[kind].at \in CallsAt(kind)
                                  /\ worker[kind].job \in Queued
                                  /\ worker[kind].job.kind = kind
  BY IdleFields DEF Typed, Placed, CallsAt

\* A job that throws leaves its worker idle.
LEMMA ThrowsEffect ==
  ASSUME Typed, Placed, NEW kind \in Kinds, JobThrows(kind),
         worker[kind].at \in {"record", "letter", "store", "next"}
  PROVE  WorkStep(kind)
<1>1. /\ worker' \in [Kinds -> WorkerRecs] /\ worker'[kind] = Idle
      /\ \A k \in Kinds \ {kind} : worker'[k] = worker[k]
  BY IdleEffect DEF JobThrows
<1>2. Throws(kind)
  BY <1>1 DEF JobThrows, Throws
<1> QED
  BY <1>1, <1>2 DEF WorkStep, JobThrows, database

\* A step of a processor has one of the outcomes above.
LEMMA WorkEffect ==
  ASSUME Typed, Placed, NEW kind \in Kinds, Work(kind) \/ CallThrows(kind)
  PROVE  WorkStep(kind)
<1> USE DEF Doing
<1>1. CASE TakeJob(kind)
  <2>1. PICK j \in jobs :
          /\ j.kind = kind
          /\ IF j.id \in Claims /\ Wants(kind, j.id)
             THEN /\ worker' = [worker EXCEPT ![kind] =
                       [at |-> CallsOf(kind)[1], job |-> j, changed |-> FALSE]]
                  /\ jobs' = jobs \ {j} /\ UNCHANGED past
             ELSE /\ jobs' = (jobs \ {j})
                       \cup IF j.id \in Claims THEN {} ELSE Retried(j)
                  /\ past' = EndedBy(j) /\ UNCHANGED worker
    BY <1>1 DEF TakeJob
  <2>2. UNCHANGED <<claims, links, request>> /\ worker[kind] = Idle
    BY <1>1, WorkerAt DEF TakeJob, database
  <2>3. CASE j.id \in Claims /\ Wants(kind, j.id)
    <3> DEFINE w == [at |-> CallsOf(kind)[1], job |-> j, changed |-> FALSE]
    <3>1. w.at = IF kind = "followUpClaim" THEN "record" ELSE "letter"
      BY DEF CallsOf
    <3>2. w \in WorkerRecs /\ w.job = j /\ w.changed = FALSE
      BY <3>1 DEF Typed, Queued, WorkerRecs, WorkerPlaces
    <3>3. worker' = [worker EXCEPT ![kind] = w]
      BY <2>1, <2>3
    <3> HIDE DEF w
    <3>4. /\ worker' \in [Kinds -> WorkerRecs] /\ worker'[kind] = w
          /\ \A k \in Kinds \ {kind} : worker'[k] = worker[k]
      BY <3>2, <3>3 DEF Typed
    <3>5. Takes(kind, j)
      BY <2>1, <2>2, <2>3, <3>1, <3>2, <3>4 DEF Takes
    <3> QED
      BY <2>2, <3>4, <3>5 DEF WorkStep
  <2>4. CASE ~(j.id \in Claims /\ Wants(kind, j.id))
    <3>1. Drops(kind, j)
      BY <2>1, <2>2, <2>4 DEF Drops
    <3>2. worker' = worker
      BY <2>1, <2>4
    <3> QED
      BY <2>2, <3>1, <3>2 DEF WorkStep, Typed
  <2> QED
    BY <2>3, <2>4
<1>2. CASE CreateRecord(kind)
  <2>1. kind = "followUpClaim"
    BY <1>2, WorkerAt, IdleFields DEF CreateRecord, Kinds, CallsAt
  <2>2. Behind(kind, "record") = "letter"
    BY <2>1 DEF Behind, CallsOf
  <2>3. CASE worker[kind].job.id \in Claims
    <3>1. worker' = [worker EXCEPT ![kind].at = "letter"]
      BY <1>2, <2>2, <2>3 DEF CreateRecord
    <3>2. /\ worker' \in [Kinds -> WorkerRecs] /\ worker'[kind].at = "letter"
          /\ worker'[kind].job = worker[kind].job
          /\ worker'[kind].changed = worker[kind].changed
          /\ \A k \in Kinds \ {kind} : worker'[k] = worker[k]
      BY <3>1, OnEffect DEF WorkerPlaces
    <3>3. Records(kind)
      BY <1>2, <2>1, <2>3, <3>2 DEF CreateRecord, Records
    <3> QED
      BY <1>2, <2>3, <3>2, <3>3 DEF WorkStep, CreateRecord, database
  <2>4. CASE worker[kind].job.id \notin Claims
    BY <1>2, <2>4, ThrowsEffect DEF CreateRecord
  <2> QED
    BY <2>3, <2>4
<1>3. CASE SendLetter(kind)
  <2>1. Behind(kind, "letter") = "store"
    BY DEF Behind, CallsOf
  <2>2. worker' = [worker EXCEPT ![kind].at = "store", ![kind].job.sent = @ + 1]
    BY <1>3, <2>1 DEF SendLetter
  <2>3. "store" \in WorkerPlaces
    BY DEF WorkerPlaces
  <2>4. /\ worker' \in [Kinds -> WorkerRecs] /\ worker'[kind].at = "store"
        /\ worker'[kind].changed = worker[kind].changed
        /\ worker'[kind].job.kind = worker[kind].job.kind
        /\ worker'[kind].job.id = worker[kind].job.id
        /\ worker'[kind].job.stalled = worker[kind].job.stalled
        /\ worker'[kind].job.sent = worker[kind].job.sent + 1
        /\ worker'[kind].job.unstored = worker[kind].job.unstored
        /\ \A k \in Kinds \ {kind} : worker'[k] = worker[k]
    BY <2>2, <2>3, SentEffect
  <2>5. Sends(kind)
    BY <1>3, <2>4 DEF SendLetter, Sends
  <2> QED
    BY <1>3, <2>4, <2>5 DEF WorkStep, SendLetter, database
<1>7. CASE SendNothing(kind) \/ StoreMail(kind)
  <2> DEFINE call == IF kind = "followUpClaim" THEN "done" ELSE "next"
  <2>1. Behind(kind, "store") = call
    BY DEF Behind, CallsOf, Kinds
  <2>2. /\ worker[kind].at \in {"letter", "store"}
        /\ UNCHANGED <<claims, links, request>>
    BY <1>7 DEF SendNothing, StoreMail, JobThrows, database
  <2>3. CASE /\ worker' = [worker EXCEPT ![kind].at = call]
             /\ UNCHANGED <<jobs, past>>
    <3>1. call \in WorkerPlaces
      BY DEF WorkerPlaces
    <3>2. /\ worker' \in [Kinds -> WorkerRecs] /\ worker'[kind].at = call
          /\ worker'[kind].job = worker[kind].job
          /\ worker'[kind].changed = worker[kind].changed
          /\ \A k \in Kinds \ {kind} : worker'[k] = worker[k]
      <4> HIDE DEF call
      <4> QED
        BY <2>3, <3>1, OnEffect
    <3>3. Stores(kind)
      BY <2>2, <2>3, <3>2 DEF Stores
    <3> QED
      BY <2>2, <3>2, <3>3 DEF WorkStep
  <2>4. CASE JobThrows(kind)
    BY <2>2, <2>4, ThrowsEffect
  <2> QED
    BY <1>7, <2>1, <2>3, <2>4 DEF SendNothing, StoreMail, database
<1>4. CASE EndJob(kind)
  <2>1. /\ worker' \in [Kinds -> WorkerRecs] /\ worker'[kind] = Idle
        /\ \A k \in Kinds \ {kind} : worker'[k] = worker[k]
    BY <1>4, IdleEffect DEF EndJob
  <2>2. Ends(kind)
    BY <1>4, <2>1 DEF EndJob, Ends
  <2> QED
    BY <1>4, <2>1, <2>2 DEF WorkStep, EndJob, database
<1>5. CASE kind = "claimReminder" /\ ScheduleNext
  <2> DEFINE i == worker["claimReminder"].job.id
             n == Unused("claimReminder", i)
  <2>1. n \in Nat
    BY UnusedType
  <2>2. jobs' = jobs \cup {Job("claimReminder", i, n, 1)}
    BY <1>5 DEF ScheduleNext
  <2>3. /\ worker' \in [Kinds -> WorkerRecs] /\ worker'[kind].at = "done"
        /\ worker'[kind].job = worker[kind].job
        /\ worker'[kind].changed = worker[kind].changed
        /\ \A k \in Kinds \ {kind} : worker'[k] = worker[k]
    BY <1>5, OnEffect DEF ScheduleNext, WorkerPlaces
  <2> HIDE DEF n
  <2>4. Schedules(kind)
    BY <1>5, <2>1, <2>2, <2>3 DEF ScheduleNext, Schedules
  <2> QED
    BY <1>5, <2>3, <2>4 DEF WorkStep, ScheduleNext, database
<1>6. CASE CallThrows(kind)
  <2>1. worker[kind].at \in {"record", "letter", "store", "next"}
    BY <1>6, WorkerAt DEF CallThrows, WorkerRecs, WorkerPlaces
  <2> QED
    BY <1>6, <2>1, ThrowsEffect DEF CallThrows
<1> QED
  BY <1>1, <1>2, <1>3, <1>4, <1>5, <1>6, <1>7 DEF Work

\* The steps of the requests, one relation for each outcome.
OnlyRequest(h) ==
  request' \in [Http -> RequestRecs] /\ \A k \in Http \ {h} : request'[k] = request[k]
Moves(h, call) ==
  /\ OnlyRequest(h)
  /\ request'[h].at = call /\ request'[h].id = request[h].id
  /\ request'[h].trip = request[h].trip /\ request'[h].found = request[h].found
  /\ request'[h].owned = request[h].owned /\ request'[h].parted = request[h].parted

Creates(h, trip) ==
  /\ request[h].at = "rest" /\ request' \in [Http -> RequestRecs]
  /\ request'[h].at = "save" /\ request'[h].id = NoId
  /\ request'[h].trip = trip /\ request'[h].found = Same(trip)
  /\ request'[h].parted = (Beside(trip) # {})
  /\ \A k \in Http \ {h} : Same1(k) /\ (k \in Beside(trip) => request'[k].parted)
  /\ past' = Mark({request[k].id : k \in Beside(trip)}, "parted")
  /\ UNCHANGED <<claims, links, jobs, worker>>
Revokes(h, i) ==
  /\ request[h].at = "rest" /\ request' \in [Http -> RequestRecs]
  /\ request'[h].at = "archive" /\ request'[h].id = i
  /\ request'[h].trip = claims[i].trip
  /\ request'[h].found = {b \in Claims : <<i, b>> \in links}
  /\ \A k \in Http \ {h} :
       Same1(k) /\ (k \in Beside(claims[i].trip) => request'[k].parted)
  /\ past' = [j \in Ids |-> past[j]
       \cup (IF j \in request'[h].found \cup {i} THEN {"revoked"} ELSE {})
       \cup (IF j \in Missed(i, request'[h].found) THEN {"missed"} ELSE {})
       \cup (IF j \in {request[k].id : k \in Beside(claims[i].trip)}
             THEN {"parted"} ELSE {})]
  /\ UNCHANGED <<claims, links, jobs, worker>>
Saves(h, id) ==
  /\ request[h].at = "save" /\ OnlyRequest(h)
  /\ id \notin Claims /\ request[h].found \subseteq Claims
  /\ request'[h].at = "reverse" /\ request'[h].id = id
  /\ request'[h].trip = request[h].trip /\ request'[h].found = request[h].found
  /\ request'[h].owned = request[h].owned
  /\ Claims' = Claims \cup {id} /\ claims' \in [Claims' -> ClaimRecs]
  /\ \A i \in Claims : claims'[i] = claims[i]
  /\ claims'[id].trip = request[h].trip /\ claims'[id].owned = request[h].owned
  /\ links' = links \cup ({id} \X request[h].found)
  /\ past' = IF request[h].parted THEN Mark({id}, "parted") ELSE past
  /\ UNCHANGED <<jobs, worker>>
Retries(h) ==
  /\ request[h].at = "save" /\ request' \in [Http -> RequestRecs]
  /\ \A k \in Http : Same1(k) /\ request'[k].parted = request[k].parted
  /\ UNCHANGED <<claims, links, jobs, worker, past>>
Leaves(h) ==
  /\ request[h].at # "rest" /\ OnlyRequest(h) /\ request'[h] = Rest
  /\ past' = IF request[h].at \in Made THEN Mark({request[h].id}, "broken") ELSE past
  /\ UNCHANGED <<claims, links, jobs, worker>>
Reverses(h) ==
  /\ request[h].at = "reverse"
  /\ Moves(h, IF request[h].owned THEN "followUps" ELSE "owner")
  /\ request[h].found = {} \/ request[h].found \cup {request[h].id} \subseteq Claims
  /\ links' = links \cup (request[h].found \X {request[h].id})
  /\ UNCHANGED <<claims, jobs, worker, past>>
Owns(h) ==
  /\ request[h].at = "owner" /\ Moves(h, "followUps") /\ request[h].id \in Claims
  /\ claims' = [claims EXCEPT ![request[h].id].owned = TRUE]
  /\ UNCHANGED <<links, jobs, worker, past>>
AddsJobs(h) ==
  /\ \/ /\ request[h].at = "followUps" /\ Moves(h, "reminder")
        /\ \E n \in Nat : jobs' = jobs \cup
             {Job("followUpClaim", request[h].id, n, m) : m \in 1..FollowUps}
     \/ /\ request[h].at = "reminder" /\ Moves(h, "flight")
        /\ \E n \in Nat : jobs' = jobs \cup {Job("claimReminder", request[h].id, n, 1)}
  /\ UNCHANGED <<claims, links, worker, past>>
Answers(h) ==
  /\ request[h].at = "flight" /\ OnlyRequest(h) /\ request'[h] = Rest
  /\ past' = Mark({request[h].id}, "answered")
  /\ UNCHANGED <<claims, links, jobs, worker>>
Archives(h) ==
  /\ request[h].at = "archive" /\ Moves(h, "unlink") /\ ArchiveDuplicates(h)
Unlinks(h) ==
  /\ request[h].at = "unlink" /\ OnlyRequest(h) /\ request'[h] = Rest
  /\ links' = links \ LinksOf(h)
  /\ UNCHANGED <<claims, jobs, worker, past>>

RequestStep(h) ==
  \/ \E trip \in Trips : Creates(h, trip)
  \/ \E i \in Claims : Revokes(h, i)
  \/ \E id \in Ids : Saves(h, id)
  \/ Retries(h) \/ Leaves(h) \/ Reverses(h) \/ Owns(h) \/ AddsJobs(h)
  \/ Answers(h) \/ Archives(h) \/ Unlinks(h)

\* A request that fails: behind the commit its claim is marked.
LEMMA LeavesEffect ==
  ASSUME Typed, Placed, NEW h \in Http, request[h].at # "rest",
         request' = [request EXCEPT ![h] = Rest],
         \/ past' = Mark({request[h].id}, "broken") /\ request[h].at \in Creating
         \/ past' = past /\ request[h].at \notin Made,
         UNCHANGED <<claims, links, jobs, worker>>
  PROVE  Leaves(h)
<1>1. OnlyRequest(h) /\ request'[h] = Rest
  BY EndEffect DEF OnlyRequest
<1>2. past' = IF request[h].at \in Made THEN Mark({request[h].id}, "broken") ELSE past
  <2>1. CASE request[h].at = "save"
    <3>1. request[h].id \notin Ids
      BY <2>1, IntakeAssumption DEF Placed
    <3>2. Mark({request[h].id}, "broken") = past
      BY <3>1 DEF Mark, Typed
    <3> QED
      BY <2>1, <3>2 DEF Made
  <2>2. CASE request[h].at # "save"
    BY <2>2 DEF Made
  <2> QED
    BY <2>1, <2>2
<1> QED
  BY <1>1, <1>2 DEF Leaves

\* A request that goes on to its next call keeps what it holds.
LEMMA GoMoves ==
  ASSUME Typed, NEW h \in Http, NEW call \in Places, Go(h, call)
  PROVE  Moves(h, call)
  BY GoEffect DEF Moves, OnlyRequest

\* A step of a handler has one of the outcomes above.
LEMMA RequestEffect ==
  ASSUME Typed, Placed, NEW h \in Http,
         \/ \E trip \in Trips : Create(h, trip)
         \/ \E i \in Claims : Revoke(h, i)
         \/ Proceed(h) \/ RequestThrows(h)
  PROVE  RequestStep(h)
<1> USE DEF At
<1>1. ASSUME NEW trip \in Trips, Create(h, trip)
      PROVE  Creates(h, trip)
  <2>1. request[h].at = "rest"
    BY <1>1 DEF Create
  <2> QED
    BY <1>1, <2>1, CreateEffect DEF Creates
<1>2. ASSUME NEW i \in Claims, Revoke(h, i)
      PROVE  Revokes(h, i)
  <2>1. request[h].at = "rest"
    BY <1>2 DEF Revoke
  <2> QED
    BY <1>2, <2>1, RevokeEffect DEF Revokes
<1>3. ASSUME NEW id \in Ids, Save(h, id)
      PROVE  Saves(h, id)
  <2>1. request[h].at = "save" /\ request[h].trip \in Trips
    BY <1>3 DEF Save, Placed
  <2> QED
    BY <1>3, <2>1, SaveEffect DEF Saves, Save, OnlyRequest, queues
<1>4. ASSUME NEW id \in Ids, IdTaken(h, id)
      PROVE  Retries(h) \/ Leaves(h)
  <2>1. CASE request[h].left > 1
    <3>1. request \in [Http -> RequestRecs] /\ request[h].left \in Int
      BY DEF Typed, RequestRecs
    <3>2. request' = [request EXCEPT ![h].left = @ - 1]
      BY <1>4, <2>1 DEF IdTaken
    <3>3. request' \in [Http -> RequestRecs]
      BY <3>1, <3>2 DEF RequestRecs
    <3>4. \A k \in Http : Same1(k) /\ request'[k].parted = request[k].parted
      BY <3>1, <3>2 DEF RequestRecs, Same1
    <3> QED
      BY <1>4, <3>3, <3>4 DEF Retries, IdTaken, database, queues
  <2>2. CASE ~(request[h].left > 1)
    <3>1. request' = [request EXCEPT ![h] = Rest]
      BY <1>4, <2>2 DEF IdTaken
    <3> QED
      BY <1>4, <3>1, LeavesEffect DEF IdTaken, Made, database, queues
  <2> QED
    BY <2>1, <2>2
<1>5. CASE DuplicateGone(h)
  BY <1>5, LeavesEffect DEF RequestStep, DuplicateGone, Made, database, queues
<1>6. CASE Reverse(h)
  <2> DEFINE call == IF request[h].owned THEN "followUps" ELSE "owner"
  <2>1. CASE request[h].found = {} \/ request[h].found \cup {request[h].id} \subseteq Claims
    <3>1. Moves(h, call)
      BY <1>6, <2>1, GoMoves DEF Reverse, Places, Creating
    <3> QED
      BY <1>6, <2>1, <3>1 DEF RequestStep, Reverse, Reverses, queues
  <2>2. CASE ~(request[h].found = {} \/ request[h].found \cup {request[h].id} \subseteq Claims)
    BY <1>6, <2>2, LeavesEffect DEF RequestStep, Reverse, Break, Creating, queues
  <2> QED
    BY <2>1, <2>2
<1>7. CASE LinkOwner(h)
  <2>1. CASE request[h].id \in Claims
    <3>1. Moves(h, "followUps")
      BY <1>7, <2>1, GoMoves DEF LinkOwner, Places, Creating
    <3> QED
      BY <1>7, <2>1, <3>1 DEF RequestStep, LinkOwner, Owns, queues
  <2>2. CASE request[h].id \notin Claims
    BY <1>7, <2>2, LeavesEffect DEF RequestStep, LinkOwner, Break, Creating, queues
  <2> QED
    BY <2>1, <2>2
<1>8. CASE AddFollowUps(h) \/ AddReminder(h)
  <2>1. CASE AddFollowUps(h)
    <3>1. Moves(h, "reminder")
      BY <2>1, GoMoves DEF AddFollowUps, Places, Creating
    <3> QED
      BY <2>1, <3>1, UnusedType DEF RequestStep, AddFollowUps, AddsJobs, database
  <2>2. CASE AddReminder(h)
    <3>1. Moves(h, "flight")
      BY <2>2, GoMoves DEF AddReminder, Places, Creating
    <3> QED
      BY <2>2, <3>1, UnusedType DEF RequestStep, AddReminder, AddsJobs, database
  <2> QED
    BY <1>8, <2>1, <2>2
<1>9. CASE AddFlightJob(h)
  BY <1>9, EndEffect DEF RequestStep, AddFlightJob, Answers, OnlyRequest, database, queues
<1>10. CASE ArchiveDuplicates(h)
  BY <1>10, GoMoves DEF RequestStep, ArchiveDuplicates, Archives, Places, Revoking
<1>11. CASE DeleteLinks(h)
  BY <1>11, EndEffect DEF RequestStep, DeleteLinks, Unlinks, OnlyRequest, queues
<1>12. CASE RequestThrows(h)
  BY <1>12, LeavesEffect DEF RequestStep, RequestThrows, Break, Made, database, queues
<1> QED
  BY <1>1, <1>2, <1>3, <1>4, <1>5, <1>6, <1>7, <1>8, <1>9, <1>10, <1>11, <1>12
     DEF Proceed, RequestStep

\* The process stops: what was running stalls, what was being created breaks off.
Crashes ==
  /\ request' \in [Http -> RequestRecs] /\ \A h \in Http : request'[h] = Rest
  /\ worker' \in [Kinds -> WorkerRecs] /\ \A k \in Kinds : worker'[k] = Idle
  /\ jobs \subseteq jobs' /\ jobs' \subseteq Queued /\ IsFiniteSet(jobs')
  /\ \A j \in jobs' : \/ j \in jobs
                      \/ \E k \in Kinds : worker[k] # Idle /\ j \in Stalled(worker[k].job)
  /\ \A k \in Kinds : worker[k] # Idle => Stalled(worker[k].job) \subseteq jobs'
  /\ past' \in [Ids -> SUBSET Marks]
  /\ \A i \in Ids :
       /\ past[i] \subseteq past'[i]
       /\ past'[i] \subseteq past[i] \cup {"broken", "ended", "stalled"}
       /\ "broken" \in past'[i] =>
            "broken" \in past[i] \/ \E h \in Http : request[h].at \in Creating /\ request[h].id = i
       /\ \/ past'[i] \cap {"ended", "stalled"} \subseteq past[i]
          \/ worker["claimReminder"] # Idle /\ worker["claimReminder"].job.id = i
  /\ \A h \in Http : request[h].at \in Made => "broken" \in past'[request[h].id]
  /\ LET w == worker["claimReminder"]
     IN w # Idle => (IF w.job.stalled THEN "ended" ELSE "stalled") \in past'[w.job.id]
  /\ UNCHANGED <<claims, links>>

\* What is left of the work behind a crash.
LEMMA CrashEffect ==
  ASSUME Typed, Placed, Crash
  PROVE  Crashes
<1> DEFINE busy == {k \in Kinds : ~Doing(k, "rest")}
           running == {worker[k].job : k \in busy}
           cut == {request[h].id : h \in {h \in Http : request[h].at \in Creating}}
           reminders(i) == {j \in running : j.id = i /\ j.kind = "claimReminder"}
           more == UNION {Stalled(j) : j \in running}
<1>1. \A k \in Kinds : k \in busy <=> worker[k] # Idle
  BY WorkerAt DEF Doing
<1>2. \A k \in Kinds : worker[k] # Idle => worker[k].job \in Queued /\ worker[k].job.kind = k
  BY DEF Placed
<1>3. \A j : j \in running <=> \E k \in Kinds : worker[k] # Idle /\ j = worker[k].job
  BY <1>1
<1> HIDE DEF busy
<1>4. /\ jobs' = jobs \cup more
      /\ past' = [i \in Ids |-> past[i] \cup (IF i \in cut THEN {"broken"} ELSE {})
            \cup UNION {IF j.stalled THEN {"ended"} ELSE {"stalled"} : j \in reminders(i)}]
      /\ request' = [h \in Http |-> Rest] /\ worker' = [k \in Kinds |-> Idle]
      /\ UNCHANGED <<claims, links>>
  BY DEF Crash, database, busy
<1> HIDE DEF running
<1>5. IsFiniteSet(more) /\ more \subseteq Queued
  <2> DEFINE two == {Stalled(worker["followUpClaim"].job), Stalled(worker["claimReminder"].job)}
  <2>1. IsFiniteSet(two)
    <3>1. IsFiniteSet({Stalled(worker["followUpClaim"].job)}
                         \cup {Stalled(worker["claimReminder"].job)})
      BY FS_Singleton, FS_AddElement
    <3> QED
      BY <3>1
  <2>2. {Stalled(j) : j \in running} \subseteq two
    BY <1>3 DEF Kinds
  <2>3. \A j \in running : IsFiniteSet(Stalled(j)) /\ Stalled(j) \subseteq Queued
    BY <1>2, <1>3, StalledFields
  <2>4. IsFiniteSet({Stalled(j) : j \in running})
    <3> HIDE DEF two
    <3> QED
      BY <2>1, <2>2, FS_Subset
  <2>5. \A T \in {Stalled(j) : j \in running} : IsFiniteSet(T) /\ T \subseteq Queued
    BY <2>3
  <2> DEFINE S == {Stalled(j) : j \in running}
  <2> HIDE DEF S
  <2>6. IsFiniteSet(UNION S)
    BY <2>4, <2>5, FS_UNION DEF S
  <2> QED
    BY <2>5, <2>6 DEF S
<1>6. \A r : r \in more <=> \E k \in Kinds : worker[k] # Idle /\ r \in Stalled(worker[k].job)
  BY <1>3
<1>7. IsFiniteSet(jobs') /\ jobs' \subseteq Queued
  <2> HIDE DEF more
  <2> QED
    BY <1>4, <1>5, FS_Union DEF Typed
<1>8. /\ jobs \subseteq jobs'
      /\ \A j \in jobs' : \/ j \in jobs
                          \/ \E k \in Kinds : worker[k] # Idle /\ j \in Stalled(worker[k].job)
      /\ \A k \in Kinds : worker[k] # Idle => Stalled(worker[k].job) \subseteq jobs'
  <2> HIDE DEF more
  <2> QED
    BY <1>4, <1>6
<1>9. /\ request' \in [Http -> RequestRecs] /\ \A h \in Http : request'[h] = Rest
      /\ worker' \in [Kinds -> WorkerRecs] /\ \A k \in Kinds : worker'[k] = Idle
  BY <1>4, RestFields, IdleFields
<1> DEFINE ends(i) == UNION {IF j.stalled THEN {"ended"} ELSE {"stalled"} : j \in reminders(i)}
<1>10. \A j, i : j \in reminders(i) <=> /\ worker["claimReminder"] # Idle
                                      /\ j = worker["claimReminder"].job /\ j.id = i
  BY <1>2, <1>3 DEF Kinds
<1>11. \A i : /\ ends(i) \subseteq {"ended", "stalled"}
              /\ ends(i) # {} => worker["claimReminder"] # Idle
                                /\ worker["claimReminder"].job.id = i
  <2> HIDE DEF reminders
  <2> QED
    BY <1>10
<1>12. LET w == worker["claimReminder"]
       IN w # Idle => (IF w.job.stalled THEN "ended" ELSE "stalled") \in ends(w.job.id)
  <2> HIDE DEF reminders
  <2> QED
    BY <1>10
<1>13. \A i \in Ids : past'[i] = past[i] \cup (IF i \in cut THEN {"broken"} ELSE {}) \cup ends(i)
  BY <1>4
<1>14. DOMAIN past' = Ids /\ past' = [i \in Ids |-> past'[i]]
  BY <1>4
<1> HIDE DEF ends
<1>15. \A i \in Ids : past[i] \subseteq Marks
  BY DEF Typed
<1>16. past' \in [Ids -> SUBSET Marks]
  <2>1. \A i \in Ids : past'[i] \subseteq Marks
    BY <1>11, <1>13, <1>15 DEF Marks
  <2> QED
    BY <1>14, <2>1
<1>17. \A i \in Ids :
       /\ past[i] \subseteq past'[i]
       /\ past'[i] \subseteq past[i] \cup {"broken", "ended", "stalled"}
       /\ "broken" \in past'[i] =>
            "broken" \in past[i] \/ \E h \in Http : request[h].at \in Creating /\ request[h].id = i
       /\ \/ past'[i] \cap {"ended", "stalled"} \subseteq past[i]
          \/ worker["claimReminder"] # Idle /\ worker["claimReminder"].job.id = i
  BY <1>11, <1>13
<1>18. \A h \in Http : request[h].at \in Made => "broken" \in past'[request[h].id]
  BY <1>13 DEF Made, Placed
<1>19. LET w == worker["claimReminder"]
       IN w # Idle => (IF w.job.stalled THEN "ended" ELSE "stalled") \in past'[w.job.id]
  <2>1. worker["claimReminder"] # Idle => worker["claimReminder"].job.id \in Ids
    BY <1>2 DEF Kinds, Queued
  <2> QED
    BY <1>12, <1>13, <2>1
<1> QED
  BY <1>4, <1>7, <1>8, <1>9, <1>16, <1>17, <1>18, <1>19 DEF Crashes

Step == \/ \E h \in Http : RequestStep(h)
        \/ \E i \in Claims : EditStep(i) \/ DeleteClaim(i)
        \/ \E kind \in Kinds : WorkStep(kind)
        \/ Crashes

\* Every action of the module is one of these relations.
LEMMA NextSteps ==
  ASSUME Typed, Placed, Next
  PROVE  Step
<1>1. ASSUME NEW h \in Http,
             \/ \E trip \in Trips : Create(h, trip)
             \/ \E i \in Claims : Revoke(h, i)
             \/ Proceed(h) \/ RequestThrows(h)
      PROVE  Step
  BY <1>1, RequestEffect DEF Step
<1>2. ASSUME NEW i \in Claims,
             \/ \E step \in Steps : UpdateClaim(i, step)
             \/ UploadSign(i) \/ ArchiveClaim(i) \/ ChangeStatus(i) \/ DeleteClaim(i)
      PROVE  Step
  BY <1>2 DEF Step, EditStep
<1>3. ASSUME NEW kind \in Kinds, Work(kind) \/ CallThrows(kind)
      PROVE  Step
  BY <1>3, WorkEffect DEF Step
<1> QED
  BY <1>1, <1>2, <1>3, CrashEffect DEF Next, Step

\* The processors keep the types.
LEMMA WorkTyped ==
  ASSUME Typed, Placed, NEW kind \in Kinds, WorkStep(kind)
  PROVE  Typed' /\ Placed'
<1>1. /\ worker[kind] \in WorkerRecs
      /\ worker[kind] # Idle => /\ worker[kind].at \in CallsAt(kind)
                               /\ worker[kind].job \in Queued
                               /\ worker[kind].job.kind = kind
      /\ worker'[kind] \in WorkerRecs
  BY WorkerAt DEF WorkStep
<1>2. \A j : EndedBy(j) \in [Ids -> SUBSET Marks]
  BY EndedByType
<1>3. ASSUME IsFiniteSet(jobs'), jobs' \subseteq Queued, past' \in [Ids -> SUBSET Marks],
             \/ worker'[kind] = Idle
             \/ /\ worker'[kind].at \in CallsAt(kind)
                /\ worker'[kind].job \in Queued /\ worker'[kind].job.kind = kind
      PROVE  Typed' /\ Placed'
  <2>1. Typed'
    BY <1>3 DEF WorkStep, Typed, Claims
  <2>2. Placed'
    BY <1>3 DEF WorkStep, Placed
  <2> QED
    BY <2>1, <2>2
<1>4. IsFiniteSet(jobs) /\ jobs \subseteq Queued /\ past \in [Ids -> SUBSET Marks]
  BY DEF Typed
<1>5. ASSUME NEW j \in jobs, Takes(kind, j)
      PROVE  Typed' /\ Placed'
  <2>1. IsFiniteSet(jobs') /\ jobs' \subseteq Queued
    BY <1>4, <1>5, FS_RemoveElement DEF Takes
  <2> QED
    BY <1>3, <1>4, <1>5, <2>1 DEF Takes, CallsAt
<1>6. ASSUME NEW j \in jobs, Drops(kind, j)
      PROVE  Typed' /\ Placed'
  <2>1. PICK r \in {{}, Retried(j)} : jobs' = (jobs \ {j}) \cup r
    BY <1>6 DEF Drops
  <2>2. IsFiniteSet(r) /\ r \subseteq Queued
    BY <1>4, <2>1, RetriedFields, FS_EmptySet
  <2>3. IsFiniteSet(jobs') /\ jobs' \subseteq Queued
    BY <1>4, <2>1, <2>2, FS_RemoveElement, FS_Union
  <2> QED
    BY <1>1, <1>2, <1>3, <1>6, <2>3 DEF Drops
<1>7. CASE Throws(kind)
  <2>1. Thrown(kind) \in Queued
    BY <1>7, IdleFields, ThrownFields DEF Throws
  <2>2. IsFiniteSet(jobs') /\ jobs' \subseteq Queued
    BY <1>4, <1>7, <2>1, RetriedFields, FS_Union DEF Throws
  <2> QED
    BY <1>2, <1>3, <1>7, <2>2 DEF Throws
<1>8. CASE Records(kind)
  BY <1>1, <1>3, <1>4, <1>8, IdleFields DEF Records, CallsAt
<1>9. CASE Sends(kind)
  <2>1. worker[kind] # Idle
    BY <1>9, IdleFields DEF Sends
  <2>2. worker'[kind].job \in Queued /\ worker'[kind].job.kind = kind
    BY <1>1, <1>9, <2>1 DEF Sends, WorkerRecs, Queued
  <2> QED
    BY <1>3, <1>4, <1>9, <2>2 DEF Sends, CallsAt
<1>12. CASE Stores(kind)
  BY <1>1, <1>3, <1>4, <1>12, IdleFields DEF Stores, CallsAt
<1>10. CASE Schedules(kind)
  <2>1. worker[kind] # Idle
    BY <1>10, IdleFields DEF Schedules
  <2>2. PICK n \in Nat : jobs' = jobs \cup {Job(kind, worker[kind].job.id, n, 1)}
    BY <1>10 DEF Schedules
  <2>3. Job(kind, worker[kind].job.id, n, 1) \in Queued
    BY <1>1, <2>1, JobFields DEF Queued
  <2>4. IsFiniteSet(jobs') /\ jobs' \subseteq Queued
    BY <1>4, <2>2, <2>3, FS_AddElement
  <2> QED
    BY <1>1, <1>3, <1>4, <1>10, <2>1, <2>4 DEF Schedules, CallsAt
<1>11. CASE Ends(kind)
  BY <1>3, <1>4, <1>11 DEF Ends
<1> QED
  BY <1>5, <1>6, <1>7, <1>8, <1>9, <1>10, <1>11, <1>12 DEF WorkStep

\* Jobs that a request adds.
LEMMA AddedTyped ==
  ASSUME Typed, Placed, NEW h \in Http, AddsJobs(h)
  PROVE  /\ jobs' \subseteq Queued /\ IsFiniteSet(jobs') /\ jobs \subseteq jobs'
         /\ \A j \in jobs' \ jobs :
              /\ j.id = request[h].id /\ j.sent = 0 /\ j.unstored = 0 /\ ~j.stalled
              /\ j.kind = "followUpClaim" \/ request[h].at = "reminder"
         /\ request[h].at = "reminder" =>
              \E n \in Nat : jobs' = jobs \cup {Job("claimReminder", request[h].id, n, 1)}
         /\ request[h].id \in Ids
<1>1. request[h].id \in Ids /\ FollowUps \in Nat
  BY IntakeAssumption DEF Placed, AddsJobs, Made, Creating
<1>2. CASE /\ request[h].at = "followUps"
           /\ \E n \in Nat : jobs' = jobs \cup
                {Job("followUpClaim", request[h].id, n, m) : m \in 1..FollowUps}
  <2>0. PICK n \in Nat : jobs' = jobs \cup
                {Job("followUpClaim", request[h].id, n, m) : m \in 1..FollowUps}
    BY <1>2
  <2> DEFINE new == {Job("followUpClaim", request[h].id, n, m) : m \in 1..FollowUps}
             f == [m \in 1..FollowUps |-> Job("followUpClaim", request[h].id, n, m)]
  <2>1. f \in Surjection(1..FollowUps, new)
    BY DEF Surjection
  <2>2. IsFiniteSet(1..FollowUps)
    BY <1>1, FS_Interval
  <2>3. \A j \in new : /\ j \in Queued /\ j.kind = "followUpClaim" /\ j.id = request[h].id
                       /\ j.sent = 0 /\ j.unstored = 0 /\ ~j.stalled
    <3>1. "followUpClaim" \in Kinds
      BY DEF Kinds
    <3> QED
      BY <1>1, <3>1, JobFields
  <2> HIDE DEF new, f
  <2>4. IsFiniteSet(new)
    BY <2>1, <2>2, FS_Surjection
  <2>5. jobs' = jobs \cup new
    BY <2>0 DEF new
  <2>6. request[h].at = "followUps"
    BY <1>2
  <2>7. IsFiniteSet(jobs') /\ jobs \subseteq jobs' /\ jobs' \subseteq Queued
    BY <2>3, <2>4, <2>5, FS_Union DEF Typed
  <2> QED
    BY <1>1, <2>3, <2>5, <2>6, <2>7
<1>3. CASE /\ request[h].at = "reminder"
           /\ \E n \in Nat : jobs' = jobs \cup {Job("claimReminder", request[h].id, n, 1)}
  <2>0. PICK n \in Nat : jobs' = jobs \cup {Job("claimReminder", request[h].id, n, 1)}
    BY <1>3
  <2>1. "claimReminder" \in Kinds /\ 1 \in Nat
    BY DEF Kinds
  <2> DEFINE j == Job("claimReminder", request[h].id, n, 1)
  <2>2. /\ j \in Queued /\ j.id = request[h].id /\ j.sent = 0 /\ j.unstored = 0
        /\ ~j.stalled
    BY <1>1, <2>1, JobFields
  <2>3. jobs' = jobs \cup {j}
    BY <2>0
  <2> HIDE DEF j
  <2>4. jobs' \subseteq Queued /\ IsFiniteSet(jobs') /\ jobs \subseteq jobs'
    BY <2>2, <2>3, FS_AddElement DEF Typed
  <2> QED
    BY <1>1, <1>3, <2>2, <2>3, <2>4
<1> QED
  BY <1>2, <1>3 DEF AddsJobs

\* The handlers keep the types.
LEMMA RequestTyped ==
  ASSUME Typed, Placed, NEW h \in Http, RequestStep(h)
  PROVE  Typed' /\ Placed'
<1>1. ASSUME NEW trip \in Trips, Creates(h, trip)
      PROVE  Typed' /\ Placed'
  <2>1. past' \in [Ids -> SUBSET Marks]
    BY <1>1, MarkType DEF Creates, Marks
  <2>2. Typed'
    BY <1>1, <2>1 DEF Creates, Typed, Claims
  <2>3. Placed'
    BY <1>1 DEF Creates, Placed, Same1, Made, Creating, Revoking
  <2> QED
    BY <2>2, <2>3
<1>2. ASSUME NEW i \in Claims, Revokes(h, i)
      PROVE  Typed' /\ Placed'
  <2>1. past' \in [Ids -> SUBSET Marks]
    BY <1>2 DEF Revokes, Typed, Marks
  <2>2. Typed'
    BY <1>2, <2>1 DEF Revokes, Typed, Claims
  <2>3. i \in Ids /\ claims[i].trip \in Trips
    BY DEF Typed, ClaimRecs
  <2>4. Placed'
    BY <1>2, <2>3 DEF Revokes, Placed, Same1, Made, Creating, Revoking
  <2> QED
    BY <2>2, <2>4
<1>3. ASSUME NEW id \in Ids, Saves(h, id)
      PROVE  Typed' /\ Placed'
  <2>1. past' \in [Ids -> SUBSET Marks]
    BY <1>3, MarkType DEF Saves, Marks, Typed
  <2>2. links' \subseteq Claims' \X Claims'
    BY <1>3 DEF Saves, Typed
  <2>3. Claims' \subseteq Ids
    BY <1>3 DEF Saves, Typed
  <2>4. Typed'
    BY <1>3, <2>1, <2>2, <2>3 DEF Saves, OnlyRequest, Typed
  <2>5. Placed'
    BY <1>3 DEF Saves, Placed, OnlyRequest, Made, Creating, Revoking
  <2> QED
    BY <2>4, <2>5
<1>4. CASE Retries(h)
  <2>1. Typed'
    BY <1>4 DEF Retries, Typed, Claims
  <2>2. Placed'
    BY <1>4 DEF Retries, Placed, Same1
  <2> QED
    BY <2>1, <2>2
<1>5. CASE Leaves(h) \/ Answers(h) \/ Unlinks(h)
  <2>1. /\ OnlyRequest(h) /\ request'[h] = Rest /\ UNCHANGED <<claims, jobs, worker>>
        /\ links' \subseteq links
        /\ past' \in [Ids -> SUBSET Marks]
    BY <1>5, MarkType DEF Leaves, Answers, Unlinks, Marks, Typed
  <2>2. Typed'
    BY <2>1 DEF OnlyRequest, Typed, Claims
  <2>3. Placed'
    BY <2>1, RestFields DEF OnlyRequest, Placed, Made, Creating, Revoking
  <2> QED
    BY <2>2, <2>3
<1>6. CASE Reverses(h) \/ Owns(h) \/ AddsJobs(h) \/ Archives(h)
  <2>1. PICK call \in (Made \cup Revoking) : Moves(h, call)
    BY <1>6 DEF Reverses, Owns, AddsJobs, Archives, Made, Creating, Revoking
  <2>2. request[h].at \in Made \cup Revoking
    BY <1>6 DEF Reverses, Owns, AddsJobs, Archives, Made, Creating, Revoking
  <2>3. OnlyRequest(h) /\ past' = past
    BY <1>6, <2>1 DEF Reverses, Owns, AddsJobs, Archives, ArchiveDuplicates, Moves
  <2>4. /\ \A k \in Http : /\ request'[k].at # "rest" => request'[k].trip \in Trips
                           /\ request'[k].at \in {"rest", "save"} => request'[k].id = NoId
                           /\ request'[k].at \in Made \cup Revoking => request'[k].id \in Ids
    BY <2>1, <2>2 DEF Moves, OnlyRequest, Placed, Made, Creating, Revoking
  <2>5. CASE Reverses(h)
    <3>1. links' \subseteq Claims \X Claims
      BY <2>5 DEF Reverses, Typed
    <3> QED
      BY <2>3, <2>4, <2>5, <3>1 DEF Reverses, OnlyRequest, Typed, Placed, Claims
  <2>6. CASE Owns(h)
    <3>1. Claims' = Claims /\ claims' \in [Claims' -> ClaimRecs]
      BY <2>6, LinkOwnerEffect DEF Owns
    <3> QED
      BY <2>3, <2>4, <2>6, <3>1 DEF Owns, OnlyRequest, Typed, Placed
  <2>7. CASE AddsJobs(h)
    <3>1. jobs' \subseteq Queued /\ IsFiniteSet(jobs')
      BY <2>7, AddedTyped
    <3> QED
      BY <2>3, <2>4, <2>7, <3>1 DEF AddsJobs, OnlyRequest, Typed, Placed, Claims
  <2>8. CASE Archives(h)
    <3>1. Claims' = Claims /\ claims' \in [Claims' -> ClaimRecs]
      BY <2>8, ArchiveEffect DEF Archives
    <3>2. request[h].found \in SUBSET Ids
      BY DEF Typed, RequestRecs
    <3>3. /\ worker' \in [Kinds -> WorkerRecs]
          /\ \A k \in Kinds :
              /\ worker'[k].at = worker[k].at /\ worker'[k].job = worker[k].job
              /\ worker[k] = Idle => worker'[k] = Idle
      BY <2>8, <3>2, ChangedEffect DEF Archives, ArchiveDuplicates
    <3>4. Typed'
      BY <2>3, <2>8, <3>1, <3>3 DEF Archives, ArchiveDuplicates, OnlyRequest, Typed
    <3>5. Placed'
      BY <2>4, <3>3 DEF Placed
    <3> QED
      BY <3>4, <3>5
  <2> QED
    BY <1>6, <2>5, <2>6, <2>7, <2>8
<1> QED
  BY <1>1, <1>2, <1>3, <1>4, <1>5, <1>6 DEF RequestStep

\* Every step keeps the types, and requests and workers in their places.
LEMMA TypedStep ==
  ASSUME Typed, Placed, Step
  PROVE  Typed' /\ Placed'
<1>1. ASSUME NEW i \in Claims, EditStep(i) \/ DeleteClaim(i)
      PROVE  Typed' /\ Placed'
  <2>1. {i} \in SUBSET Ids
    BY DEF Typed
  <2>2. Changed({i}) /\ UNCHANGED <<request, jobs>>
    BY <1>1, EditEffect DEF DeleteClaim
  <2>3. /\ worker' \in [Kinds -> WorkerRecs]
        /\ \A k \in Kinds :
            /\ worker'[k].at = worker[k].at /\ worker'[k].job = worker[k].job
            /\ worker[k] = Idle => worker'[k] = Idle
    BY <2>1, <2>2, ChangedEffect
  <2>4. Placed'
    BY <2>2, <2>3 DEF Placed
  <2>5. CASE EditStep(i)
    <3>1. Claims' = Claims /\ claims' \in [Claims' -> ClaimRecs] /\ UNCHANGED <<links, past>>
      BY <2>5, EditEffect
    <3> QED
      BY <2>2, <2>3, <2>4, <3>1 DEF Typed
  <2>6. CASE DeleteClaim(i)
    <3>1. Claims' = Claims \ {i} /\ claims' \in [Claims' -> ClaimRecs]
      BY <2>6, DeleteEffect
    <3>2. links' \subseteq Claims' \X Claims'
      BY <2>6, <3>1 DEF DeleteClaim, Typed
    <3>3. past' \in [Ids -> SUBSET Marks]
      BY <2>6, MarkType DEF DeleteClaim, Marks
    <3> QED
      BY <2>2, <2>3, <2>4, <3>1, <3>2, <3>3 DEF Typed
  <2> QED
    BY <1>1, <2>5, <2>6
<1>2. CASE Crashes
  <2>1. Typed'
    BY <1>2 DEF Crashes, Typed, Claims
  <2>2. Placed'
    BY <1>2, RestFields DEF Crashes, Placed, Made, Creating, Revoking
  <2> QED
    BY <2>1, <2>2
<1> QED
  BY <1>1, <1>2, RequestTyped, WorkTyped DEF Step

-----------------------------------------------------------------------------
(* The history only grows, and ids that were used stay used.               *)

\* A mark is added to the claims it is for, and to no other.
LEMMA MarkFields ==
  ASSUME NEW ids, NEW what, NEW i \in Ids
  PROVE  /\ past[i] \subseteq Mark(ids, what)[i]
         /\ Mark(ids, what)[i] \subseteq past[i] \cup {what}
         /\ what \in Mark(ids, what)[i] <=> what \in past[i] \/ i \in ids
  BY DEF Mark

LEMMA EndedByFields ==
  ASSUME NEW j, NEW i \in Ids
  PROVE  /\ past[i] \subseteq EndedBy(j)[i]
         /\ EndedBy(j)[i] \subseteq past[i] \cup {"ended"}
         /\ i # j.id => EndedBy(j)[i] = past[i]
         /\ (i = j.id /\ j.kind = "claimReminder") => "ended" \in EndedBy(j)[i]
  BY DEF EndedBy, Mark

\* Which marks a step sets, and on which claims.
NewMarks(h, i) ==
  /\ past[i] \subseteq past'[i]
  /\ past'[i] # past[i] => \/ \E k \in Http : request[k].at # "rest" /\ request[k].id = i
                           \/ request'[h].at = "reverse" /\ request'[h].id = i
                           \/ i \in Claims

\* A handler marks claims that are there, or that a request is at work on.
LEMMA RequestMarks ==
  ASSUME Typed, Placed, NEW h \in Http, RequestStep(h), NEW i \in Ids
  PROVE  NewMarks(h, i)
<1>1. ASSUME NEW trip \in Trips, Creates(h, trip)
      PROVE  NewMarks(h, i)
  BY <1>1 DEF NewMarks, Creates, Mark, Beside
<1>2. ASSUME NEW c \in Claims, Revokes(h, c)
      PROVE  NewMarks(h, i)
  <2>1. past'[i] = past[i]
         \cup (IF i \in request'[h].found \cup {c} THEN {"revoked"} ELSE {})
         \cup (IF i \in Missed(c, request'[h].found) THEN {"missed"} ELSE {})
         \cup (IF i \in {request[k].id : k \in Beside(claims[c].trip)}
               THEN {"parted"} ELSE {})
    BY <1>2 DEF Revokes
  <2>2. i \in request'[h].found \cup {c} => i \in Claims
    BY <1>2 DEF Revokes
  <2>3. i \in Missed(c, request'[h].found) => i \in Claims
    BY <1>2 DEF Revokes, Missed, Same
  <2>4. i \in {request[k].id : k \in Beside(claims[c].trip)} =>
           \E k \in Http : request[k].at # "rest" /\ request[k].id = i
    BY DEF Beside
  <2> QED
    BY <2>1, <2>2, <2>3, <2>4 DEF NewMarks
<1>3. ASSUME NEW id \in Ids, Saves(h, id)
      PROVE  NewMarks(h, i)
  BY <1>3 DEF NewMarks, Saves, Mark
<1>4. CASE Leaves(h) \/ Answers(h)
  <2>1. PICK what \in Marks : past' = Mark({request[h].id}, what) \/ past' = past
    BY <1>4 DEF Leaves, Answers, Marks
  <2>2. request[h].at # "rest"
    BY <1>4 DEF Leaves, Answers
  <2> QED
    BY <2>1, <2>2 DEF NewMarks, Mark
<1>5. CASE \/ Retries(h) \/ Reverses(h) \/ Owns(h) \/ AddsJobs(h) \/ Archives(h) \/ Unlinks(h)
  BY <1>5 DEF NewMarks, Retries, Reverses, Owns, AddsJobs, Archives, ArchiveDuplicates, Unlinks
<1> QED
  BY <1>1, <1>2, <1>3, <1>4, <1>5 DEF RequestStep

\* A processor marks only the claim of its job, as one whose reminders ended.
LEMMA WorkMarks ==
  ASSUME Typed, Placed, NEW kind \in Kinds, WorkStep(kind), NEW i \in Ids
  PROVE  /\ past[i] \subseteq past'[i]
         /\ past'[i] \subseteq past[i] \cup {"ended"}
         /\ past'[i] # past[i] => \/ \E j \in jobs : j.id = i
                                  \/ worker[kind] # Idle /\ worker[kind].job.id = i
<1>1. ASSUME NEW j, past' = EndedBy(j), j \in jobs \/ (worker[kind] # Idle /\ j = worker[kind].job)
      PROVE  /\ past[i] \subseteq past'[i]
             /\ past'[i] \subseteq past[i] \cup {"ended"}
             /\ past'[i] # past[i] => \/ \E k \in jobs : k.id = i
                                      \/ worker[kind] # Idle /\ worker[kind].job.id = i
  BY <1>1, EndedByFields
<1>2. ASSUME NEW j \in jobs, Drops(kind, j)
      PROVE  past' = EndedBy(j)
  BY <1>2 DEF Drops
<1>3. CASE Throws(kind)
  <2>1. worker[kind] # Idle
    BY <1>3, IdleFields DEF Throws
  <2> QED
    BY <1>1, <1>3, <2>1 DEF Throws
<1>4. CASE \/ \E j \in jobs : Takes(kind, j)
           \/ Records(kind) \/ Sends(kind) \/ Stores(kind) \/ Schedules(kind) \/ Ends(kind)
  BY <1>4 DEF Takes, Records, Sends, Stores, Schedules, Ends
<1> QED
  BY <1>1, <1>2, <1>3, <1>4 DEF WorkStep

\* Nothing is struck from the history.
LEMMA PastGrows ==
  ASSUME Typed, Placed, Step, NEW i \in Ids
  PROVE  past[i] \subseteq past'[i]
<1>1. ASSUME NEW c \in Claims, EditStep(c) \/ DeleteClaim(c)
      PROVE  past[i] \subseteq past'[i]
  <2>1. CASE EditStep(c)
    BY <2>1, EditEffect
  <2>2. CASE DeleteClaim(c)
    BY <2>2, DeleteEffect DEF Mark
  <2> QED
    BY <1>1, <2>1, <2>2
<1> QED
  BY <1>1, RequestMarks, WorkMarks DEF Step, NewMarks, Crashes

\* An id that was used stays used: that of a deleted claim is not drawn again.
LEMMA UsedStays ==
  ASSUME Typed, Placed, Step, NEW i \in Ids, Used(i)
  PROVE  Used(i)'
<1>1. Is(i, "deleted") => Is(i, "deleted")'
  BY PastGrows DEF Is
<1>2. ASSUME NEW c \in Claims, EditStep(c) \/ DeleteClaim(c)
      PROVE  i \in Claims' \/ i \notin Claims \/ Is(i, "deleted")'
  <2>1. CASE EditStep(c)
    BY <2>1, EditEffect
  <2>2. CASE DeleteClaim(c)
    <3>1. Claims' = Claims \ {c} /\ past' = Mark({c}, "deleted")
      BY <2>2, DeleteEffect
    <3>2. "deleted" \in Mark({c}, "deleted")[c]
      BY DEF Mark, Typed
    <3> QED
      BY <3>1, <3>2 DEF Is
  <2> QED
    BY <1>2, <2>1, <2>2
<1>3. ASSUME NEW h \in Http, RequestStep(h)
      PROVE  Claims \subseteq Claims'
  <2>1. CASE Owns(h)
    BY <2>1, LinkOwnerEffect DEF Owns
  <2>2. CASE Archives(h)
    BY <2>2, ArchiveEffect DEF Archives
  <2> QED
    BY <1>3, <2>1, <2>2 DEF RequestStep, Creates, Revokes, Saves, Retries, Leaves,
       Reverses, AddsJobs, Answers, Unlinks, Claims
<1>4. ASSUME (\E kind \in Kinds : WorkStep(kind)) \/ Crashes
      PROVE  claims' = claims
  BY <1>4 DEF WorkStep, Crashes
<1> QED
  <2>1. claims' = claims => Claims' = Claims
    BY DEF Claims
  <2> QED
    BY <1>1, <1>2, <1>3, <1>4, <2>1 DEF Step, Used

\* What becomes of a request in a step.
GoesOn(k) ==
  /\ request'[k].id = request[k].id /\ request'[k].trip = request[k].trip
  /\ request'[k].found = request[k].found /\ request'[k].owned = request[k].owned
  /\ \/ request[k].at \in Made /\ request'[k].at \in Made \ {"reverse"}
     \/ request[k].at \in Revoking /\ request'[k].at \in Revoking
RequestFate(k) ==
  \/ Same1(k) \/ request'[k] = Rest
  \/ GoesOn(k) /\ (Reverses(k) \/ Owns(k) \/ AddsJobs(k) \/ Archives(k))
  \/ \E trip \in Trips : Creates(k, trip)
  \/ \E i \in Claims : Revokes(k, i)
  \/ \E id \in Ids : Saves(k, id)

\* A step of the system leaves a request, ends it, or takes it to its next call.
LEMMA Fates ==
  ASSUME Typed, Placed, Step, NEW k \in Http
  PROVE  RequestFate(k)
<1>1. request' = request => Same1(k)
  BY DEF Same1
<1>2. ASSUME NEW h \in Http, RequestStep(h)
      PROVE  RequestFate(k)
  <2>1. CASE k # h
    <3>1. Same1(k)
      BY <1>2, <2>1 DEF RequestStep, Creates, Revokes, Saves, Retries, Leaves, Reverses, Owns,
         AddsJobs, Answers, Archives, Unlinks, Moves, OnlyRequest, Same1
    <3> QED
      BY <3>1 DEF RequestFate
  <2>2. CASE k = h /\ (Leaves(h) \/ Answers(h) \/ Unlinks(h))
    BY <2>2 DEF Leaves, Answers, Unlinks, RequestFate
  <2>3. CASE k = h /\ (Reverses(h) \/ Owns(h) \/ AddsJobs(h) \/ Archives(h))
    <3>1. GoesOn(k)
      BY <2>3 DEF Reverses, Owns, AddsJobs, Archives, Moves, GoesOn, Made, Creating, Revoking
    <3> QED
      BY <2>3, <3>1 DEF RequestFate
  <2>4. CASE k = h /\ Retries(h)
    BY <2>4 DEF Retries, RequestFate
  <2> QED
    BY <1>2, <2>1, <2>2, <2>3, <2>4 DEF RequestStep, RequestFate
<1>3. ASSUME NEW i \in Claims, EditStep(i) \/ DeleteClaim(i)
      PROVE  request' = request
  BY <1>3, EditEffect, DeleteEffect
<1>4. CASE Crashes
  BY <1>4 DEF Crashes, RequestFate
<1> QED
  BY <1>1, <1>2, <1>3, <1>4 DEF Step, WorkStep, RequestFate

\* The claims of the jobs and of the workers' jobs.
InWork(i) == \/ \E j \in jobs : j.id = i
             \/ \E k \in Kinds : worker[k] # Idle /\ worker[k].job.id = i
             \/ \E h \in Http : request[h].at \in Made /\ request[h].id = i

\* Jobs are only made from the jobs and the requests there are.
LEMMA JobFates ==
  ASSUME Typed, Placed, Step
  PROVE  /\ \A j \in jobs' : InWork(j.id)
         /\ \A k \in Kinds : worker'[k] # Idle => InWork(worker'[k].job.id)
<1>1. \A j \in jobs : InWork(j.id)
  BY DEF InWork
<1>2. \A k \in Kinds : worker[k] # Idle => InWork(worker[k].job.id)
  BY DEF InWork
<1>3. \A j \in jobs : j \in Queued
  BY DEF Typed
<1>4. \A k \in Kinds : worker[k] # Idle => worker[k].job \in Queued
  BY DEF Placed
<1>5. ASSUME NEW h \in Http, RequestStep(h), ~AddsJobs(h), ~Archives(h)
      PROVE  jobs' = jobs /\ worker' = worker
  BY <1>5 DEF RequestStep, Creates, Revokes, Saves, Retries, Leaves, Reverses, Owns,
     Answers, Unlinks
<1>6. ASSUME NEW h \in Http, AddsJobs(h)
      PROVE  worker' = worker /\ \A j \in jobs' : InWork(j.id)
  <2>1. request[h].at \in Made /\ worker' = worker
    BY <1>6 DEF AddsJobs, Made, Creating
  <2>2. \A j \in jobs' \ jobs : j.id = request[h].id
    BY <1>6, AddedTyped
  <2> QED
    BY <1>1, <2>1, <2>2 DEF InWork
<1>7. ASSUME NEW ids \in SUBSET Ids, Changed(ids), NEW k \in Kinds, worker'[k] # Idle
      PROVE  worker[k] # Idle /\ worker'[k].job = worker[k].job
  BY <1>7, ChangedEffect
<1>8. ASSUME NEW h \in Http, Archives(h)
      PROVE  jobs' = jobs /\ Changed(request[h].found) /\ request[h].found \in SUBSET Ids
  BY <1>8 DEF Archives, ArchiveDuplicates, Typed, RequestRecs
<1>9. ASSUME NEW i \in Claims, EditStep(i) \/ DeleteClaim(i)
      PROVE  jobs' = jobs /\ Changed({i}) /\ {i} \in SUBSET Ids
  BY <1>9, EditEffect, DeleteEffect DEF Typed
<1>10. ASSUME NEW kind \in Kinds, WorkStep(kind)
       PROVE  /\ \A j \in jobs' : InWork(j.id)
              /\ \A k \in Kinds : worker'[k] # Idle => InWork(worker'[k].job.id)
  <2>1. \A k \in Kinds \ {kind} : worker'[k] = worker[k]
    BY <1>10 DEF WorkStep
  <2>2. ASSUME NEW j \in jobs, Takes(kind, j)
        PROVE  (\A r \in jobs' : InWork(r.id)) /\ InWork(worker'[kind].job.id)
    BY <1>1, <2>2 DEF Takes
  <2>3. ASSUME NEW j \in jobs, Drops(kind, j)
        PROVE  (\A r \in jobs' : InWork(r.id)) /\ worker'[kind] = worker[kind]
    BY <1>1, <1>3, <2>3, RetriedFields DEF Drops
  <2>4. CASE Throws(kind)
    <3>1. worker[kind] # Idle /\ worker'[kind] = Idle
      BY <2>4, IdleFields DEF Throws
    <3>2. \A r \in Retried(Thrown(kind)) : r.id = worker[kind].job.id
      BY <3>1, ThrownFields, RetriedFields
    <3>3. \A r \in jobs' : InWork(r.id)
      BY <1>1, <1>2, <2>4, <3>1, <3>2 DEF Throws
    <3> QED
      BY <1>2, <2>1, <3>1, <3>3
  <2>5. CASE Records(kind) \/ Sends(kind) \/ Stores(kind)
    <3>1. /\ worker[kind] # Idle /\ worker'[kind].job.id = worker[kind].job.id
          /\ jobs' = jobs
      BY <2>5, IdleFields DEF Records, Sends, Stores
    <3> QED
      BY <1>1, <1>2, <2>1, <3>1
  <2>6. CASE Schedules(kind)
    <3>1. /\ worker[kind] # Idle /\ worker'[kind].job.id = worker[kind].job.id
      BY <2>6, IdleFields DEF Schedules
    <3>2. PICK n \in Nat : jobs' = jobs \cup {Job(kind, worker[kind].job.id, n, 1)}
      BY <2>6 DEF Schedules
    <3>4. worker[kind].job.id \in Ids
      BY <1>4, <3>1 DEF Queued
    <3>3. Job(kind, worker[kind].job.id, n, 1).id = worker[kind].job.id
      BY <3>4, JobFields
    <3> QED
      BY <1>1, <1>2, <2>1, <3>1, <3>2, <3>3
  <2>7. CASE Ends(kind)
    BY <1>1, <1>2, <2>1, <2>7 DEF Ends
  <2> QED
    BY <1>2, <1>10, <2>1, <2>2, <2>3, <2>4, <2>5, <2>6, <2>7 DEF WorkStep
<1>11. CASE Crashes
  <2>1. \A k \in Kinds : worker[k] # Idle => \A r \in Stalled(worker[k].job) :
          r.id = worker[k].job.id
    BY <1>4, StalledFields
  <2> QED
    BY <1>1, <1>2, <1>11, <2>1 DEF Crashes
<1>12. ASSUME NEW h \in Http, RequestStep(h)
       PROVE  /\ \A j \in jobs' : InWork(j.id)
              /\ \A k \in Kinds : worker'[k] # Idle => InWork(worker'[k].job.id)
  <2>1. CASE Archives(h)
    BY <1>1, <1>2, <1>7, <1>8, <2>1
  <2> QED
    BY <1>1, <1>2, <1>5, <1>6, <1>12, <2>1
<1>13. ASSUME NEW i \in Claims, EditStep(i) \/ DeleteClaim(i)
       PROVE  /\ \A j \in jobs' : InWork(j.id)
              /\ \A k \in Kinds : worker'[k] # Idle => InWork(worker'[k].job.id)
  BY <1>1, <1>2, <1>7, <1>9, <1>13
<1> QED
  BY <1>10, <1>11, <1>12, <1>13 DEF Step

\* Everything that names a claim names one that is there or was.
LEMMA IdsUsedStep ==
  ASSUME Typed, Placed, IdsUsed, Step
  PROVE  IdsUsed'
<1>1. \A i : InWork(i) => i \in Ids /\ Used(i)
  BY DEF InWork, IdsUsed, Placed, Typed, Queued
<1>2. \A i \in Ids : Used(i) => Used(i)'
  BY UsedStays
<1>3. (\A j \in jobs : Used(j.id))'
  BY <1>1, <1>2, JobFates
<1>4. (\A k \in Kinds : worker[k] # Idle => Used(worker[k].job.id))'
  BY <1>1, <1>2, JobFates
<1> DEFINE Goal(k) == /\ request'[k].at \in Made \cup Revoking => Used(request[k].id)'
                      /\ \A f \in request'[k].found : Used(f)'
<1>5. ASSUME NEW k \in Http
      PROVE  Goal(k)
  <2>1. request[k].found \subseteq Ids
    BY DEF Typed, RequestRecs
  <2>2. request[k].at \in Made \cup Revoking => request[k].id \in Ids
    BY DEF Placed
  <2>3. CASE Same1(k) \/ GoesOn(k)
    BY <1>2, <2>1, <2>2, <2>3 DEF Same1, GoesOn, IdsUsed
  <2>4. CASE request'[k] = Rest
    BY <2>4, RestFields DEF Made, Creating, Revoking
  <2>5. ASSUME NEW trip \in Trips, Creates(k, trip)
        PROVE  Goal(k)
    <3>1. Claims' = Claims
      BY <2>5 DEF Creates, Claims
    <3> QED
      BY <2>5, <3>1 DEF Creates, Same, Used, Made, Creating, Revoking
  <2>6. ASSUME NEW i \in Claims, Revokes(k, i)
        PROVE  Goal(k)
    <3>1. Claims' = Claims
      BY <2>6 DEF Revokes, Claims
    <3> QED
      BY <2>6, <3>1 DEF Revokes, Used
  <2>7. ASSUME NEW id \in Ids, Saves(k, id)
        PROVE  Goal(k)
    BY <2>7 DEF Saves, Used
  <2> QED
    BY <2>3, <2>4, <2>5, <2>6, <2>7, Fates DEF RequestFate
<1>6. ASSUME NEW i \in Ids, past'[i] # {}
      PROVE  Used(i)'
  <2>1. CASE past[i] # {}
    BY <1>2, <2>1 DEF IdsUsed
  <2>2. CASE past'[i] # past[i]
    <3>1. ASSUME NEW h \in Http, RequestStep(h)
          PROVE  Used(i)'
      <4>1. NewMarks(h, i)
        BY <3>1, RequestMarks
      <4>2. ASSUME NEW k \in Http, request[k].at # "rest", request[k].id = i
            PROVE  Used(i)
        <5>1. request[k].at \in Made \cup Revoking
          BY <4>2, IntakeAssumption DEF Placed, Typed, RequestRecs, Made
        <5> QED
          BY <4>2, <5>1 DEF IdsUsed
      <4>3. CASE request'[h].at = "reverse" /\ request'[h].id = i
        BY <1>5, <4>3 DEF Made, Creating
      <4> QED
        BY <1>2, <2>2, <4>1, <4>2, <4>3 DEF NewMarks, Used
    <3>2. ASSUME NEW c \in Claims, EditStep(c) \/ DeleteClaim(c)
          PROVE  Used(i)'
      <4>1. i = c
        <5>1. CASE EditStep(c)
          BY <2>2, <5>1, EditEffect
        <5>2. CASE DeleteClaim(c)
          <6>1. past' = Mark({c}, "deleted")
            BY <5>2, DeleteEffect
          <6> QED
            BY <2>2, <6>1 DEF Mark
        <5> QED
          BY <3>2, <5>1, <5>2
      <4> QED
        BY <1>2, <4>1 DEF Used
    <3>3. ASSUME NEW kind \in Kinds, WorkStep(kind)
          PROVE  Used(i)'
      <4>1. InWork(i)
        BY <2>2, <3>3, WorkMarks DEF InWork
      <4> QED
        BY <1>1, <1>2, <4>1
    <3>4. CASE Crashes
      <4>1. CASE past'[i] \cap {"ended", "stalled"} \subseteq past[i]
        <5>4. /\ past[i] \subseteq past'[i]
              /\ past'[i] \subseteq past[i] \cup {"broken", "ended", "stalled"}
          BY <3>4 DEF Crashes
        <5>1. "broken" \in past'[i] /\ "broken" \notin past[i]
          BY <2>2, <4>1, <5>4
        <5>2. PICK h \in Http : request[h].at \in Creating /\ request[h].id = i
          BY <3>4, <5>1 DEF Crashes
        <5>3. request[h].at \in Made
          BY <5>2, IntakeAssumption DEF Placed, Made
        <5> QED
          BY <1>1, <1>2, <5>2, <5>3 DEF InWork
      <4>2. CASE ~(past'[i] \cap {"ended", "stalled"} \subseteq past[i])
        <5>1. worker["claimReminder"] # Idle /\ worker["claimReminder"].job.id = i
          BY <3>4, <4>2 DEF Crashes
        <5>2. InWork(i)
          BY <5>1 DEF InWork, Kinds
        <5> QED
          BY <1>1, <1>2, <5>2
      <4> QED
        BY <4>1, <4>2
    <3> QED
      BY <3>1, <3>2, <3>3, <3>4 DEF Step
  <2> QED
    BY <1>6, <2>1, <2>2
<1> QED
  BY <1>3, <1>4, <1>5, <1>6 DEF IdsUsed, Is

-----------------------------------------------------------------------------
(* An id is given once.                                                    *)

\* Only the request of a claim says that it was answered, or that it broke off.
LEMMA FinishedBy ==
  ASSUME Typed, Placed, Step, NEW i \in Ids, NEW what \in {"answered", "broken"},
         what \in past'[i], what \notin past[i]
  PROVE  \/ Crashes
         \/ \E k \in Http : /\ request[k].at \in Made /\ request[k].id = i
                            /\ request'[k] = Rest
                            /\ what = "answered" => Answers(k)
<1> DEFINE By(k) == /\ request[k].at \in Made /\ request[k].id = i
                    /\ request'[k] = Rest
                    /\ what = "answered" => Answers(k)
<1>1. ASSUME NEW h \in Http, RequestStep(h)
      PROVE  By(h)
  <2>1. CASE \E trip \in Trips : Creates(h, trip)
    BY <2>1 DEF Creates, Mark
  <2>2. CASE \E c \in Claims : Revokes(h, c)
    BY <2>2 DEF Revokes
  <2>3. CASE \E id \in Ids : Saves(h, id)
    BY <2>3 DEF Saves, Mark
  <2>4. CASE Leaves(h)
    <3>1. past' = Mark({request[h].id}, "broken") /\ request[h].at \in Made
      BY <2>4 DEF Leaves
    <3>2. i = request[h].id /\ what = "broken"
      BY <3>1 DEF Mark
    <3> QED
      BY <2>4, <3>1, <3>2 DEF Leaves
  <2>5. CASE Answers(h)
    <3>1. past' = Mark({request[h].id}, "answered") /\ request[h].at \in Made
      BY <2>5 DEF Answers, Made, Creating
    <3>2. i = request[h].id
      BY <3>1 DEF Mark
    <3> QED
      BY <2>5, <3>1, <3>2 DEF Answers
  <2>6. CASE \/ Retries(h) \/ Reverses(h) \/ Owns(h) \/ AddsJobs(h) \/ Archives(h) \/ Unlinks(h)
    BY <2>6 DEF Retries, Reverses, Owns, AddsJobs, Archives, ArchiveDuplicates, Unlinks
  <2> QED
    BY <1>1, <2>1, <2>2, <2>3, <2>4, <2>5, <2>6 DEF RequestStep
<1>2. ASSUME NEW c \in Claims, EditStep(c) \/ DeleteClaim(c)
      PROVE  FALSE
  <2>1. CASE EditStep(c)
    BY <2>1, EditEffect
  <2>2. CASE DeleteClaim(c)
    <3>1. past' = Mark({c}, "deleted")
      BY <2>2, DeleteEffect
    <3>2. past'[i] \subseteq past[i] \cup {"deleted"}
      BY <3>1, MarkFields
    <3> QED
      BY <3>2
  <2> QED
    BY <1>2, <2>1, <2>2
<1>3. ASSUME NEW kind \in Kinds, WorkStep(kind)
      PROVE  FALSE
  BY <1>3, WorkMarks
<1> QED
  BY <1>1, <1>2, <1>3 DEF Step

\* The request of a claim had the claim before, or makes it now.
LEMMA MadeFate ==
  ASSUME Typed, Placed, Step, NEW h \in Http, request'[h].at \in Made
  PROVE  \/ request[h].at \in Made /\ request'[h].id = request[h].id
         \/ \E id \in Ids : Saves(h, id) /\ request'[h].id = id
<1>1. CASE Same1(h)
  BY <1>1 DEF Same1
<1>2. CASE GoesOn(h)
  BY <1>2 DEF GoesOn, Made, Creating, Revoking
<1>3. CASE request'[h] = Rest
  BY <1>3, RestFields DEF Made, Creating
<1>4. CASE \/ \E trip \in Trips : Creates(h, trip)
           \/ \E i \in Claims : Revokes(h, i)
  BY <1>4 DEF Creates, Revokes, Made, Creating
<1>5. ASSUME NEW id \in Ids, Saves(h, id)
      PROVE  request'[h].id = id
  BY <1>5 DEF Saves
<1> QED
  BY <1>1, <1>2, <1>3, <1>4, <1>5, Fates DEF RequestFate

\* The id that a request saves its claim under was never used, unless a claim was
\* deleted that had it.
LEMMA SavesFresh ==
  ASSUME Typed, Placed, IdsUsed, NEW h \in Http, NEW id \in Ids, Saves(h, id)
  PROVE  /\ \A l \in links : id \notin {l[1], l[2]}
         /\ ~Is(id, "deleted") =>
              /\ past[id] = {} /\ ~InWork(id)
              /\ \A k \in Http : request[k].id # id /\ id \notin request[k].found
<1>1. id \notin Claims
  BY DEF Saves
<1>2. \A l \in links : id \notin {l[1], l[2]}
  BY <1>1 DEF Typed
<1> SUFFICES ASSUME ~Is(id, "deleted")
             PROVE  /\ past[id] = {} /\ ~InWork(id)
                    /\ \A k \in Http : request[k].id # id /\ id \notin request[k].found
  BY <1>2
<1>3. ~Used(id)
  BY <1>1 DEF Used
<1>4. past[id] = {}
  BY <1>3 DEF IdsUsed
<1>5. ~InWork(id)
  BY <1>3 DEF InWork, IdsUsed
<1>6. \A k \in Http : id \notin request[k].found
  BY <1>3 DEF IdsUsed
<1>7. ASSUME NEW k \in Http
      PROVE  request[k].id # id
  <2>1. CASE request[k].at \in {"rest", "save"}
    BY <2>1, IntakeAssumption DEF Placed
  <2>2. CASE request[k].at \notin {"rest", "save"}
    <3>1. request[k].at \in Made \cup Revoking
      BY <2>2 DEF Typed, RequestRecs, Made
    <3> QED
      BY <1>3, <3>1 DEF IdsUsed
  <2> QED
    BY <2>1, <2>2
<1> QED
  BY <1>4, <1>5, <1>6, <1>7

\* No step gives the id of one request to another, or goes on behind its answer.
LEMMA IdGivenOnceStep ==
  ASSUME Typed, Placed, IdsUsed, IdGivenOnce, Step
  PROVE  IdGivenOnce'
<1> DEFINE Once(h, k) == request'[k].at \in Creating => request'[k].id # request'[h].id
<1>1. ASSUME NEW h \in Http, request'[h].at \in Made, "deleted" \notin past'[request'[h].id]
      PROVE  /\ past'[request'[h].id] \cap {"answered", "broken"} = {}
             /\ \A k \in Http \ {h} : Once(h, k)
  <2>0. request'[h].id \in Ids /\ ~Is(request'[h].id, "deleted")
    <3>1. request'[h].id \in Ids
      BY <1>1, TypedStep DEF Placed
    <3> QED
      BY <1>1, <3>1, PastGrows DEF Is
  <2>1. CASE request[h].at \in Made /\ request'[h].id = request[h].id
    <3>1. /\ request[h].id \in Ids /\ past[request[h].id] \cap {"answered", "broken"} = {}
          /\ \A k \in Http \ {h} : request[k].at \in Creating => request[k].id # request[h].id
      BY <2>0, <2>1 DEF Placed, IdGivenOnce, Made
    <3>2. request'[h] # Rest
      BY <1>1, RestFields DEF Made, Creating
    <3>3. ~Crashes
      BY <3>2 DEF Crashes
    <3>4. past'[request[h].id] \cap {"answered", "broken"} = {}
      <4> SUFFICES ASSUME NEW what \in {"answered", "broken"}, what \in past'[request[h].id]
                   PROVE  FALSE
        OBVIOUS
      <4>1. what \notin past[request[h].id]
        BY <3>1
      <4>2. PICK k \in Http : /\ request[k].at \in Made /\ request[k].id = request[h].id
                              /\ request'[k] = Rest
        BY <3>1, <3>3, <4>1, FinishedBy
      <4> QED
        BY <3>1, <3>2, <4>2 DEF Made
    <3>5. ASSUME NEW k \in Http \ {h}, request'[k].at \in Creating
          PROVE  request'[k].id # request'[h].id
      <4>1. CASE request'[k].at = "save"
        <5>1. request'[k].id = NoId
          BY <4>1, TypedStep DEF Placed
        <5> QED
          BY <2>1, <3>1, <5>1, IntakeAssumption
      <4>2. CASE request'[k].at \in Made
        <5>1. CASE request[k].at \in Made /\ request'[k].id = request[k].id
          BY <2>1, <3>1, <5>1 DEF Made
        <5>2. ASSUME NEW id \in Ids, Saves(k, id), request'[k].id = id
              PROVE  request'[k].id # request'[h].id
          BY <2>0, <2>1, <5>2, SavesFresh DEF Made, Creating
        <5> QED
          BY <4>2, <5>1, <5>2, MadeFate
      <4> QED
        BY <3>5, <4>1, <4>2 DEF Made
    <3> QED
      BY <2>1, <3>4, <3>5
  <2>2. ASSUME NEW id \in Ids, Saves(h, id), request'[h].id = id
        PROVE  /\ past'[request'[h].id] \cap {"answered", "broken"} = {}
               /\ \A k \in Http \ {h} : Once(h, k)
    <3>1. past[id] = {} /\ \A k \in Http : request[k].at \in Creating => request[k].id # id
      BY <2>0, <2>2, SavesFresh DEF Made, Creating
    <3>2. past'[id] \cap {"answered", "broken"} = {}
      BY <2>2, <3>1 DEF Saves, Mark
    <3>3. \A k \in Http \ {h} : request'[k] = request[k]
      BY <2>2 DEF Saves, OnlyRequest
    <3> QED
      BY <2>2, <3>1, <3>2, <3>3
  <2> QED
    BY <1>1, <2>1, <2>2, MadeFate
<1> QED
  BY <1>1 DEF IdGivenOnce, Made, Is

-----------------------------------------------------------------------------
(* What becomes of a claim and of a worker in a step.                      *)

\* A claim that is there was there, with its trip and its owner, or is made now.
ClaimStays(i) ==
  /\ i \in Claims /\ claims'[i].trip = claims[i].trip
  /\ \/ claims'[i].owned = claims[i].owned
     \/ claims'[i].owned /\ \E h \in Http : Owns(h) /\ request[h].id = i

\* Every claim was there before the step, or one request saves it in the step.
LEMMA ClaimFate ==
  ASSUME Typed, Placed, Step, NEW i \in Claims'
  PROVE  ClaimStays(i) \/ \E h \in Http : i \in Ids /\ Saves(h, i)
<1>1. claims' = claims => ClaimStays(i)
  BY DEF ClaimStays, Claims
<1>2. ASSUME NEW h \in Http, RequestStep(h)
      PROVE  ClaimStays(i) \/ \E k \in Http : i \in Ids /\ Saves(k, i)
  <2>1. ASSUME NEW id \in Ids, Saves(h, id)
        PROVE  ClaimStays(i) \/ (i \in Ids /\ Saves(h, i))
    BY <2>1 DEF Saves, ClaimStays
  <2>2. CASE Owns(h)
    BY <2>2, LinkOwnerEffect DEF Owns, ClaimStays
  <2>3. CASE Archives(h)
    BY <2>3, ArchiveEffect DEF Archives, ClaimStays
  <2> QED
    BY <1>1, <1>2, <2>1, <2>2, <2>3 DEF RequestStep, Creates, Revokes, Retries, Leaves,
       Reverses, AddsJobs, Answers, Unlinks
<1>3. ASSUME NEW c \in Claims, EditStep(c) \/ DeleteClaim(c)
      PROVE  ClaimStays(i)
  <2>1. CASE EditStep(c)
    BY <2>1, EditEffect DEF ClaimStays
  <2>2. CASE DeleteClaim(c)
    BY <2>2, DeleteEffect DEF ClaimStays
  <2> QED
    BY <1>3, <2>1, <2>2
<1> QED
  BY <1>1, <1>2, <1>3 DEF Step, WorkStep, Crashes

\* A job of a worker: what was read of its claim is marked when the claim changes.
ReadStays(k) ==
  /\ worker'[k].at = worker[k].at /\ worker'[k].job = worker[k].job
  /\ worker[k].changed => worker'[k].changed
  /\ worker[k] = Idle => worker'[k] = Idle
  /\ (worker[k].job.id \in Claims /\ ~worker'[k].changed) =>
       /\ worker[k].job.id \in Claims'
       /\ Wants(k, worker[k].job.id)' = Wants(k, worker[k].job.id)
WorkerFate(k) == WorkStep(k) \/ worker'[k] = Idle \/ ReadStays(k)

\* A claim does not change behind a worker that is not marked.
LEMMA WorkerFates ==
  ASSUME Typed, Placed, Step, NEW k \in Kinds
  PROVE  WorkerFate(k)
<1> DEFINE i == worker[k].job.id
<1>1. ASSUME worker' = worker,
             i \in Claims => /\ i \in Claims' /\ claims'[i].step = claims[i].step
                             /\ claims'[i].archived = claims[i].archived
                             /\ claims'[i].active = claims[i].active
      PROVE  ReadStays(k)
  BY <1>1 DEF ReadStays, Wants
<1>2. ASSUME NEW ids \in SUBSET Ids, Changed(ids),
             i \in Claims \ ids => i \in Claims' /\ claims'[i] = claims[i]
      PROVE  ReadStays(k)
  <2>1. /\ worker'[k].at = worker[k].at /\ worker'[k].job = worker[k].job
        /\ worker[k] = Idle => worker'[k] = Idle
        /\ worker[k].changed => worker'[k].changed
        /\ worker[k].job.id \in ids => worker'[k].changed
    BY <1>2, ChangedEffect
  <2> QED
    BY <1>2, <2>1 DEF ReadStays, Wants
<1>3. ASSUME NEW h \in Http, RequestStep(h)
      PROVE  ReadStays(k)
  <2>1. CASE \E id \in Ids : Saves(h, id)
    BY <1>1, <2>1 DEF Saves
  <2>2. CASE Owns(h)
    BY <1>1, <2>2, LinkOwnerEffect DEF Owns
  <2>3. CASE Archives(h)
    <3>1. request[h].found \in SUBSET Ids
      BY DEF Typed, RequestRecs
    <3>2. Changed(request[h].found)
      BY <2>3 DEF Archives, ArchiveDuplicates
    <3>3. Claims' = Claims /\ \A c \in Claims \ request[h].found : claims'[c] = claims[c]
      BY <2>3, ArchiveEffect DEF Archives
    <3> QED
      BY <1>2, <3>1, <3>2, <3>3
  <2>4. CASE ~((\E id \in Ids : Saves(h, id)) \/ Owns(h) \/ Archives(h))
    <3>1. claims' = claims /\ worker' = worker
      BY <1>3, <2>2, <2>3, <2>4 DEF RequestStep, Creates, Revokes, Retries, Leaves,
         Reverses, AddsJobs, Answers, Unlinks
    <3> QED
      BY <1>1, <3>1 DEF Claims
  <2> QED
    BY <2>1, <2>2, <2>3, <2>4
<1>4. ASSUME NEW c \in Claims, EditStep(c) \/ DeleteClaim(c)
      PROVE  ReadStays(k)
  <2>1. {c} \in SUBSET Ids
    BY DEF Typed
  <2>2. CASE EditStep(c)
    BY <1>2, <2>1, <2>2, EditEffect
  <2>3. CASE DeleteClaim(c)
    BY <1>2, <2>1, <2>3, DeleteEffect
  <2> QED
    BY <1>4, <2>2, <2>3
<1>5. ASSUME NEW kind \in Kinds, WorkStep(kind), kind # k
      PROVE  ReadStays(k)
  BY <1>1, <1>5 DEF WorkStep, ReadStays, Wants, Claims
<1> QED
  BY <1>3, <1>4, <1>5 DEF Step, Crashes, WorkerFate

-----------------------------------------------------------------------------
(* Owners and reminders.                                                   *)

\* The account is linked before the jobs are added, and never unlinked.
LEMMA OwnerLinkedStep ==
  ASSUME Typed, Placed, IdsUsed, IdGivenOnce, OwnerLinked, ReminderKept, Step
  PROVE  OwnerLinked'
<1>1. ASSUME NEW h \in Http, request[h].id \in Claims', request[h].at # "rest",
             ~Is(request[h].id, "deleted")
      PROVE  ClaimStays(request[h].id)
  BY <1>1, ClaimFate, SavesFresh
<1>4. \A i \in Claims' : i \in Ids /\ (Is(i, "deleted") => Is(i, "deleted")')
  BY TypedStep, PastGrows DEF Typed, Is
<1> DEFINE Goal(h) ==
       /\ request'[h].at = "reverse" => claims'[request'[h].id].owned = request'[h].owned
       /\ request'[h].at \in {"followUps", "reminder", "flight"} =>
            claims'[request'[h].id].owned
<1>2. ASSUME NEW h \in Http, request'[h].id \in Claims',
             "deleted" \notin past'[request'[h].id]
      PROVE  Goal(h)
  <2>0. ~Is(request'[h].id, "deleted")
    BY <1>2, <1>4 DEF Is
  <2>1. CASE Same1(h)
    <3>1. CASE request[h].at \in Made
      <4>1. ClaimStays(request[h].id)
        BY <1>1, <1>2, <2>0, <2>1, <3>1 DEF Same1, Made, Creating
      <4>2. ASSUME NEW k \in Http, Owns(k), request[k].id = request[h].id
            PROVE  request[h].at # "reverse"
        <5>1. request[k].at = "owner" /\ request[k].at \in Made
          BY <4>2 DEF Owns, Made, Creating
        <5>2. k = h
          BY <2>0, <2>1, <3>1, <4>2, <5>1 DEF IdGivenOnce, Made, Same1
        <5> QED
          BY <5>1, <5>2
      <4> QED
        BY <2>0, <2>1, <3>1, <4>1, <4>2 DEF Same1, OwnerLinked, ClaimStays
    <3>2. CASE request[h].at \notin Made
      BY <2>1, <3>2 DEF Same1, Made, Creating
    <3> QED
      BY <3>1, <3>2
  <2>2. CASE request'[h] = Rest
    BY <2>2, RestFields
  <2>3. CASE Reverses(h)
    <3>1. /\ request'[h].at = IF request[h].owned THEN "followUps" ELSE "owner"
          /\ request'[h].id = request[h].id /\ claims' = claims
          /\ request[h].at = "reverse"
      BY <2>3 DEF Reverses, Moves
    <3>2. request[h].id \in Claims
      BY <1>2, <3>1 DEF Claims
    <3>3. claims[request[h].id].owned = request[h].owned
      BY <2>0, <3>1, <3>2 DEF OwnerLinked
    <3> QED
      BY <3>1, <3>3
  <2>4. CASE Owns(h)
    <3>1. request'[h].at = "followUps" /\ request'[h].id = request[h].id
      BY <2>4 DEF Owns, Moves
    <3>2. claims'[request[h].id].owned
      BY <2>4, LinkOwnerEffect DEF Owns
    <3> QED
      BY <3>1, <3>2
  <2>5. CASE AddsJobs(h)
    <3>1. /\ request[h].at \in {"followUps", "reminder"}
          /\ request'[h].at \in {"reminder", "flight"}
          /\ request'[h].id = request[h].id /\ claims' = claims
      BY <2>5 DEF AddsJobs, Moves
    <3>2. claims[request[h].id].owned
      BY <1>2, <2>0, <3>1 DEF OwnerLinked, Claims
    <3> QED
      BY <3>1, <3>2
  <2>6. CASE \/ Archives(h)
             \/ \E trip \in Trips : Creates(h, trip)
             \/ \E i \in Claims : Revokes(h, i)
    BY <2>6 DEF Archives, Moves, Creates, Revokes
  <2>7. ASSUME NEW id \in Ids, Saves(h, id)
        PROVE  Goal(h)
    BY <2>7 DEF Saves
  <2> QED
    BY <2>1, <2>2, <2>3, <2>4, <2>5, <2>6, <2>7, Fates DEF RequestFate
<1>3. ASSUME NEW i \in Claims', "answered" \in past'[i], "deleted" \notin past'[i]
      PROVE  claims'[i].owned
  <2>0. ~Is(i, "deleted")
    BY <1>3, <1>4 DEF Is
  <2>1. CASE "answered" \in past[i]
    <3>1. i \in Ids
      BY TypedStep DEF Typed
    <3>2. ClaimStays(i)
      BY <2>0, <2>1, <3>1, ClaimFate, SavesFresh DEF Is
    <3> QED
      BY <2>0, <2>1, <3>2 DEF ClaimStays, OwnerLinked, Is
  <2>2. CASE "answered" \notin past[i]
    <3>1. i \in Ids
      BY TypedStep DEF Typed
    <3>2. ~Crashes \/ claims' = claims
      BY DEF Crashes
    <3>3. CASE Crashes
      <4>1. past'[i] \subseteq past[i] \cup {"broken", "ended", "stalled"}
        BY <3>1, <3>3 DEF Crashes
      <4> QED
        BY <1>3, <2>2, <4>1
    <3>4. CASE ~Crashes
      <4>1. PICK k \in Http : request[k].id = i /\ Answers(k)
        BY <1>3, <2>2, <3>1, <3>4, FinishedBy
      <4>2. request[k].at = "flight" /\ claims' = claims
        BY <4>1 DEF Answers
      <4>3. i \in Claims
        BY <4>2 DEF Claims
      <4> QED
        BY <2>0, <4>1, <4>2, <4>3 DEF OwnerLinked
    <3> QED
      BY <3>3, <3>4
  <2> QED
    BY <2>1, <2>2
<1> QED
  BY <1>2, <1>3 DEF OwnerLinked, Is

\* A reminder of the claim waits, or is at its worker.
Pending(i) == \/ \E j \in jobs : j.kind = "claimReminder" /\ j.id = i
              \/ worker["claimReminder"] # Idle /\ worker["claimReminder"].job.id = i

\* The jobs of a claim, those of the worker included.
LEMMA PendingJobs ==
  ASSUME Typed, Placed, NEW i \in Ids
  PROVE  JobsOf("claimReminder", i) # {} <=> Pending(i)
<1>1. "claimReminder" \in Kinds
  BY DEF Kinds
<1> DEFINE w == worker["claimReminder"]
<1>2. w # Idle <=> w.job.kind = "claimReminder"
  BY <1>1, IdleFields DEF Placed
<1> QED
  BY <1>2 DEF JobsOf, Pending

\* A reminder stays until it ended, or another one follows it.
LEMMA RemindedStays ==
  ASSUME Typed, Placed, ReminderKept, Step, NEW i \in Ids, Pending(i)
  PROVE  Pending(i)' \/ Is(i, "ended")'
<1> DEFINE w == worker["claimReminder"]
<1>0. "claimReminder" \in Kinds
  BY DEF Kinds
<1>1. ASSUME jobs \subseteq jobs', worker'["claimReminder"].job = w.job,
             w # Idle => worker'["claimReminder"] # Idle
      PROVE  Pending(i)'
  BY <1>1 DEF Pending
<1>2. ASSUME NEW ids \in SUBSET Ids, Changed(ids)
      PROVE  /\ worker'["claimReminder"].job = w.job
             /\ w # Idle => worker'["claimReminder"] # Idle
  BY <1>0, <1>2, ChangedEffect, WorkerAt, IdleFields
<1>3. ASSUME NEW h \in Http, RequestStep(h)
      PROVE  Pending(i)'
  <2>1. CASE Archives(h)
    <3>1. request[h].found \in SUBSET Ids
      BY DEF Typed, RequestRecs
    <3> QED
      BY <1>1, <1>2, <2>1, <3>1 DEF Archives, ArchiveDuplicates
  <2>2. CASE AddsJobs(h)
    BY <1>1, <2>2, AddedTyped DEF AddsJobs
  <2>3. CASE ~(Archives(h) \/ AddsJobs(h))
    <3>1. jobs' = jobs /\ worker' = worker
      BY <1>3, <2>3 DEF RequestStep, Creates, Revokes, Saves, Retries, Leaves,
         Reverses, Owns, Answers, Unlinks
    <3> QED
      BY <1>1, <3>1
  <2> QED
    BY <2>1, <2>2, <2>3
<1>4. ASSUME NEW c \in Claims, EditStep(c) \/ DeleteClaim(c)
      PROVE  Pending(i)'
  <2>1. {c} \in SUBSET Ids /\ Changed({c}) /\ jobs' = jobs
    BY <1>4, EditEffect, DeleteEffect DEF Typed
  <2> QED
    BY <1>1, <1>2, <2>1
<1>5. CASE Crashes
  <2>1. CASE \E j \in jobs : j.kind = "claimReminder" /\ j.id = i
    BY <1>5, <2>1 DEF Crashes, Pending
  <2>2. CASE w # Idle /\ w.job.id = i
    <3>1. w.job \in Queued /\ w.job.kind = "claimReminder"
      BY <1>0, <2>2 DEF Placed
    <3>2. CASE w.job.stalled
      BY <1>5, <2>2, <3>2 DEF Crashes, Is
    <3>3. CASE ~w.job.stalled
      <4>1. PICK r \in Stalled(w.job) : r.kind = "claimReminder" /\ r.id = i
        BY <2>2, <3>1, <3>3, StalledFields
      <4>2. r \in jobs'
        BY <1>0, <1>5, <2>2, <4>1 DEF Crashes
      <4> QED
        BY <4>1, <4>2 DEF Pending
    <3> QED
      BY <3>2, <3>3
  <2> QED
    BY <2>1, <2>2 DEF Pending
<1>6. ASSUME NEW kind \in Kinds, WorkStep(kind)
      PROVE  Pending(i)' \/ Is(i, "ended")'
  <2>0. \A k \in Kinds \ {kind} : worker'[k] = worker[k]
    BY <1>6 DEF WorkStep
  <2>1. ASSUME NEW j \in jobs, Takes(kind, j) \/ Drops(kind, j)
        PROVE  Pending(i)' \/ Is(i, "ended")'
    <3>1. jobs \ {j} \subseteq jobs' /\ worker[kind] = Idle /\ j.kind = kind
      BY <2>1 DEF Takes, Drops
    <3>2. CASE \E r \in jobs \ {j} : r.kind = "claimReminder" /\ r.id = i
      BY <3>1, <3>2 DEF Pending
    <3>3. CASE w # Idle /\ w.job.id = i
      BY <1>0, <2>0, <3>1, <3>3 DEF Pending
    <3>4. CASE j.kind = "claimReminder" /\ j.id = i
      <4>1. CASE Takes(kind, j)
        BY <3>1, <3>4, <4>1, IdleFields, WorkerAt DEF Takes, Pending
      <4>2. CASE Drops(kind, j)
        <5>1. past' = EndedBy(j)
          BY <4>2 DEF Drops
        <5> QED
          BY <3>4, <5>1, EndedByFields DEF Is
      <4> QED
        BY <2>1, <4>1, <4>2
    <3> QED
      BY <3>2, <3>3, <3>4 DEF Pending
  <2>2. CASE Throws(kind)
    <3>1. jobs \subseteq jobs' /\ past' = EndedBy(worker[kind].job)
      BY <2>2 DEF Throws
    <3>2. CASE kind = "claimReminder" /\ w # Idle /\ w.job.id = i
      <4>1. w.job.kind = "claimReminder"
        BY <1>0, <3>2 DEF Placed
      <4> QED
        BY <3>1, <3>2, <4>1, EndedByFields DEF Is
    <3>3. CASE ~(kind = "claimReminder" /\ w # Idle /\ w.job.id = i)
      BY <1>0, <2>0, <3>1, <3>3 DEF Pending
    <3> QED
      BY <3>2, <3>3
  <2>3. CASE Records(kind) \/ Sends(kind) \/ Stores(kind) \/ Schedules(kind)
    <3>1. /\ jobs \subseteq jobs' /\ worker'[kind].job.id = worker[kind].job.id
          /\ worker'[kind] # Idle
      BY <2>3, IdleFields DEF Records, Sends, Stores, Schedules
    <3> QED
      BY <1>0, <2>0, <3>1 DEF Pending
  <2>4. CASE Ends(kind)
    <3>1. CASE kind = "claimReminder" /\ w.job.id = i
      BY <2>4, <3>1 DEF Ends, ReminderKept, Doing, Pending
    <3>2. CASE ~(kind = "claimReminder" /\ w.job.id = i)
      BY <1>0, <2>0, <2>4, <3>2 DEF Ends, Pending
    <3> QED
      BY <3>1, <3>2
  <2> QED
    BY <1>6, <2>1, <2>2, <2>3, <2>4 DEF WorkStep
<1> QED
  BY <1>3, <1>4, <1>5, <1>6 DEF Step

LEMMA RemindedPending ==
  ASSUME Typed, Placed, Step, NEW i \in Ids
  PROVE  /\ Reminded(i) <=> Pending(i) \/ Is(i, "ended")
         /\ Reminded(i)' <=> Pending(i)' \/ Is(i, "ended")'
<1>1. "claimReminder" \in Kinds
  BY DEF Kinds
<1> DEFINE w == worker["claimReminder"]
<1>2. w'# Idle <=> w'.job.kind = "claimReminder"
  BY <1>1, TypedStep, IdleFields DEF Placed
<1>3. (JobsOf("claimReminder", i) # {})' <=> Pending(i)'
  BY <1>2 DEF JobsOf, Pending
<1> QED
  BY <1>3, PendingJobs DEF Reminded

\* The series of reminders of an answered claim is never lost.
LEMMA ReminderKeptStep ==
  ASSUME Typed, Placed, IdsUsed, ReminderKept, Step
  PROVE  ReminderKept'
<1> DEFINE w == worker["claimReminder"]
<1>0. "claimReminder" \in Kinds
  BY DEF Kinds
<1>1. ASSUME NEW i \in Ids, Reminded(i)
      PROVE  Reminded(i)'
  <2>1. Is(i, "ended") => Is(i, "ended")'
    BY PastGrows DEF Is
  <2> QED
    BY <1>1, <2>1, RemindedPending, RemindedStays
<1>2. ASSUME NEW h \in Http, request'[h].at = "flight"
      PROVE  Reminded(request[h].id)'
  <2>1. CASE request[h].at = "flight" /\ request'[h].id = request[h].id
    <3>1. Reminded(request[h].id) /\ request[h].id \in Ids
      BY <2>1 DEF ReminderKept, At, Placed, Made, Creating
    <3>2. PICK i \in Ids : i = request[h].id
      BY <3>1
    <3>3. Reminded(i)'
      BY <1>1, <3>1, <3>2
    <3>4. i = request'[h].id
      BY <2>1, <3>2
    <3> QED
      BY <3>3, <3>4 DEF Reminded, JobsOf, Is
  <2>2. CASE AddsJobs(h)
    <3>1. request[h].at = "reminder" /\ request'[h].id = request[h].id
      BY <1>2, <2>2 DEF AddsJobs, Moves
    <3>5. PICK n \in Nat : jobs' = jobs \cup {Job("claimReminder", request[h].id, n, 1)}
      BY <2>2, <3>1, AddedTyped
    <3>2. request[h].id \in Ids
      BY <2>2, AddedTyped
    <3>3. /\ Job("claimReminder", request[h].id, n, 1).kind = "claimReminder"
          /\ Job("claimReminder", request[h].id, n, 1).id = request[h].id
      BY <1>0, <3>2, JobFields
    <3>4. \E j \in jobs' : j.kind = "claimReminder" /\ j.id = request'[h].id
      BY <3>1, <3>3, <3>5
    <3> QED
      BY <3>1, <3>4 DEF Reminded, JobsOf
  <2>3. CASE ~AddsJobs(h)
    <3>1. ~Reverses(h) /\ ~Owns(h) /\ ~Archives(h) /\ request'[h] # Rest
      BY <1>2, RestFields DEF Reverses, Owns, Archives, Moves
    <3>2. ~(\E trip \in Trips : Creates(h, trip)) /\ ~(\E i \in Claims : Revokes(h, i))
          /\ ~(\E id \in Ids : Saves(h, id))
      BY <1>2 DEF Creates, Revokes, Saves
    <3>3. Same1(h)
      BY <2>3, <3>1, <3>2, Fates DEF RequestFate
    <3> QED
      BY <1>2, <2>1, <3>3 DEF Same1
  <2> QED
    BY <2>2, <2>3
<1>3. ASSUME NEW i \in Ids, "answered" \in past'[i]
      PROVE  Reminded(i)'
  <2>1. CASE "answered" \in past[i]
    BY <1>1, <2>1 DEF ReminderKept, Is
  <2>2. CASE "answered" \notin past[i]
    <3>1. ~Crashes
      <4> SUFFICES ASSUME Crashes
                   PROVE  FALSE
        OBVIOUS
      <4>1. past'[i] \subseteq past[i] \cup {"broken", "ended", "stalled"}
        BY DEF Crashes
      <4> QED
        BY <1>3, <2>2, <4>1
    <3>2. PICK k \in Http : request[k].id = i /\ Answers(k)
      BY <1>3, <2>2, <3>1, FinishedBy
    <3>3. Reminded(i)
      BY <3>2 DEF Answers, ReminderKept, At
    <3> QED
      BY <1>1, <3>3
  <2> QED
    BY <2>1, <2>2
<1>4. ASSUME w'.at = "done"
      PROVE  \E j \in jobs' : j.kind = "claimReminder" /\ j.id = w'.job.id
  <2>1. ASSUME w.at = "done", w'.job.id = w.job.id,
               \A j \in jobs : j.kind = "claimReminder" => j \in jobs'
        PROVE  \E j \in jobs' : j.kind = "claimReminder" /\ j.id = w'.job.id
    BY <2>1 DEF ReminderKept, Doing
  <2>2. CASE WorkStep("claimReminder")
    <3>1. CASE Schedules("claimReminder")
      <4>1. PICK n \in Nat : jobs' = jobs \cup {Job("claimReminder", w.job.id, n, 1)}
        BY <3>1 DEF Schedules
      <4>2. w'.job = w.job /\ w # Idle
        BY <3>1, IdleFields DEF Schedules
      <4>3. w.job.id \in Ids
        BY <1>0, <4>2 DEF Placed, Queued
      <4>4. /\ Job("claimReminder", w.job.id, n, 1).kind = "claimReminder"
            /\ Job("claimReminder", w.job.id, n, 1).id = w.job.id
        BY <1>0, <4>3, JobFields
      <4> QED
        BY <4>1, <4>2, <4>4
    <3>2. CASE ~Schedules("claimReminder")
      BY <1>4, <2>2, <3>2, IdleFields DEF WorkStep, Takes, Drops, Throws, Records, Sends, Stores, Ends
    <3> QED
      BY <3>1, <3>2
  <2>3. CASE w' = Idle
    BY <1>4, <2>3, IdleFields
  <2>4. CASE ReadStays("claimReminder") /\ ~WorkStep("claimReminder") /\ ~(w' = Idle)
    <3>1. w.at = "done" /\ w'.job.id = w.job.id
      BY <1>4, <2>4 DEF ReadStays
    <3>2. \A j \in jobs : j.kind = "claimReminder" => j \in jobs'
      <4>1. ASSUME NEW kind \in Kinds, WorkStep(kind), kind # "claimReminder"
            PROVE  \A j \in jobs : j.kind = "claimReminder" => j \in jobs'
        BY <4>1 DEF WorkStep, Takes, Drops, Throws, Records, Sends, Stores, Schedules, Ends
      <4>2. ASSUME NEW h \in Http, RequestStep(h)
            PROVE  jobs \subseteq jobs'
        <5>1. CASE AddsJobs(h)
          BY <5>1, AddedTyped
        <5>2. CASE ~AddsJobs(h)
          BY <4>2, <5>2 DEF RequestStep, Creates, Revokes, Saves, Retries, Leaves,
             Reverses, Owns, Archives, ArchiveDuplicates, Answers, Unlinks
        <5> QED
          BY <5>1, <5>2
      <4>3. ASSUME NEW c \in Claims, EditStep(c) \/ DeleteClaim(c)
            PROVE  jobs' = jobs
        BY <4>3, EditEffect, DeleteEffect
      <4> QED
        BY <2>4, <4>1, <4>2, <4>3 DEF Step, Crashes
    <3> QED
      BY <2>1, <3>1, <3>2
  <2> QED
    BY <1>0, <2>2, <2>3, <2>4, WorkerFates DEF WorkerFate
<1>5. (\A h \in Http : At(h, "flight") => Reminded(request[h].id))'
  BY <1>2, MadeFate DEF At, Reminded, JobsOf, Is, Made, Creating, Saves
<1> QED
  BY <1>3, <1>4, <1>5 DEF ReminderKept, Is, Doing

-----------------------------------------------------------------------------
(* One series of reminders, one letter of a job.                           *)

\* Where a reminder in the queue comes from.
AddedFirst(i) == \E h \in Http :
  /\ AddsJobs(h) /\ request[h].at = "reminder" /\ request[h].id = i
  /\ \E r : Waiting(i)' \subseteq Waiting(i) \cup {r}
AddedNext(i) ==
  /\ Schedules("claimReminder") /\ worker["claimReminder"].job.id = i
  /\ \E r : Waiting(i)' \subseteq Waiting(i) \cup {r}
Returned(i) == Crashes /\ Is(i, "stalled")'

\* A reminder is added by the request, by the one before it, or by a restart.
LEMMA NewReminders ==
  ASSUME Typed, Placed, Step, NEW i \in Ids
  PROVE  \/ Waiting(i)' \subseteq Waiting(i)
         \/ AddedFirst(i) \/ AddedNext(i) \/ Returned(i)
<1> DEFINE w == worker["claimReminder"]
<1>0. "claimReminder" \in Kinds
  BY DEF Kinds
<1>1. jobs' \subseteq jobs => Waiting(i)' \subseteq Waiting(i)
  BY DEF Waiting
<1>2. ASSUME NEW r, jobs' \subseteq jobs \cup {r}
      PROVE  Waiting(i)' \subseteq Waiting(i) \cup {r}
  BY <1>2 DEF Waiting
<1>3. ASSUME NEW h \in Http, RequestStep(h)
      PROVE  Waiting(i)' \subseteq Waiting(i) \/ AddedFirst(i)
  <2>1. CASE AddsJobs(h)
    <3>1. /\ \A j \in jobs' \ jobs :
               /\ j.id = request[h].id
               /\ j.kind = "followUpClaim" \/ request[h].at = "reminder"
          /\ request[h].at = "reminder" =>
               \E n \in Nat : jobs' = jobs \cup {Job("claimReminder", request[h].id, n, 1)}
      BY <2>1, AddedTyped
    <3>2. CASE request[h].at = "reminder" /\ request[h].id = i
      <4>1. PICK n \in Nat : jobs' = jobs \cup {Job("claimReminder", request[h].id, n, 1)}
        BY <3>1, <3>2
      <4>2. Waiting(i)' \subseteq Waiting(i) \cup {Job("claimReminder", request[h].id, n, 1)}
        BY <1>2, <4>1
      <4> QED
        BY <2>1, <3>2, <4>2 DEF AddedFirst
    <3>3. CASE ~(request[h].at = "reminder" /\ request[h].id = i)
      BY <3>1, <3>3 DEF Waiting
    <3> QED
      BY <3>2, <3>3
  <2>2. CASE ~AddsJobs(h)
    BY <1>1, <1>3, <2>2 DEF RequestStep, Creates, Revokes, Saves, Retries, Leaves,
       Reverses, Owns, Archives, ArchiveDuplicates, Answers, Unlinks
  <2> QED
    BY <2>1, <2>2
<1>4. ASSUME NEW c \in Claims, EditStep(c) \/ DeleteClaim(c)
      PROVE  jobs' = jobs
  BY <1>4, EditEffect, DeleteEffect
<1>5. ASSUME NEW kind \in Kinds, WorkStep(kind)
      PROVE  Waiting(i)' \subseteq Waiting(i) \/ AddedNext(i)
  <2>1. ASSUME NEW j \in Queued, jobs' \subseteq jobs \cup Retried(j)
        PROVE  Waiting(i)' \subseteq Waiting(i)
    <3>1. \A r \in Retried(j) : r.kind = "followUpClaim"
      BY RetriedFields
    <3> QED
      BY <2>1, <3>1 DEF Waiting
  <2>2. ASSUME NEW j \in jobs, Drops(kind, j)
        PROVE  Waiting(i)' \subseteq Waiting(i)
    BY <2>1, <2>2 DEF Drops, Typed
  <2>3. CASE Throws(kind)
    <3>1. Thrown(kind) \in Queued
      BY <2>3, IdleFields, ThrownFields DEF Throws
    <3> QED
      BY <2>1, <2>3, <3>1 DEF Throws
  <2>4. CASE Schedules(kind)
    <3>1. PICK n \in Nat : jobs' = jobs \cup {Job(kind, worker[kind].job.id, n, 1)}
      BY <2>4 DEF Schedules
    <3>2. kind = "claimReminder" /\ w # Idle
      BY <2>4, IdleFields DEF Schedules
    <3>3. w.job.id \in Ids
      BY <1>0, <3>2 DEF Placed, Queued
    <3>4. Job(kind, w.job.id, n, 1).id = w.job.id
      BY <3>3, JobFields
    <3>5. CASE w.job.id = i
      BY <1>2, <2>4, <3>1, <3>2, <3>5 DEF AddedNext
    <3>6. CASE w.job.id # i
      BY <3>1, <3>2, <3>4, <3>6 DEF Waiting
    <3> QED
      BY <3>5, <3>6
  <2>5. CASE \/ \E j \in jobs : Takes(kind, j)
             \/ Records(kind) \/ Sends(kind) \/ Stores(kind) \/ Ends(kind)
    BY <1>1, <2>5 DEF Takes, Records, Sends, Stores, Ends
  <2> QED
    BY <1>5, <2>2, <2>3, <2>4, <2>5 DEF WorkStep
<1>6. CASE Crashes
  <2> SUFFICES ASSUME NEW j \in Waiting(i)', j \notin Waiting(i)
               PROVE  Is(i, "stalled")'
    BY <1>6 DEF Returned
  <2>1. j \in jobs' /\ j \notin jobs /\ j.kind = "claimReminder" /\ j.id = i
    BY DEF Waiting
  <2>2. PICK k \in Kinds : worker[k] # Idle /\ j \in Stalled(worker[k].job)
    BY <1>6, <2>1 DEF Crashes
  <2>3. worker[k].job \in Queued /\ worker[k].job.kind = k
    BY <2>2 DEF Placed
  <2>4. /\ j.kind = worker[k].job.kind /\ j.id = worker[k].job.id
        /\ ~worker[k].job.stalled
    BY <2>2, <2>3, StalledFields
  <2>5. "stalled" \in past'[w.job.id]
    BY <1>6, <2>1, <2>2, <2>3, <2>4 DEF Crashes
  <2> QED
    BY <2>1, <2>3, <2>4, <2>5 DEF Is
<1> QED
  BY <1>1, <1>3, <1>4, <1>5, <1>6 DEF Step

\* At most one reminder of a claim waits, unless the process stopped during one.
LEMMA OneWaitsStep ==
  ASSUME Typed, Placed, IdsUsed, IdGivenOnce, OneWaits, Step
  PROVE  OneWaits'
<1> DEFINE w == worker["claimReminder"]
<1>0. "claimReminder" \in Kinds
  BY DEF Kinds
<1>1. \A i \in Ids : /\ Is(i, "stalled") => Is(i, "stalled")'
                     /\ Is(i, "deleted") => Is(i, "deleted")'
  BY PastGrows DEF Is
<1>2. ASSUME NEW i \in Ids, AddedFirst(i), ~Is(i, "deleted")
      PROVE  /\ JobsOf("claimReminder", i) = {} /\ Waiting(i) = {}
             /\ \E h \in Http : /\ request[h].id = i /\ request[h].at = "reminder"
                                /\ request'[h].at = "flight"
  <2>1. PICK h \in Http : AddsJobs(h) /\ request[h].at = "reminder" /\ request[h].id = i
    BY <1>2 DEF AddedFirst
  <2>2. JobsOf("claimReminder", i) = {}
    BY <1>2, <2>1 DEF OneWaits, Made, Creating
  <2>3. Waiting(i) = {}
    BY <2>2 DEF Waiting, JobsOf
  <2>4. request'[h].at = "flight"
    BY <2>1 DEF AddsJobs, Moves
  <2> QED
    BY <2>1, <2>2, <2>3, <2>4
<1>3. ASSUME NEW i \in Ids, AddedNext(i)
      PROVE  /\ Is(i, "stalled") \/ Is(i, "deleted") \/ Waiting(i) = {}
             /\ JobsOf("claimReminder", i) # {} /\ w'.at = "done"
  <2>1. w.at = "next" /\ w.job.id = i /\ w'.at = "done"
    BY <1>3 DEF AddedNext, Schedules
  <2>2. w.job.kind = "claimReminder"
    BY <1>0, <2>1, IdleFields DEF Placed
  <2> QED
    BY <2>1, <2>2 DEF OneWaits, JobsOf
<1>4. ASSUME NEW i \in Ids, ~Is(i, "stalled")', ~Is(i, "deleted")',
             NEW j \in Waiting(i)', NEW k \in Waiting(i)'
      PROVE  j = k
  <2>1. ~Is(i, "stalled") /\ ~Is(i, "deleted")
    BY <1>1, <1>4
  <2>2. CASE Waiting(i)' \subseteq Waiting(i)
    BY <1>4, <2>1, <2>2 DEF OneWaits
  <2>3. CASE AddedFirst(i) \/ AddedNext(i)
    <3>1. Waiting(i) = {}
      BY <1>2, <1>3, <2>1, <2>3
    <3>2. PICK r : Waiting(i)' \subseteq Waiting(i) \cup {r}
      BY <2>3 DEF AddedFirst, AddedNext
    <3> QED
      BY <1>4, <3>1, <3>2
  <2>4. CASE Returned(i)
    BY <1>4, <2>4 DEF Returned
  <2> QED
    BY <2>2, <2>3, <2>4, NewReminders
<1>5. ASSUME w'.at \in {"letter", "store", "next"}, ~Is(w.job.id, "stalled")',
             ~Is(w.job.id, "deleted")'
      PROVE  Waiting(w.job.id)' = {}
  <2>1. w' # Idle
    BY <1>5, IdleFields
  <2>2. w'.job.id \in Ids
    BY <1>0, <2>1, TypedStep DEF Placed, Queued
  <2>3. PICK i \in Ids : i = w'.job.id
    BY <2>2
  <2>4. /\ ~Is(i, "stalled")' /\ ~Is(i, "stalled")
        /\ ~Is(i, "deleted")
    BY <1>1, <1>5, <2>3 DEF Is
  <2>5. ~Crashes
    BY <1>0, <2>1 DEF Crashes
  <2>6. CASE w.at \in {"letter", "store", "next"} /\ w.job.id = i
    <3>1. Waiting(i) = {}
      BY <2>4, <2>6 DEF OneWaits
    <3>2. w.job.kind = "claimReminder"
      BY <1>0, <2>6, IdleFields DEF Placed
    <3>3. JobsOf("claimReminder", i) # {}
      BY <2>6, <3>2 DEF JobsOf
    <3>4. ~AddedFirst(i) /\ ~AddedNext(i) /\ ~Returned(i)
      BY <1>2, <1>3, <1>5, <2>4, <2>5, <3>3 DEF Returned
    <3>5. Waiting(i)' = {}
      BY <3>1, <3>4, NewReminders
    <3> QED
      BY <2>3, <3>5 DEF Waiting
  <2>7. ASSUME NEW j, Takes("claimReminder", j)
        PROVE  Waiting(w.job.id)' = {}
    <3>1. j \in Waiting(i) /\ jobs' = jobs \ {j}
      BY <2>3, <2>7 DEF Takes, Waiting
    <3>2. \A k \in Waiting(i) : k = j
      BY <2>4, <3>1 DEF OneWaits
    <3>3. Waiting(i)' = {}
      BY <3>1, <3>2 DEF Waiting
    <3> QED
      BY <2>3, <3>3 DEF Waiting
  <2>8. CASE WorkStep("claimReminder") /\ ~ \E j : Takes("claimReminder", j)
    <3>1. w.at \in {"letter", "store", "next"} /\ w.job.id = i
      BY <1>5, <2>1, <2>3, <2>8
         DEF WorkStep, Drops, Throws, Records, Sends, Stores, Schedules, Ends
    <3> QED
      BY <2>6, <3>1
  <2>9. CASE ReadStays("claimReminder")
    BY <1>5, <2>3, <2>6, <2>9 DEF ReadStays
  <2> QED
    BY <1>0, <2>1, <2>7, <2>8, <2>9, WorkerFates DEF WorkerFate
<1>6. ASSUME NEW h \in Http, request'[h].at \in Made \ {"flight"},
             "deleted" \notin past'[request'[h].id]
      PROVE  JobsOf("claimReminder", request[h].id)' = {}
  <2>0. request'[h].id \in Ids
    BY <1>6, TypedStep DEF Placed
  <2>1. PICK i \in Ids : i = request'[h].id
    BY <2>0
  <2>4. ~Is(i, "deleted")
    BY <1>1, <1>6, <2>1 DEF Is
  <2>2. ASSUME Pending(i)'
        PROVE  FALSE
    <3>1. CASE \E id \in Ids : Saves(h, id)
      <4>1. Saves(h, i) /\ jobs' = jobs /\ worker' = worker
        BY <2>1, <3>1 DEF Saves
      <4>2. ~InWork(i)
        BY <2>4, <4>1, SavesFresh
      <4> QED
        BY <1>0, <2>2, <4>1, <4>2 DEF Pending, InWork
    <3>2. CASE ~ \E id \in Ids : Saves(h, id)
      <4>1. request[h].at \in Made /\ request[h].id = i
        BY <1>6, <2>1, <3>2, MadeFate
      <4>2. request[h].at # "flight"
        <5>1. CASE Same1(h)
          BY <1>6, <5>1 DEF Same1
        <5>2. CASE GoesOn(h) /\ (Reverses(h) \/ Owns(h) \/ AddsJobs(h) \/ Archives(h))
          BY <1>6, <5>2 DEF Reverses, Owns, AddsJobs, Archives
        <5>3. CASE request'[h] = Rest
          BY <1>6, <5>3, RestFields DEF Made, Creating
        <5> QED
          BY <3>2, <4>1, <5>1, <5>2, <5>3, Fates
             DEF RequestFate, Creates, Revokes, Made, Creating
      <4>3. JobsOf("claimReminder", i) = {}
        BY <2>4, <4>1, <4>2 DEF OneWaits
      <4>4. ~Pending(i)
        BY <4>3, PendingJobs
      <4>5. ~AddedFirst(i)
        <5> SUFFICES ASSUME AddedFirst(i)
                     PROVE  FALSE
          OBVIOUS
        <5>1. PICK k \in Http : /\ request[k].id = i /\ request[k].at = "reminder"
                                /\ request'[k].at = "flight"
          BY <1>2, <2>4
        <5>2. request[k].at \in Made
          BY <5>1 DEF Made, Creating
        <5>3. k = h
          BY <2>4, <4>1, <5>1, <5>2 DEF IdGivenOnce, Made
        <5> QED
          BY <1>6, <5>1, <5>3
      <4>6. ~AddedNext(i)
        BY <1>3, <4>3
      <4>7. ~Returned(i)
        BY <1>6, RestFields DEF Returned, Crashes, Made, Creating
      <4>8. Waiting(i)' \subseteq Waiting(i)
        BY <4>5, <4>6, <4>7, NewReminders
      <4>9. Waiting(i)' = {}
        BY <4>4, <4>8 DEF Pending, Waiting
      <4>10. w' # Idle /\ w'.job.id = i
        BY <2>2, <4>9 DEF Pending, Waiting
      <4>11. CASE ReadStays("claimReminder")
        BY <4>4, <4>10, <4>11 DEF ReadStays, Pending
      <4>12. CASE WorkStep("claimReminder")
        BY <4>4, <4>10, <4>12, IdleFields
           DEF WorkStep, Takes, Drops, Throws, Records, Sends, Stores, Schedules, Ends, Pending
      <4> QED
        BY <1>0, <4>10, <4>11, <4>12, WorkerFates DEF WorkerFate
    <3> QED
      BY <3>1, <3>2
  <2>3. w' # Idle <=> w'.job.kind = "claimReminder"
    BY <1>0, TypedStep, IdleFields DEF Placed
  <2> QED
    BY <2>1, <2>2, <2>3 DEF JobsOf, Pending
<1> QED
  BY <1>4, <1>5, <1>6 DEF OneWaits, Is

\* A job in the queue has sent no more than its failures owe it.
LEMMA SentOnceStep ==
  ASSUME Typed, Placed, SentOnce, Step
  PROVE  SentOnce'
<1> DEFINE Once(w) == \/ w.job.sent <= Owed(w.job)
                      \/ w.job.sent = Owed(w.job) + 1 /\ w.at \in {"store", "next", "done"}
           Unsent(j) == j.sent <= Owed(j)
<1>1. (\A j \in jobs : Unsent(j)) /\ \A k \in Kinds : Once(worker[k])
  BY DEF SentOnce
<1>2. \A k \in Kinds : worker[k] # Idle => worker[k].job \in Queued /\ worker[k].job.kind = k
  BY DEF Placed
<1>5. \A k \in Kinds : worker[k].job \in JobRecs
  BY DEF Typed, WorkerRecs
<1>6. \A j \in JobRecs : j.sent \in Nat /\ j.unstored \in Nat /\ j.stalled \in BOOLEAN
  BY DEF JobRecs
<1>7. \A j \in Queued : j \in JobRecs
  BY DEF Queued
<1>3. ASSUME NEW j \in jobs'
      PROVE  Unsent(j)
  <2>1. ASSUME NEW h \in Http, RequestStep(h)
        PROVE  Unsent(j)
    <3>1. CASE AddsJobs(h)
      BY <1>1, <3>1, AddedTyped DEF Owed
    <3>2. CASE ~AddsJobs(h)
      BY <1>1, <1>3, <2>1, <3>2 DEF RequestStep, Creates, Revokes, Saves, Retries, Leaves,
         Reverses, Owns, Archives, ArchiveDuplicates, Answers, Unlinks
    <3> QED
      BY <3>1, <3>2
  <2>2. ASSUME NEW c \in Claims, EditStep(c) \/ DeleteClaim(c)
        PROVE  Unsent(j)
    BY <1>1, <1>3, <2>2, EditEffect, DeleteEffect
  <2>3. ASSUME NEW kind \in Kinds, WorkStep(kind)
        PROVE  Unsent(j)
    <3>1. ASSUME NEW r \in jobs, Drops(kind, r), j \notin jobs
          PROVE  Unsent(j)
      <4>1. r \in Queued /\ j \in Retried(r)
        BY <1>3, <3>1 DEF Drops, Typed
      <4> QED
        BY <1>1, <4>1, RetriedFields DEF Owed
    <3>2. CASE Throws(kind) /\ j \notin jobs
      <4> DEFINE w == worker[kind]
      <4>1. /\ w # Idle /\ j \in Retried(Thrown(kind)) /\ w.at \in CallsAt(kind)
            /\ w.at \in {"record", "letter", "store", "next"}
        BY <1>3, <3>2, WorkerAt, IdleFields DEF Throws
      <4>2. /\ Thrown(kind) \in Queued /\ Thrown(kind).kind = kind
            /\ Thrown(kind).sent = w.job.sent /\ Thrown(kind).stalled = w.job.stalled
            /\ Thrown(kind).unstored = w.job.unstored + IF w.at = "store" THEN 1 ELSE 0
        BY <1>2, <4>1, ThrownFields
      <4>3. /\ j.kind = "followUpClaim" /\ j.sent = w.job.sent
            /\ j.stalled = w.job.stalled
            /\ j.unstored = w.job.unstored + IF w.at = "store" THEN 1 ELSE 0
        BY <4>1, <4>2, RetriedFields
      <4>4. kind = "followUpClaim"
        BY <4>1, <4>2 DEF Retried
      <4>5. w.at \notin {"next", "done"}
        BY <4>1, <4>4 DEF CallsAt
      <4>6. Once(w) /\ w.job.sent \in Nat /\ w.job.unstored \in Nat
        BY <1>1, <1>5, <1>6
      <4> HIDE DEF w
      <4> QED
        BY <4>3, <4>5, <4>6 DEF Owed
    <3>3. CASE Schedules(kind) /\ j \notin jobs
      <4>1. worker[kind] # Idle
        BY <3>3, IdleFields DEF Schedules
      <4>2. worker[kind].job.id \in Ids
        BY <1>2, <4>1 DEF Queued
      <4>3. PICK n \in Nat : j = Job(kind, worker[kind].job.id, n, 1)
        BY <1>3, <3>3 DEF Schedules
      <4> QED
        BY <4>2, <4>3, JobFields DEF Owed
    <3>4. CASE \/ \E r \in jobs : Takes(kind, r)
               \/ Records(kind) \/ Sends(kind) \/ Stores(kind) \/ Ends(kind)
      BY <1>1, <1>3, <3>4 DEF Takes, Records, Sends, Stores, Ends
    <3>5. CASE j \in jobs
      BY <1>1, <3>5
    <3> QED
      BY <2>3, <3>1, <3>2, <3>3, <3>4, <3>5 DEF WorkStep
  <2>4. CASE Crashes
    <3>1. CASE j \in jobs
      BY <1>1, <3>1
    <3>2. CASE j \notin jobs
      <4>1. PICK k \in Kinds : worker[k] # Idle /\ j \in Stalled(worker[k].job)
        BY <1>3, <2>4, <3>2 DEF Crashes
      <4>2. /\ j.stalled /\ j.sent = worker[k].job.sent
            /\ j.unstored = worker[k].job.unstored /\ ~worker[k].job.stalled
        BY <1>2, <4>1, StalledFields
      <4>3. /\ Once(worker[k]) /\ worker[k].job.sent \in Nat
            /\ worker[k].job.unstored \in Nat
        BY <1>1, <1>5, <1>6
      <4> QED
        BY <4>2, <4>3 DEF Owed
    <3> QED
      BY <3>1, <3>2
  <2> QED
    BY <2>1, <2>2, <2>3, <2>4 DEF Step
<1>4. ASSUME NEW k \in Kinds
      PROVE  Once(worker'[k])
  <2>1. CASE worker'[k] = Idle
    BY <2>1, IdleFields DEF Owed
  <2>2. CASE ReadStays(k)
    BY <1>1, <2>2 DEF ReadStays
  <2>3. CASE WorkStep(k)
    <3>1. ASSUME NEW j \in jobs, Takes(k, j)
          PROVE  Once(worker'[k])
      BY <1>1, <3>1 DEF Takes
    <3>2. CASE Records(k) \/ Stores(k) \/ Schedules(k)
      BY <1>1, <3>2 DEF Records, Stores, Schedules
    <3>3. CASE Sends(k)
      <4>1. worker[k].job.sent <= Owed(worker[k].job)
        BY <1>1, <3>3 DEF Sends
      <4>2. Owed(worker'[k].job) = Owed(worker[k].job)
        BY <3>3 DEF Sends, Owed
      <4>3. worker[k].job.sent \in Nat /\ Owed(worker[k].job) \in Nat
        BY <1>5, <1>6 DEF Owed
      <4> QED
        BY <3>3, <4>1, <4>2, <4>3 DEF Sends
    <3>4. CASE (\E j \in jobs : Drops(k, j)) \/ Throws(k) \/ Ends(k)
      BY <2>1, <3>4 DEF Drops, Throws, Ends
    <3> QED
      BY <2>3, <3>1, <3>2, <3>3, <3>4 DEF WorkStep
  <2> QED
    BY <2>1, <2>2, <2>3, WorkerFates DEF WorkerFate
<1> QED
  BY <1>3, <1>4 DEF SentOnce

\* What a job read of its claim holds until something changes the claim.
LEMMA ReadHoldsStep ==
  ASSUME Typed, Placed, ReadHolds, Step
  PROVE  ReadHolds'
<1> DEFINE Holds(k) == worker[k].job.id \in Claims /\ Wants(k, worker[k].job.id)
<1>1. \A k \in Kinds : (worker[k] # Idle /\ ~worker[k].changed) => Holds(k)
  BY DEF ReadHolds
<1>2. ASSUME NEW k \in Kinds, worker'[k] # Idle, ~worker'[k].changed
      PROVE  Holds(k)'
  <2>1. CASE ReadStays(k)
    <3>1. worker[k] # Idle /\ ~worker[k].changed /\ worker'[k].job = worker[k].job
      BY <1>2, <2>1 DEF ReadStays
    <3>2. Holds(k)
      BY <1>1, <3>1
    <3>3. /\ worker[k].job.id \in Claims'
          /\ Wants(k, worker[k].job.id)' = Wants(k, worker[k].job.id)
      BY <1>2, <2>1, <3>2 DEF ReadStays
    <3> QED
      BY <3>1, <3>2, <3>3 DEF Wants
  <2>2. CASE WorkStep(k)
    <3>1. UNCHANGED claims /\ Claims' = Claims
      BY <2>2 DEF WorkStep, Claims
    <3>2. ASSUME NEW j \in jobs, Takes(k, j)
          PROVE  Holds(k)'
      BY <3>1, <3>2 DEF Takes, Wants
    <3>3. CASE Records(k) \/ Sends(k) \/ Stores(k) \/ Schedules(k)
      <4>1. /\ worker[k] # Idle /\ ~worker[k].changed
            /\ worker'[k].job.id = worker[k].job.id
        BY <1>2, <3>3, IdleFields DEF Records, Sends, Stores, Schedules
      <4> QED
        BY <1>1, <3>1, <4>1 DEF Wants
    <3> QED
      BY <1>2, <2>2, <3>2, <3>3 DEF WorkStep, Drops, Throws, Ends
  <2> QED
    BY <1>2, <2>1, <2>2, WorkerFates DEF WorkerFate
<1> QED
  BY <1>2 DEF ReadHolds

-----------------------------------------------------------------------------
(* Claims of a trip.                                                       *)

\* Links that a step makes or leaves.
NewLink(l) == \/ \E h \in Http, id \in Ids :
                   Saves(h, id) /\ l[1] = id /\ l[2] \in request[h].found
              \/ \E h \in Http : /\ Reverses(h) /\ l[2] = request[h].id
                                 /\ l[1] \in request[h].found
                                 /\ request[h].found \cup {request[h].id} \subseteq Claims

\* A row of duplicated_claims is made by save, or by the rows that follow it.
LEMMA LinkFates ==
  ASSUME Typed, Placed, Step, NEW l \in links'
  PROVE  l \in links \/ NewLink(l)
<1>1. ASSUME NEW h \in Http, RequestStep(h)
      PROVE  l \in links \/ NewLink(l)
  <2>1. ASSUME NEW id \in Ids, Saves(h, id)
        PROVE  l \in links \/ NewLink(l)
    BY <2>1 DEF Saves, NewLink
  <2>2. CASE Reverses(h)
    BY <2>2 DEF Reverses, NewLink
  <2> QED
    BY <1>1, <2>1, <2>2 DEF RequestStep, Creates, Revokes, Retries, Leaves, Owns, AddsJobs,
       Archives, ArchiveDuplicates, Answers, Unlinks
<1>2. ASSUME NEW c \in Claims, EditStep(c) \/ DeleteClaim(c)
      PROVE  l \in links
  BY <1>2, EditEffect, DeleteEffect
<1> QED
  BY <1>1, <1>2 DEF Step, WorkStep, Crashes

\* The deletion of a claim is never forgotten.
LEMMA DeletedStays ==
  ASSUME Typed, Placed, Step, NEW i \in Claims', "deleted" \notin past'[i]
  PROVE  i \in Ids /\ ~Is(i, "deleted")
<1>1. i \in Ids
  BY TypedStep DEF Typed
<1> QED
  BY <1>1, PastGrows DEF Is

\* A claim that a request found, and that was not deleted, is there now only if
\* it was.
LEMMA FoundStays ==
  ASSUME Typed, Placed, IdsUsed, Step, NEW h \in Http,
         NEW f \in request[h].found \cup {request[h].id}, f \in Claims',
         "deleted" \notin past'[f]
  PROVE  ClaimStays(f) /\ ~Is(f, "deleted")
<1>1. f \in Ids /\ ~Is(f, "deleted")
  BY DeletedStays
<1> QED
  BY <1>1, ClaimFate, SavesFresh

\* Links, and what requests found, stay within a trip.
LEMMA TripsAgreeStep ==
  ASSUME Typed, Placed, IdsUsed, TripsAgree, Step
  PROVE  TripsAgree'
<1>0. links' \subseteq Claims' \X Claims'
  BY TypedStep DEF Typed
<1>1. ASSUME NEW l \in links', "deleted" \notin past'[l[1]], "deleted" \notin past'[l[2]]
      PROVE  claims'[l[1]].trip = claims'[l[2]].trip
  <2>0. /\ l[1] \in Claims' /\ l[2] \in Claims'
        /\ ~Is(l[1], "deleted") /\ ~Is(l[2], "deleted")
    BY <1>0, <1>1, DeletedStays
  <2>1. CASE l \in links
    <3>1. /\ l[1] \in Claims /\ l[2] \in Claims /\ claims[l[1]].trip = claims[l[2]].trip
          /\ l[1] \in Ids /\ l[2] \in Ids
      BY <2>0, <2>1 DEF TripsAgree, Typed
    <3>2. ClaimStays(l[1]) /\ ClaimStays(l[2])
      BY <2>0, <3>1, ClaimFate DEF Saves
    <3> QED
      BY <3>1, <3>2 DEF ClaimStays
  <2>2. ASSUME NEW h \in Http, NEW id \in Ids, Saves(h, id), l[1] = id, l[2] \in request[h].found
        PROVE  claims'[l[1]].trip = claims'[l[2]].trip
    <3>1. ClaimStays(l[2])
      BY <1>1, <2>0, <2>2, FoundStays
    <3> QED
      BY <2>0, <2>2, <3>1 DEF ClaimStays, TripsAgree, Saves, Revoking
  <2>3. ASSUME NEW h \in Http, Reverses(h), l[2] = request[h].id, l[1] \in request[h].found,
               request[h].found \cup {request[h].id} \subseteq Claims
        PROVE  claims'[l[1]].trip = claims'[l[2]].trip
    BY <2>0, <2>3 DEF Reverses, TripsAgree, Revoking
  <2> QED
    BY <2>1, <2>2, <2>3, LinkFates DEF NewLink
<1> DEFINE Agrees(h, f) == (f \in Claims' /\ "deleted" \notin past'[f]) =>
                             claims'[f].trip = request'[h].trip
           Stray(h, f) == request'[h].at \in Revoking /\ "missed" \in past'[f]
           Goal(h) == /\ Agrees(h, request'[h].id)
                      /\ \A f \in request'[h].found : Agrees(h, f) \/ Stray(h, f)
<1>2. ASSUME NEW h \in Http
      PROVE  Goal(h)
  <2>1. CASE Same1(h) \/ GoesOn(h)
    <3>1. /\ request'[h].found = request[h].found /\ request'[h].id = request[h].id
          /\ request'[h].trip = request[h].trip
      BY <2>1 DEF Same1, GoesOn
    <3>2. ASSUME NEW f \in request[h].found \cup {request[h].id}, f \in Claims',
                 "deleted" \notin past'[f]
          PROVE  /\ ClaimStays(f) /\ ~Is(f, "deleted") /\ f \in Ids
                 /\ claims'[f].trip = claims[f].trip /\ f \in Claims
      BY <3>2, FoundStays, DeletedStays DEF ClaimStays
    <3>3. Agrees(h, request'[h].id)
      BY <3>1, <3>2 DEF TripsAgree
    <3>4. request[h].at \in Revoking => request'[h].at \in Revoking
      BY <2>1 DEF Same1, GoesOn, Made, Creating, Revoking
    <3>5. ASSUME NEW f \in request[h].found, f \in Claims', "deleted" \notin past'[f]
          PROVE  claims'[f].trip = request[h].trip \/ Stray(h, f)
      <4>1. CASE claims[f].trip = request[h].trip
        BY <3>2, <3>5, <4>1
      <4>2. CASE request[h].at \in Revoking /\ Is(f, "missed")
        <5>1. "missed" \in past'[f]
          BY <3>2, <3>5, <4>2, PastGrows DEF Is
        <5> QED
          BY <3>4, <4>2, <5>1
      <4> QED
        BY <3>2, <3>5, <4>1, <4>2 DEF TripsAgree
    <3> QED
      BY <3>1, <3>3, <3>5
  <2>2. CASE request'[h] = Rest
    <3>1. NoId \notin Claims'
      BY TypedStep, IntakeAssumption DEF Typed
    <3> QED
      BY <2>2, <3>1, RestFields
  <2>3. ASSUME NEW trip \in Trips, Creates(h, trip)
        PROVE  Goal(h)
    <3>1. NoId \notin Claims'
      BY TypedStep, IntakeAssumption DEF Typed
    <3> QED
      BY <2>3, <3>1 DEF Creates, Same
  <2>4. ASSUME NEW i \in Claims, Revokes(h, i)
        PROVE  Goal(h)
    <3>1. /\ request'[h].found = {b \in Claims : <<i, b>> \in links} /\ request'[h].id = i
          /\ request'[h].trip = claims[i].trip /\ claims' = claims
      BY <2>4 DEF Revokes
    <3>2. ASSUME NEW f \in request'[h].found, claims[f].trip # claims[i].trip
          PROVE  Stray(h, f)
      <4>1. f \in Missed(i, request'[h].found)
        BY <3>2 DEF Missed, Same
      <4>2. f \in Ids
        BY <3>1 DEF Typed
      <4>3. "missed" \in past'[f]
        BY <2>4, <4>1, <4>2 DEF Revokes
      <4> QED
        BY <2>4, <4>3 DEF Revokes, Revoking
    <3> QED
      BY <3>1, <3>2
  <2>5. ASSUME NEW id \in Ids, Saves(h, id)
        PROVE  Goal(h)
    <3>1. ASSUME NEW f \in request[h].found, f \in Claims', "deleted" \notin past'[f]
          PROVE  claims'[f].trip = request[h].trip
      <4>1. ClaimStays(f) /\ ~Is(f, "deleted")
        BY <3>1, FoundStays
      <4>2. request[h].at \notin Revoking
        BY <2>5 DEF Saves, Revoking
      <4> QED
        BY <3>1, <4>1, <4>2 DEF ClaimStays, TripsAgree
    <3> QED
      BY <2>5, <3>1 DEF Saves
  <2> QED
    BY <2>1, <2>2, <2>3, <2>4, <2>5, Fates DEF RequestFate
<1> QED
  BY <1>1, <1>2 DEF TripsAgree, Is

\* A request that another one about the trip comes to is parted from then on.
LEMMA PartedStays ==
  ASSUME Typed, Placed, Step, NEW h \in Http, PartedRequest(h),
         request[h].at \in Creating, request'[h].at \in Creating, Same1(h) \/ GoesOn(h)
  PROVE  PartedRequest(h)'
<1>1. CASE request[h].at = "save"
  <2>1. request[h].parted
    BY <1>1 DEF PartedRequest, At
  <2> QED
    BY <1>1, <2>1 DEF Same1, GoesOn, Made, Revoking, PartedRequest, At
<1>2. CASE request[h].at # "save"
  <2>1. request[h].at \in Made /\ request[h].id \in Ids /\ Is(request[h].id, "parted")
    BY <1>2 DEF Made, Placed, PartedRequest, At
  <2>2. request'[h].at # "save" /\ request'[h].id = request[h].id
    BY <1>2 DEF Same1, GoesOn, Made, Creating, Revoking
  <2>3. Is(request[h].id, "parted") => "parted" \in past'[request[h].id]
    BY <2>1, PastGrows DEF Is
  <2> QED
    BY <2>1, <2>2, <2>3 DEF PartedRequest, At, Is
<1> QED
  BY <1>1, <1>2

\* Of two requests about one trip, both learn of each other.
LEMMA ApartStep ==
  ASSUME Typed, Placed, IdsUsed, Apart, Step
  PROVE  Apart'
<1> SUFFICES ASSUME NEW h \in Http, NEW k \in Http, h # k,
                    request'[h].at \in Creating, request'[k].at # "rest",
                    request'[h].trip = request'[k].trip
             PROVE  PartedRequest(h)'
  BY DEF Apart
<1>0. request'[h] # Rest /\ request'[k] # Rest
  BY RestFields DEF Creating
<1>1. ASSUME NEW trip \in Trips, Creates(h, trip)
      PROVE  PartedRequest(h)'
  <2>1. Same1(k) /\ request'[h].at = "save" /\ request'[h].trip = trip
        /\ request'[h].parted = (Beside(trip) # {})
    BY <1>1 DEF Creates
  <2>2. k \in Beside(trip)
    BY <2>1 DEF Beside, Same1
  <2> QED
    BY <2>1, <2>2 DEF PartedRequest, At
<1>2. ASSUME NEW trip, k # h, request'[k].trip = trip, Same1(h),
             h \in Beside(trip) => request'[h].parted,
             h \in Beside(trip) => (request[h].id \in Ids => "parted" \in past'[request[h].id])
      PROVE  PartedRequest(h)'
  <2>1. /\ request[h].at \in Creating /\ request'[h].at = request[h].at
        /\ request'[h].id = request[h].id /\ request[h].trip = trip
    BY <1>2 DEF Same1
  <2>2. h \in Beside(trip)
    BY <2>1 DEF Beside, Creating
  <2>3. request[h].at # "save" => request[h].id \in Ids
    BY <2>1 DEF Placed, Made
  <2> QED
    BY <1>2, <2>1, <2>2, <2>3 DEF PartedRequest, At, Is
<1>3. ASSUME NEW trip \in Trips, Creates(k, trip)
      PROVE  PartedRequest(h)'
  <2>1. /\ request'[k].trip = trip /\ Same1(h) /\ (h \in Beside(trip) => request'[h].parted)
        /\ past' = Mark({request[q].id : q \in Beside(trip)}, "parted")
    BY <1>3 DEF Creates
  <2>2. h \in Beside(trip) => (request[h].id \in Ids => "parted" \in past'[request[h].id])
    BY <2>1 DEF Mark
  <2> QED
    BY <1>2, <2>1, <2>2
<1>4. ASSUME NEW i \in Claims, Revokes(k, i)
      PROVE  PartedRequest(h)'
  <2> DEFINE trip == claims[i].trip
  <2>1. /\ request'[k].trip = trip /\ Same1(h) /\ (h \in Beside(trip) => request'[h].parted)
    BY <1>4 DEF Revokes
  <2>2. ASSUME h \in Beside(trip), request[h].id \in Ids
        PROVE  "parted" \in past'[request[h].id]
    BY <1>4, <2>2 DEF Revokes
  <2> HIDE DEF trip
  <2> QED
    BY <1>2, <2>1, <2>2
<1>5. ASSUME request[h].at \in Creating, request[k].at # "rest",
             request[h].trip = request[k].trip
      PROVE  PartedRequest(h)
  BY <1>5 DEF Apart
<1>6. CASE (Same1(h) \/ GoesOn(h)) /\ (Same1(k) \/ GoesOn(k))
  <2>1. /\ request[h].at \in Creating /\ request[k].at # "rest"
        /\ request[h].trip = request[k].trip
    BY <1>6 DEF Same1, GoesOn, Made, Creating, Revoking
  <2> QED
    BY <1>5, <1>6, <2>1, PartedStays
<1>7. ASSUME NEW id \in Ids, Saves(k, id)
      PROVE  PartedRequest(h)'
  <2>1. /\ request'[h] = request[h] /\ request[k].at = "save"
        /\ request'[k].trip = request[k].trip
    BY <1>7 DEF Saves, OnlyRequest
  <2>2. PartedRequest(h)
    BY <1>5, <2>1
  <2>3. Same1(h)
    BY <2>1 DEF Same1
  <2> QED
    BY <2>1, <2>2, <2>3, PartedStays
<1>8. ASSUME NEW id \in Ids, Saves(h, id)
      PROVE  PartedRequest(h)'
  <2>1. /\ request'[k] = request[k] /\ request[h].at = "save"
        /\ request'[h].trip = request[h].trip /\ request'[h].at = "reverse"
        /\ request'[h].id = id
        /\ past' = IF request[h].parted THEN Mark({id}, "parted") ELSE past
    BY <1>8 DEF Saves, OnlyRequest
  <2>2. request[h].parted
    BY <1>5, <2>1 DEF PartedRequest, At, Creating
  <2>3. "parted" \in past'[id]
    BY <2>1, <2>2 DEF Mark
  <2> QED
    BY <2>1, <2>3 DEF PartedRequest, At, Is
<1>9. \A i \in Claims : ~Revokes(h, i)
  BY DEF Revokes, Creating
<1> QED
  BY <1>0, <1>1, <1>3, <1>4, <1>6, <1>7, <1>8, <1>9, Fates DEF RequestFate

\* What deletes a link: the choice of the back office, or a claim that is deleted.
LEMMA LinkGoes ==
  ASSUME Typed, Placed, Step, NEW l \in links, l \notin links'
  PROVE  \/ \E k \in Http : /\ Unlinks(k) /\ l[1] \in request[k].found \cup {request[k].id}
         \/ \E c \in {l[1], l[2]} : c \notin Claims'
<1>1. ASSUME NEW h \in Http, RequestStep(h)
      PROVE  Unlinks(h) /\ l[1] \in request[h].found \cup {request[h].id}
  <2>1. Unlinks(h)
    BY <1>1 DEF RequestStep, Creates, Revokes, Saves, Retries, Leaves, Reverses, Owns, AddsJobs,
       Archives, ArchiveDuplicates, Answers
  <2> QED
    BY <2>1 DEF Unlinks, LinksOf
<1>2. ASSUME NEW c \in Claims, EditStep(c) \/ DeleteClaim(c)
      PROVE  c \in {l[1], l[2]} /\ c \notin Claims'
  <2>1. CASE EditStep(c)
    BY <2>1, EditEffect
  <2>2. CASE DeleteClaim(c)
    BY <2>2, DeleteEffect
  <2> QED
    BY <1>2, <2>1, <2>2
<1> QED
  BY <1>1, <1>2 DEF Step, WorkStep, Crashes

\* Two requests about the claims of one trip are about that trip.
LEMMA ApartClaim ==
  ASSUME Apart, TripsAgree, NEW h \in Http, NEW k \in Http, h # k,
         request[h].at \in Made, request[k].at # "rest",
         request[h].id \in Claims,
         ~Is(request[h].id, "deleted"), ~Is(request[h].id, "missed"),
         request[h].id \in request[k].found \cup {request[k].id}
  PROVE  Is(request[h].id, "parted")
<1>1. request[h].trip = request[k].trip
  BY DEF TripsAgree
<1>2. PartedRequest(h)
  BY <1>1 DEF Apart, Made
<1> QED
  BY <1>2 DEF PartedRequest, At, Made

\* A claim that no other request came next to knows all claims of its trip.
LEMMA KnowsAllStep ==
  ASSUME Typed, Placed, IdsUsed, IdGivenOnce, TripsAgree, Apart, KnowsAll, Step
  PROVE  KnowsAll'
<1>1. ASSUME NEW h \in Http, request'[h].at = "save", ~request'[h].parted,
             NEW i \in Claims', claims'[i].trip = request'[h].trip
      PROVE  i \in request'[h].found
  <2>1. ASSUME NEW trip \in Trips, Creates(h, trip)
        PROVE  i \in request'[h].found
    BY <1>1, <2>1 DEF Creates, Same, Claims
  <2>2. CASE Same1(h)
    <3>1. /\ request[h].at = "save" /\ ~request[h].parted
          /\ request'[h].found = request[h].found /\ request'[h].trip = request[h].trip
      BY <1>1, <2>2 DEF Same1
    <3>2. CASE ClaimStays(i)
      <4>1. i \in Same(request[h].trip)
        BY <1>1, <3>1, <3>2 DEF ClaimStays, Same
      <4> QED
        BY <3>1, <4>1 DEF KnowsAll, At
    <3>3. ASSUME NEW k \in Http, i \in Ids, Saves(k, i)
          PROVE  FALSE
      <4>1. request[k].at = "save" /\ claims'[i].trip = request[k].trip /\ request'[k].at = "reverse"
        BY <3>3 DEF Saves
      <4>2. k # h /\ request[k].trip = request[h].trip
        BY <1>1, <3>1, <4>1
      <4>3. PartedRequest(h)
        BY <3>1, <4>1, <4>2 DEF Apart, Creating
      <4> QED
        BY <3>1, <4>3 DEF PartedRequest, At
    <3> QED
      BY <3>2, <3>3, ClaimFate
  <2> QED
    BY <1>1, <2>1, <2>2, RestFields, Fates
       DEF RequestFate, GoesOn, Revokes, Saves, Made, Creating, Revoking
<1> DEFINE Parted(h) ==
             past'[request'[h].id] \cap {"parted", "missed", "deleted"} # {}
           Knows(h, l) == request'[h].id \in {l[1], l[2]} =>
                            l[1] = request'[h].id /\ l[2] \in request'[h].found
           Linked(h, f) == (request'[h].id \in Claims' /\ f \in Claims') =>
                             <<request'[h].id, f>> \in links' \/ "deleted" \in past'[f]
<1>2. ASSUME NEW h \in Http, request'[h].at = "reverse", ~Parted(h)
      PROVE  /\ \A l \in links' : Knows(h, l)
             /\ \A f \in request'[h].found : Linked(h, f)
  <2>1. ASSUME NEW id \in Ids, Saves(h, id)
        PROVE  /\ \A l \in links' : Knows(h, l)
               /\ \A f \in request'[h].found : Linked(h, f)
    <3>1. /\ links' = links \cup ({id} \X request[h].found) /\ request'[h].id = id
          /\ request'[h].found = request[h].found
      BY <2>1 DEF Saves
    <3>2. \A l \in links : id \notin {l[1], l[2]}
      BY <2>1, SavesFresh
    <3>3. id \notin request[h].found
      BY <2>1 DEF Saves
    <3> QED
      BY <3>1, <3>2, <3>3
  <2>2. CASE Same1(h)
    <3>1. /\ request[h].at = "reverse" /\ request[h].at \in Made
          /\ request'[h].id = request[h].id /\ request'[h].found = request[h].found
          /\ request[h].id \in Ids
      BY <1>2, <2>2 DEF Same1, Made, Creating, Placed
    <3> DEFINE i == request[h].id
    <3>2. /\ past[i] \cap {"parted", "missed", "deleted"} = {}
          /\ ~Is(i, "parted") /\ ~Is(i, "missed") /\ ~Is(i, "deleted")
          /\ "deleted" \notin past'[i]
      BY <1>2, <3>1, PastGrows DEF Is
    <3>3. /\ \A l \in links : i \in {l[1], l[2]} => l[1] = i /\ l[2] \in request[h].found
          /\ i \in Claims => \A f \in request[h].found \cap Claims :
                              <<i, f>> \in links \/ Is(f, "deleted")
      BY <3>1, <3>2 DEF KnowsAll, At
    <3>4. ASSUME NEW k \in Http, k # h, request[k].at # "rest", i \in Claims,
                 i \in request[k].found \cup {request[k].id}
          PROVE  FALSE
      <4>1. Is(request[h].id, "parted")
        BY <3>1, <3>2, <3>4, ApartClaim
      <4> QED
        BY <3>2, <4>1
    <3>5. ASSUME NEW l \in links'
          PROVE  Knows(h, l)
      <4>1. CASE l \in links
        BY <3>1, <3>3, <4>1
      <4>2. ASSUME NEW k \in Http, NEW id \in Ids, Saves(k, id), l[1] = id, l[2] \in request[k].found
            PROVE  Knows(h, l)
        <5>1. id # i
          BY <3>2, <4>2, SavesFresh DEF Saves
        <5>2. k # h /\ request[k].at # "rest" /\ request[k].found \subseteq Claims
          BY <3>1, <4>2 DEF Saves
        <5>3. i \notin request[k].found
          BY <3>4, <5>2
        <5> QED
          BY <3>1, <4>2, <5>1, <5>3
      <4>3. ASSUME NEW k \in Http, Reverses(k), l[2] = request[k].id, l[1] \in request[k].found,
                   request[k].found \cup {request[k].id} \subseteq Claims
            PROVE  Knows(h, l)
        <5>1. k # h /\ request[k].at = "reverse"
          BY <1>2, <4>3 DEF Reverses, Moves
        <5>2. i \notin request[k].found \cup {request[k].id}
          BY <3>4, <4>3, <5>1
        <5> QED
          BY <3>1, <4>3, <5>2
      <4> QED
        BY <4>1, <4>2, <4>3, LinkFates DEF NewLink
    <3>6. ASSUME NEW f \in request[h].found, i \in Claims', f \in Claims',
                 "deleted" \notin past'[f]
          PROVE  <<i, f>> \in links'
      <4>1. i \in Claims /\ f \in Claims /\ ~Is(f, "deleted")
        BY <3>2, <3>6, FoundStays DEF ClaimStays
      <4>2. <<i, f>> \in links
        BY <3>3, <4>1
      <4>3. ASSUME NEW k \in Http, Unlinks(k), i \in request[k].found \cup {request[k].id}
            PROVE  FALSE
        <5>1. k # h /\ request[k].at # "rest"
          BY <3>1, <4>3 DEF Unlinks
        <5> QED
          BY <3>4, <4>1, <4>3, <5>1
      <4> QED
        BY <3>6, <4>2, <4>3, LinkGoes
    <3> QED
      BY <3>1, <3>5, <3>6
  <2> QED
    BY <1>2, <2>1, <2>2, RestFields, Fates
       DEF RequestFate, GoesOn, Creates, Revokes, Made, Creating, Revoking
<1>3. (\A h \in Http : (At(h, "save") /\ ~request[h].parted) =>
          Same(request[h].trip) \subseteq request[h].found)'
  BY <1>1 DEF At, Same
<1>4. \A h \in Http : (request'[h].at = "reverse" /\ ~Parted(h)) =>
         (request'[h].id \in Claims' =>
            \A f \in request'[h].found \cap Claims' :
              <<request'[h].id, f>> \in links' \/ "deleted" \in past'[f])
  BY <1>2
<1> QED
  BY <1>2, <1>3, <1>4 DEF KnowsAll, At, Is

\* What the back office chose between stays marked, and what it missed too.
LEMMA ChoiceKnownStep ==
  ASSUME Typed, Placed, IdsUsed, Apart, ChoiceKnown, Step
  PROVE  ChoiceKnown'
<1> DEFINE Chosen(h) == request'[h].found \cup {request'[h].id}
           Excluded(i) == "missed" \in past'[i] \/ "parted" \in past'[i]
           Goal(h) == /\ \A j \in Chosen(h) : "revoked" \in past'[j]
                      /\ \A i \in Claims' \ Chosen(h) :
                           claims'[i].trip = request'[h].trip => Excluded(i)
<1>1. ASSUME NEW h \in Http, request'[h].at \in Revoking
      PROVE  Goal(h)
  <2>1. ASSUME NEW c \in Claims, Revokes(h, c)
        PROVE  Goal(h)
    <3>1. /\ request'[h].found \subseteq Claims /\ request'[h].id = c
          /\ request'[h].trip = claims[c].trip /\ claims' = claims /\ Claims' = Claims
          /\ Claims \subseteq Ids
      BY <2>1 DEF Revokes, Claims, Typed
    <3>2. \A j \in Ids : past'[j] = past[j]
         \cup (IF j \in request'[h].found \cup {c} THEN {"revoked"} ELSE {})
         \cup (IF j \in Missed(c, request'[h].found) THEN {"missed"} ELSE {})
         \cup (IF j \in {request[k].id : k \in Beside(claims[c].trip)}
               THEN {"parted"} ELSE {})
      BY <2>1 DEF Revokes
    <3>3. \A j \in Chosen(h) : "revoked" \in past'[j]
      BY <3>1, <3>2
    <3>4. ASSUME NEW i \in Claims \ Chosen(h), claims[i].trip = claims[c].trip
          PROVE  "missed" \in past'[i]
      <4>1. i \in Missed(c, request'[h].found)
        BY <3>1, <3>4 DEF Same, Missed
      <4> QED
        BY <3>1, <3>2, <3>4, <4>1
    <3> QED
      BY <3>1, <3>3, <3>4
  <2>2. CASE (Same1(h) \/ GoesOn(h)) /\ request[h].at \in Revoking
    <3>1. /\ request'[h].id = request[h].id /\ request'[h].found = request[h].found
          /\ request'[h].trip = request[h].trip
          /\ request[h].id \in Ids /\ request[h].found \subseteq Ids
      BY <2>2 DEF Same1, GoesOn, Placed, Typed, RequestRecs
    <3>2. \A j \in Chosen(h) : "revoked" \in past'[j]
      BY <2>2, <3>1, PastGrows DEF ChoiceKnown, Is
    <3>3. ASSUME NEW i \in Claims' \ Chosen(h), claims'[i].trip = request[h].trip
          PROVE  Excluded(i)
      <4>1. CASE ClaimStays(i)
        <5>1. i \in Same(request[h].trip) \ (request[h].found \cup {request[h].id}) /\ i \in Ids
          BY <3>1, <3>3, <4>1 DEF ClaimStays, Same, Typed
        <5>2. Is(i, "missed") \/ Is(i, "parted")
          BY <2>2, <5>1 DEF ChoiceKnown
        <5> QED
          BY <5>1, <5>2, PastGrows DEF Is
      <4>2. ASSUME NEW k \in Http, i \in Ids, Saves(k, i)
            PROVE  Excluded(i)
        <5>1. /\ request[k].at = "save" /\ claims'[i].trip = request[k].trip
              /\ past' = IF request[k].parted THEN Mark({i}, "parted") ELSE past
          BY <4>2 DEF Saves
        <5>2. k # h /\ request[h].at # "rest"
          BY <2>2, <5>1 DEF Revoking
        <5>3. request[k].parted
          BY <3>3, <5>1, <5>2 DEF Apart, PartedRequest, At, Creating
        <5> QED
          BY <4>2, <5>1, <5>3 DEF Mark
      <4> QED
        BY <4>1, <4>2, ClaimFate
    <3> QED
      BY <3>1, <3>2, <3>3
  <2> QED
    BY <1>1, <2>1, <2>2, RestFields, Fates
       DEF RequestFate, GoesOn, Same1, Creates, Saves, Made, Creating, Revoking
<1> QED
  BY <1>1 DEF ChoiceKnown, Same, Is

\* Why a claim may have a link that is not returned.
Excused(i) == \/ past[i] \cap {"broken", "parted", "missed", "deleted"} # {}
              \/ \E h \in Http : request[h].id = i /\ At(h, "reverse")

\* An excuse stays, unless the request adds the rows of the duplicates.
LEMMA ExcuseStays ==
  ASSUME Typed, Placed, Step, NEW i \in Ids, Excused(i)
  PROVE  \/ Excused(i)'
         \/ \E h \in Http : Reverses(h) /\ request[h].id = i
<1>1. CASE past[i] \cap {"broken", "parted", "missed", "deleted"} # {}
  BY <1>1, PastGrows DEF Excused
<1>2. ASSUME NEW h \in Http, request[h].id = i, request[h].at = "reverse"
      PROVE  Excused(i)' \/ Reverses(h)
  <2>1. CASE Same1(h)
    BY <1>2, <2>1 DEF Same1, Excused, At
  <2>2. CASE request'[h] = Rest
    <3>1. CASE Crashes
      <4>1. "broken" \in past'[i]
        BY <1>2, <3>1 DEF Crashes, Made, Creating
      <4> QED
        BY <4>1 DEF Excused
    <3>2. ASSUME NEW k \in Http, RequestStep(k)
          PROVE  Excused(i)' \/ Reverses(h)
      <4>1. CASE k # h
        <5>1. Same1(h)
          BY <3>2, <4>1 DEF RequestStep, Creates, Revokes, Saves, Retries, Leaves, Reverses, Owns,
             AddsJobs, Answers, Archives, Unlinks, Moves, OnlyRequest, Same1
        <5> QED
          BY <2>1, <5>1
      <4>2. CASE Leaves(h)
        <5>1. "broken" \in past'[i]
          BY <1>2, <4>2 DEF Leaves, Mark, Made, Creating
        <5> QED
          BY <5>1 DEF Excused
      <4>3. CASE k = h /\ ~Leaves(h)
        BY <1>2, <2>1, <3>2, <4>3 DEF RequestStep, Creates, Revokes, Saves, Retries,
           Owns, AddsJobs, Answers, Archives, Unlinks
      <4> QED
        BY <4>1, <4>2, <4>3
    <3>3. request' = request => Same1(h)
      BY DEF Same1
    <3> QED
      BY <2>1, <3>1, <3>2, <3>3, EditEffect, DeleteEffect DEF Step, WorkStep
  <2> QED
    BY <1>2, <2>1, <2>2, Fates
       DEF RequestFate, Owns, AddsJobs, Archives, Creates, Revokes, Saves
<1> QED
  BY <1>1, <1>2 DEF Excused, At

\* No step leaves a link in one direction only without an excuse.
LEMMA LinksSymmetricStep ==
  ASSUME Typed, Placed, IdsUsed, IdGivenOnce, TripsAgree, Apart, KnowsAll, ChoiceKnown,
         LinksSymmetric, Step
  PROVE  LinksSymmetric'
<1> DEFINE Fair(l) == <<l[2], l[1]>> \in links \/ Excused(l[1]) \/ Excused(l[2])
<1>1. \A l \in links : Fair(l)
  BY DEF LinksSymmetric, Excused
<1>2. links \subseteq Claims \X Claims /\ Claims \subseteq Ids
  BY DEF Typed
<1>3. links' \subseteq Claims' \X Claims' /\ Claims' \subseteq Ids
  BY TypedStep DEF Typed
<1>9. ASSUME NEW l \in links', l \in links, NEW i \in {l[1], l[2]},
             NEW what \in {"broken", "parted", "missed", "deleted"}, Is(i, what)
      PROVE  Fair(l)'
  <2>1. Is(i, what)'
    BY <1>2, <1>9, PastGrows DEF Is
  <2> QED
    BY <1>9, <2>1 DEF Excused, Is
<1>4. ASSUME NEW l \in links', l \in links, <<l[2], l[1]>> \in links
      PROVE  Fair(l)'
  <2>1. CASE <<l[2], l[1]>> \in links'
    BY <2>1
  <2>2. CASE /\ <<l[2], l[1]>> \notin links'
             /\ \A i \in {l[1], l[2]} : ~Is(i, "deleted") /\ ~Is(i, "missed")
    <3> DEFINE m == <<l[2], l[1]>>
    <3>1. m[1] = l[2] /\ m[2] = l[1] /\ m \in links /\ m \notin links'
      BY <1>4, <2>2
    <3>2. l[1] \in Claims' /\ l[2] \in Claims'
      BY <1>3, <1>4
    <3> HIDE DEF m
    <3>3. PICK k \in Http : Unlinks(k) /\ l[2] \in request[k].found \cup {request[k].id}
      BY <3>1, <3>2, LinkGoes
    <3>4. l[1] \notin request[k].found \cup {request[k].id}
      BY <1>4, <3>3 DEF Unlinks, LinksOf
    <3>5. /\ l[1] \in Claims /\ l[2] \in Claims /\ l[1] \in Ids
          /\ claims[l[1]].trip = claims[l[2]].trip
      BY <1>2, <1>4, <2>2 DEF TripsAgree
    <3>6. claims[l[2]].trip = request[k].trip
      BY <2>2, <3>3, <3>5 DEF TripsAgree
    <3>7. l[1] \in Same(request[k].trip) \ (request[k].found \cup {request[k].id})
      BY <3>4, <3>5, <3>6 DEF Same
    <3>8. Is(l[1], "missed") \/ Is(l[1], "parted")
      BY <3>3, <3>7 DEF ChoiceKnown, Unlinks, Revoking
    <3>9. Is(l[1], "missed")' \/ Is(l[1], "parted")'
      BY <3>5, <3>8, PastGrows DEF Is
    <3> QED
      BY <3>9 DEF Excused, Is
  <2> QED
    BY <1>4, <1>9, <2>1, <2>2
<1>5. ASSUME NEW l \in links', l \in links, NEW i \in {l[1], l[2]}, Excused(i)
      PROVE  Fair(l)'
  <2>1. i \in Ids
    BY <1>2, <1>5
  <2>2. CASE Excused(i)'
    BY <1>5, <2>2
  <2>3. ASSUME NEW h \in Http, Reverses(h), request[h].id = i
        PROVE  Fair(l)'
    <3>1. request[h].at = "reverse" /\ links' = links \cup (request[h].found \X {i})
      BY <2>3 DEF Reverses
    <3>2. CASE \E what \in {"parted", "missed", "deleted"} : Is(i, what)
      BY <1>5, <1>9, <3>2
    <3>3. CASE past[i] \cap {"parted", "missed", "deleted"} = {}
      <4>1. l[1] = i /\ l[2] \in request[h].found
        BY <1>5, <2>3, <3>1, <3>3 DEF KnowsAll, At
      <4> QED
        BY <3>1, <4>1
    <3> QED
      BY <3>2, <3>3 DEF Is
  <2> QED
    BY <1>5, <2>1, <2>2, <2>3, ExcuseStays
<1>6. ASSUME NEW l \in links', NEW h \in Http, NEW id \in Ids, Saves(h, id), l[1] = id
      PROVE  Fair(l)'
  <2>1. request'[h].id = id /\ request'[h].at = "reverse"
    BY <1>6 DEF Saves
  <2> QED
    BY <1>6, <2>1 DEF Excused, At
<1>7. ASSUME NEW l \in links', NEW h \in Http, Reverses(h), l[2] = request[h].id,
             l[1] \in request[h].found, request[h].found \cup {request[h].id} \subseteq Claims
      PROVE  Fair(l)'
  <2>1. request[h].at = "reverse" /\ links \subseteq links'
    BY <1>7 DEF Reverses
  <2>2. ASSUME NEW i \in {l[1], l[2]}, NEW what \in {"parted", "missed", "deleted"},
               Is(i, what)
        PROVE  Fair(l)'
    <3>1. i \in Ids
      BY <1>2, <1>7
    <3>2. Is(i, what)'
      BY <2>2, <3>1, PastGrows DEF Is
    <3> QED
      BY <3>2 DEF Excused, Is
  <2>3. CASE past[l[2]] \cap {"parted", "missed", "deleted"} = {} /\ ~Is(l[1], "deleted")
    <3>1. <<l[2], l[1]>> \in links
      BY <1>7, <2>1, <2>3 DEF KnowsAll, At
    <3> QED
      BY <2>1, <3>1
  <2> QED
    BY <2>2, <2>3 DEF Is
<1>8. ASSUME NEW l \in links'
      PROVE  Fair(l)'
  BY <1>1, <1>4, <1>5, <1>6, <1>7, <1>8, LinkFates DEF NewLink
<1> QED
  BY <1>8 DEF LinksSymmetric, Excused

\* No step makes two claims of a trip that do not know each other.
LEMMA DuplicatesKnownStep ==
  ASSUME Typed, Placed, IdsUsed, TripsAgree, KnowsAll, ChoiceKnown, DuplicatesKnown, Step
  PROVE  DuplicatesKnown'
<1> DEFINE Known(i, k) == \/ {<<i, k>>, <<k, i>>} \cap links # {}
                          \/ \E j \in {i, k} : Is(j, "parted") \/ Is(j, "revoked")
<1>1. Claims \subseteq Ids /\ Claims' \subseteq Ids
  BY TypedStep DEF Typed
<1>2. \A i \in Ids : /\ Is(i, "parted") => Is(i, "parted")'
                     /\ Is(i, "revoked") => Is(i, "revoked")'
  BY PastGrows DEF Is
<1>3. ASSUME NEW i \in Claims', NEW k \in Claims', ClaimStays(i), <<i, k>> \in links
      PROVE  Known(i, k)'
  <2>1. CASE <<i, k>> \in links'
    BY <2>1
  <2>2. CASE <<i, k>> \notin links'
    <3> DEFINE m == <<i, k>>
    <3>1. m[1] = i /\ m[2] = k /\ m \in links /\ m \notin links'
      BY <1>3, <2>2
    <3> HIDE DEF m
    <3>2. PICK h \in Http : Unlinks(h) /\ i \in request[h].found \cup {request[h].id}
      BY <3>1, LinkGoes
    <3>3. Is(i, "revoked")
      BY <3>2 DEF ChoiceKnown, Unlinks, Revoking
    <3> QED
      BY <1>1, <1>2, <3>3
  <2> QED
    BY <2>1, <2>2
<1>4. ASSUME NEW i \in Claims', NEW k \in Claims', i # k,
             ClaimStays(i), ClaimStays(k), claims'[i].trip = claims'[k].trip
      PROVE  Known(i, k)'
  <2>1. i \in Claims /\ k \in Claims /\ claims[i].trip = claims[k].trip
    BY <1>4 DEF ClaimStays
  <2>2. Known(i, k)
    BY <1>4, <2>1 DEF DuplicatesKnown
  <2>3. CASE \E j \in {i, k} : Is(j, "parted") \/ Is(j, "revoked")
    BY <1>1, <1>2, <2>3
  <2>4. CASE <<i, k>> \in links
    BY <1>3, <1>4, <2>4
  <2>5. CASE <<k, i>> \in links
    <3>1. Known(k, i)'
      BY <1>3, <1>4, <2>5
    <3> QED
      BY <3>1
  <2> QED
    BY <2>2, <2>3, <2>4, <2>5
<1>5. ASSUME NEW id \in Ids, NEW h \in Http, Saves(h, id), NEW k \in Claims', id # k,
             claims'[id].trip = claims'[k].trip
      PROVE  Known(id, k)'
  <2>1. /\ request[h].at = "save" /\ claims'[id].trip = request[h].trip
        /\ links' = links \cup ({id} \X request[h].found)
        /\ past' = IF request[h].parted THEN Mark({id}, "parted") ELSE past
        /\ k \in Claims /\ claims'[k] = claims[k]
    BY <1>5 DEF Saves
  <2>2. CASE request[h].parted
    <3>1. "parted" \in past'[id]
      BY <2>1, <2>2 DEF Mark
    <3> QED
      BY <3>1 DEF Is
  <2>3. CASE ~request[h].parted
    <3>1. k \in Same(request[h].trip)
      BY <1>5, <2>1 DEF Same
    <3>2. k \in request[h].found
      BY <2>1, <2>3, <3>1 DEF KnowsAll, At
    <3>3. <<id, k>> \in links'
      BY <2>1, <3>2
    <3>4. {<<id, k>>, <<k, id>>} \cap links' # {}
      BY <3>3
    <3> QED
      BY <3>4
  <2> QED
    BY <2>2, <2>3
<1>6. ASSUME NEW i \in Claims', NEW k \in Claims', i # k, claims'[i].trip = claims'[k].trip
      PROVE  Known(i, k)'
  <2>1. ASSUME NEW h \in Http, k \in Ids, Saves(h, k)
        PROVE  Known(i, k)'
    <3>1. Known(k, i)'
      BY <1>5, <1>6, <2>1
    <3> QED
      BY <3>1
  <2> QED
    BY <1>4, <1>5, <1>6, <2>1, ClaimFate
<1> QED
  BY <1>6 DEF DuplicatesKnown

-----------------------------------------------------------------------------
(* The invariant, and what follows from it.                                *)

\* The invariant holds at first.
LEMMA InvInit ==
  ASSUME Init
  PROVE  IInv
<1>1. claims = [i \in {} |-> Rest] /\ links = {} /\ jobs = {}
  BY DEF Init
<1>2. Claims = {}
  BY <1>1 DEF Claims
<1>3. /\ request = [h \in Http |-> Rest] /\ worker = [k \in Kinds |-> Idle]
      /\ past = [i \in Ids |-> {}]
  BY DEF Init
<1>4. \A h \in Http : request[h] = Rest
  BY <1>3
<1>5. \A k \in Kinds : worker[k] = Idle
  BY <1>3
<1>6. \A i \in Ids : past[i] = {}
  BY <1>3
<1>7. claims \in [Claims -> ClaimRecs]
  BY <1>1, <1>2
<1>8. Typed
  BY <1>1, <1>2, <1>3, <1>7, RestFields, IdleFields, FS_EmptySet DEF Typed
<1>9. Placed
  BY <1>4, <1>5, RestFields DEF Placed, Made, Creating, Revoking
<1>10. IdsUsed
  BY <1>1, <1>4, <1>5, <1>6, RestFields DEF IdsUsed, Made, Creating, Revoking
<1>11. IdGivenOnce
  BY <1>4, RestFields DEF IdGivenOnce, Creating
<1>12. "claimReminder" \in Kinds
  BY DEF Kinds
<1>13. OwnerLinked
  BY <1>2, <1>4, RestFields DEF OwnerLinked
<1>14. ReminderKept
  BY <1>4, <1>5, <1>6, <1>12, RestFields, IdleFields DEF ReminderKept, At, Is, Doing
<1>15. OneWaits
  BY <1>1, <1>4, <1>5, <1>12, RestFields, IdleFields DEF OneWaits, Waiting, Made, Creating
<1>16. SentOnce
  BY <1>1, <1>5, IdleFields DEF SentOnce, Owed
<1>17. ReadHolds
  BY <1>5 DEF ReadHolds
<1>18. TripsAgree
  BY <1>1, <1>2, <1>4, RestFields DEF TripsAgree
<1>19. Apart /\ KnowsAll /\ ChoiceKnown
  BY <1>4, RestFields DEF Apart, KnowsAll, ChoiceKnown, At, Creating, Revoking
<1>20. LinksSymmetric /\ DuplicatesKnown
  BY <1>1, <1>2 DEF LinksSymmetric, DuplicatesKnown
<1> QED
  BY <1>8, <1>9, <1>10, <1>11, <1>13, <1>14, <1>15, <1>16, <1>17, <1>18, <1>19, <1>20 DEF IInv

\* Every step keeps the invariant.
LEMMA InvStep ==
  ASSUME IInv, [Next]_vars
  PROVE  IInv'
<1>1. CASE Next
  <2>1. Step
    BY <1>1, NextSteps DEF IInv
  <2> QED
    BY <2>1, TypedStep, IdsUsedStep, IdGivenOnceStep, OwnerLinkedStep, ReminderKeptStep,
       OneWaitsStep, SentOnceStep, ReadHoldsStep, TripsAgreeStep, ApartStep, KnowsAllStep,
       ChoiceKnownStep, LinksSymmetricStep, DuplicatesKnownStep DEF IInv
<1>2. CASE UNCHANGED vars
  <2>1. /\ claims' = claims /\ links' = links /\ request' = request /\ jobs' = jobs
        /\ worker' = worker /\ past' = past
    BY <1>2 DEF vars
  <2>2. Claims' = Claims
    BY <2>1 DEF Claims
  <2>3. \A i : /\ Used(i)' = Used(i) /\ Waiting(i)' = Waiting(i)
               /\ JobsOf("claimReminder", i)' = JobsOf("claimReminder", i)
               /\ Same(i)' = Same(i)
    BY <2>1, <2>2 DEF Used, Is, Waiting, JobsOf, Same
  <2>4. Typed' /\ Placed'
    BY <2>1, <2>2 DEF IInv, Typed, Placed
  <2>5. IdsUsed' /\ IdGivenOnce' /\ OwnerLinked' /\ ReminderKept'
    BY <2>1, <2>2, <2>3 DEF IInv, IdsUsed, IdGivenOnce, OwnerLinked, ReminderKept, Reminded,
       At, Doing, Is
  <2>6. OneWaits' /\ SentOnce' /\ ReadHolds'
    BY <2>1, <2>2, <2>3 DEF IInv, OneWaits, SentOnce, ReadHolds, Wants, Is
  <2>7. TripsAgree' /\ Apart' /\ KnowsAll' /\ ChoiceKnown'
    BY <2>1, <2>2, <2>3 DEF IInv, TripsAgree, Apart, PartedRequest, KnowsAll, ChoiceKnown, At, Is
  <2>8. LinksSymmetric' /\ DuplicatesKnown'
    BY <2>1, <2>2 DEF IInv, LinksSymmetric, DuplicatesKnown, At, Is
  <2> QED
    BY <2>4, <2>5, <2>6, <2>7, <2>8 DEF IInv
<1> QED
  BY <1>1, <1>2

\* The inductive invariant holds in every state that can be reached.
THEOREM Invariance == Spec => []IInv
<1>1. Init => IInv
  BY InvInit
<1>2. IInv /\ [Next]_vars => IInv'
  BY InvStep
<1> QED
  BY <1>1, <1>2, PTL DEF Spec

\* Every variable keeps the shape the code gives it (TypeOK).
THEOREM TypeCorrect == Spec => []TypeOK
<1>1. IInv => TypeOK
  <2> SUFFICES ASSUME IInv
               PROVE  TypeOK
    OBVIOUS
  <2>1. Typed /\ Placed
    BY DEF IInv
  <2>2. \A k \in Kinds : ~Doing(k, "rest") => worker[k].job.kind = k
    BY <2>1, IdleFields DEF Placed, Doing
  <2>3. \A j \in jobs : j.kind \in Kinds /\ j.id \in Ids /\ j.tries \in 0..(Attempts - 1)
    BY <2>1 DEF Typed, Queued, JobRecs
  <2> QED
    BY <2>1, <2>2, <2>3 DEF TypeOK, Typed, ClaimRecs
<1> QED
  BY <1>1, Invariance, PTL

\* A claim is the work of one request, whatever ids the requests draw and whatever
\* breaks off, and one that the customer was answered for has an owner and a reminder
\* that waits, runs, or ended, both unless a claim of its id was deleted, which makes
\* the id one that may be drawn again (ClaimsKept).
THEOREM ClaimsAreKept == Spec => []ClaimsKept
<1>1. IInv => ClaimsKept
  BY DEF IInv, OwnerLinked, ReminderKept, Reminded, Typed, ClaimsKept, AnsweredClaimKept
<1> QED
  BY <1>1, Invariance, PTL

\* Claims of one trip know of each other, both or neither, for any number of claims
\* and requests and any interleaving of create, revokeClaim and cascadeDelete, but for
\* the cases the properties name (DuplicatesLinked).
THEOREM DuplicatesAreLinked == Spec => []DuplicatesLinked
<1>1. IInv => DuplicatesLinked
  BY DEF IInv, DuplicatesLinked
<1> QED
  BY <1>1, Invariance, PTL

\* A finite set of more than one element has two.
LEMMA TwoMembers ==
  ASSUME NEW S, IsFiniteSet(S), Cardinality(S) > 1
  PROVE  \E x, y \in S : x # y
<1> SUFFICES ASSUME \A x, y \in S : x = y
             PROVE  FALSE
  OBVIOUS
<1>1. CASE S = {}
  BY <1>1, FS_EmptySet
<1>2. CASE S # {}
  <2>1. PICK x \in S : TRUE
    BY <1>2
  <2>2. S = {x}
    BY <2>1
  <2>3. Cardinality(S) = 1
    BY <2>2, FS_Singleton
  <2> QED
    BY <2>3
<1> QED
  BY <1>1, <1>2

\* A claim has one series of reminders, unless the process stopped during one or the
\* claim was deleted, and a job sends its letter once, whatever throws and however
\* often, and once more only for each time that the mail could not be stored behind
\* it, and when the process stopped during the job (LettersOnce).
THEOREM LettersGoOnce == Spec => []LettersOnce
<1>1. IInv => OneSeriesOfReminders
  <2> SUFFICES ASSUME IInv, NEW i \in Ids, Cardinality(JobsOf("claimReminder", i)) > 1,
                      ~Is(i, "stalled"), ~Is(i, "deleted")
               PROVE  Doing("claimReminder", "done")
    BY DEF OneSeriesOfReminders
  <2> DEFINE w == worker["claimReminder"]
  <2>1. IsFiniteSet(JobsOf("claimReminder", i))
    BY JobsOfFinite DEF IInv
  <2>2. PICK x, y \in JobsOf("claimReminder", i) : x # y
    BY <2>1, TwoMembers
  <2>3. /\ x.kind = "claimReminder" /\ x.id = i /\ x \in jobs \cup {w.job}
        /\ y.kind = "claimReminder" /\ y.id = i /\ y \in jobs \cup {w.job}
    BY <2>2 DEF JobsOf
  <2>4. ~(x \in jobs /\ y \in jobs)
    BY <2>2, <2>3 DEF IInv, OneWaits, Waiting
  <2>5. /\ Waiting(i) # {} /\ w.job.kind = "claimReminder" /\ w.job.id = i
    BY <2>2, <2>3, <2>4 DEF Waiting
  <2>6. w # Idle /\ "claimReminder" \in Kinds
    BY <2>5, IdleFields DEF Kinds
  <2>7. w.at \in {"letter", "store", "next", "done"}
    BY <2>6 DEF IInv, Placed, CallsAt
  <2>8. w.at \notin {"letter", "store", "next"}
    BY <2>5 DEF IInv, OneWaits
  <2> QED
    BY <2>7, <2>8 DEF Doing
<1>2. IInv => LetterOncePerJob
  <2> SUFFICES ASSUME IInv, NEW k \in Kinds
               PROVE  LET job == worker[k].job
                      IN job.sent <= 1 + job.unstored + IF job.stalled THEN 1 ELSE 0
    BY DEF LetterOncePerJob
  <2>1. worker[k].job.sent \in Nat /\ worker[k].job.unstored \in Nat
    BY DEF IInv, Typed, WorkerRecs, JobRecs
  <2>2. worker[k].job.sent <= Owed(worker[k].job) + 1
    BY <2>1 DEF IInv, SentOnce, Owed
  <2> QED
    BY <2>1, <2>2 DEF Owed
<1>3. IInv => LettersOnce
  BY <1>1, <1>2 DEF LettersOnce
<1> QED
  BY <1>3, Invariance, PTL

\* No follow-up goes to a customer who finished the form or whose claim is archived,
\* and no reminder about a claim that is not active, unless the claim changed between
\* the read and the letter (LettersWelcome).
THEOREM LettersAreWelcome == Spec => LettersWelcome
<1> DEFINE Welcome == \A kind \in Kinds :
       (worker[kind].at = "letter" /\ worker'[kind].job.sent > worker[kind].job.sent) =>
         \/ worker[kind].changed
         \/ /\ worker[kind].job.id \in Claims
            /\ kind = "followUpClaim" => /\ claims[worker[kind].job.id].step < 8
                                        /\ ~claims[worker[kind].job.id].archived
            /\ kind = "claimReminder" => claims[worker[kind].job.id].active
<1>1. IInv => Welcome
  <2> SUFFICES ASSUME IInv, NEW kind \in Kinds, worker[kind].at = "letter",
                      ~worker[kind].changed
               PROVE  /\ worker[kind].job.id \in Claims
                      /\ kind = "followUpClaim" => /\ claims[worker[kind].job.id].step < 8
                                                  /\ ~claims[worker[kind].job.id].archived
                      /\ kind = "claimReminder" => claims[worker[kind].job.id].active
    OBVIOUS
  <2>1. worker[kind] # Idle
    BY IdleFields
  <2>2. worker[kind].job.id \in Claims /\ Wants(kind, worker[kind].job.id)
    BY <2>1 DEF IInv, ReadHolds
  <2> QED
    BY <2>2 DEF Wants, BOOKING_REF_STEP
<1>2. IInv /\ [Next]_vars => [Welcome]_vars
  BY <1>1
<1> QED
  BY <1>1, <1>2, Invariance, PTL DEF Spec, LettersWelcome
=============================================================================
