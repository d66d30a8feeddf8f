---------------------------- MODULE Discrepancies ----------------------------
(***************************************************************************)
(* The discrepancies of a claim: what an outside service reads from the    *)
(* passports and signed assignments of its passengers, as rows the back    *)
(* office looks through.                                                   *)
(*                                                                         *)
(* An upload starts tasks nobody waits for; a row is written several calls *)
(* after the documents were read, and meanwhile staff may remove them, or  *)
(* give them another type or passenger.  An error of two of these tasks is *)
(* handled by nobody and ends the process.                                 *)
(* A document is named by its place in the order of uploads, a row by its  *)
(* place in the order of rows.  The answer of the service depends on none  *)
(* of this and is part of the step before it.                              *)
(***************************************************************************)
EXTENDS Integers, Sequences, FiniteSets

CONSTANTS
  Passengers,  \* passengers of the claim
  Differing,   \* names a passport may have otherwise: 2 in the code
  Staff,       \* requests of the back office in progress at the same time
  Uploads,     \* bound on the documents
  Limit        \* bound on them and the other events, see Spend

NoDocument == 0
Compared == {"PASSPORT", "ASSIGNMENT"}
Types  == Compared \cup {"OTHER"}
Kinds  == {"refresh", "names", "pair"}
Tasks  == ((1..Uploads) \X Kinds) \cup Staff

VARIABLES
  docs,    \* the documents of the claim, in the order of their upload; the tasks
           \* of one go by the passenger it was sent for
  rows,    \* its discrepancies, in the order of their creation
  task,    \* the tasks in progress
  failed,  \* history: documents nothing was read from, or not to the end
  spent    \* events so far

vars == <<docs, rows, task, failed, spent>>

Rest == [at |-> "rest", op |-> "none", row |-> 0, passport |-> NoDocument,
         assignment |-> NoDocument, score |-> FALSE, beside |-> {}]
Doc(k) == k[1]
At(k, op, step) == task[k].op = op /\ task[k].at = step
Go(k, step) == task' = [task EXCEPT ![k].at = step]
End(k) == task' = [task EXCEPT ![k] = Rest]

Live(type) == {d \in DOMAIN docs : docs[d].type = type /\ docs[d].live}
\* Documents that are being removed.
Leaving == {task[h].passport : h \in {h \in Staff : task[h].op = "remove"}}

\* An upload, a request of the back office, a call that throws and a restart
\* are events.
Left == spent + Len(docs) < Limit
Spend == Left /\ spent' = spent + 1

Init ==
  /\ docs = <<>> /\ rows = <<>>
  /\ task = [k \in Tasks |-> Rest]
  /\ failed = {} /\ spent = 0

\* saveDiscrepancy: an active row, with what its task was up against.
SaveRow(k, type, documents, passenger) ==
  rows' = Append(rows, [type |-> type, docs |-> documents, passenger |-> passenger,
                        active |-> TRUE, by |-> task[k].op,
                        met |-> documents[1] \in task[k].beside])

\* saveDocumentSignature
Signed(d) == docs' = [docs EXCEPT ![d].signed = TRUE]

-----------------------------------------------------------------------------
(* saveDocuments of one document, and the tasks it starts.                 *)

\* Every upload reads the passports of the claim; where it brings no assignment
\* nothing comes of it but an error, see Restart.
Starts(type) == CASE type = "PASSPORT"   -> {"refresh", "names"}
                  [] type = "ASSIGNMENT" -> {"pair"}
                  [] type = "OTHER"      -> {}

Upload(type, passenger) ==
  /\ Len(docs) < Uploads /\ Left
  /\ docs' = Append(docs, [type |-> type, passenger |-> passenger, live |-> TRUE,
                           signed |-> FALSE, sentFor |-> passenger,
                           edited |-> FALSE])
  /\ LET d == Len(docs) + 1
     IN task' = [k \in Tasks |->
          IF k \in {d} \X Starts(type)
          THEN [Rest EXCEPT !.at = "read", !.op = k[2], !.beside = Leaving]
          ELSE task[k]]
  /\ UNCHANGED <<rows, failed, spent>>

-----------------------------------------------------------------------------
(* refreshSignatureDiscrepancy, after the upload of a passport or by staff. *)

\* The latest document of the type that is not deleted, of any passenger.
Latest(type) ==
  IF Live(type) = {} THEN NoDocument
  ELSE CHOOSE d \in Live(type) : \A e \in Live(type) : e <= d

Signatures == {n \in DOMAIN rows : rows[n].type = "SIGNATURE"}

\* The row staff asked for or the latest one of a signature.
RowFor(k) ==
  IF task[k].row # 0 THEN task[k].row
  ELSE IF Signatures = {} THEN 0
  ELSE CHOOSE n \in Signatures : \A i \in Signatures : i <= n

\* The outside service may know neither a score nor a picture.
RefreshReads(k) ==
  /\ At(k, "refresh", "read")
  /\ LET passport == Latest("PASSPORT")
         assignment == Latest("ASSIGNMENT")
     IN \/ /\ RowFor(k) \in Signatures
           /\ NoDocument \notin {passport, assignment}
           /\ docs[passport].signed /\ docs[assignment].signed
           /\ task' = [task EXCEPT ![k].at = "row", ![k].row = RowFor(k),
                                   ![k].passport = passport,
                                   ![k].assignment = assignment]
        \/ End(k)
  /\ UNCHANGED <<docs, rows, failed, spent>>

\* The picture of a passport that had one already, and a row of its own, for the
\* passenger of the row it renews.
RefreshSaves(k) ==
  /\ At(k, "refresh", "row")
  /\ SaveRow(k, "SIGNATURE", <<task[k].passport, task[k].assignment>>,
             rows[task[k].row].passenger)
  /\ End(k)
  /\ UNCHANGED <<docs, failed, spent>>

-----------------------------------------------------------------------------
(* processAssignmentDiscrepancy                                            *)

\* Passports of the passenger, in whatever order they are found.
PassportsFor(d) ==
  {p \in Live("PASSPORT") : docs[p].passenger = docs[d].sentFor}

\* A score, a picture of the passport's signature, both or neither.
PairReads(k) ==
  /\ At(k, "pair", "read")
  /\ IF PassportsFor(Doc(k)) # {}
     THEN \E p \in PassportsFor(Doc(k)), score, picture \in BOOLEAN :
            /\ task' = [task EXCEPT ![k].at = IF picture THEN "signPassport"
                                                         ELSE "signAssignment",
                                    ![k].passport = p, ![k].score = score]
            /\ failed' = IF score THEN failed ELSE failed \cup {Doc(k)}
     ELSE End(k) /\ UNCHANGED failed
  /\ UNCHANGED <<docs, rows, spent>>

PairSignsPassport(k) ==
  /\ At(k, "pair", "signPassport")
  /\ Signed(task[k].passport)
  /\ Go(k, "signAssignment")
  /\ UNCHANGED <<rows, failed, spent>>

PairSignsAssignment(k) ==
  /\ At(k, "pair", "signAssignment")
  /\ Signed(Doc(k))
  /\ IF task[k].score THEN Go(k, "row") ELSE End(k)
  /\ UNCHANGED <<rows, failed, spent>>

PairSaves(k) ==
  /\ At(k, "pair", "row")
  /\ SaveRow(k, "SIGNATURE", <<Doc(k), task[k].passport>>, docs[Doc(k)].sentFor)
  /\ End(k)
  /\ UNCHANGED <<docs, failed, spent>>

-----------------------------------------------------------------------------
(* processPassportDiscrepancy                                              *)

\* A row for each name that differs from that of the passenger, one after the
\* other.
NamesSaves(k) ==
  /\ At(k, "names", "read")
  /\ \/ End(k) /\ UNCHANGED rows
     \/ /\ SaveRow(k, "PASSENGER", <<Doc(k)>>, docs[Doc(k)].sentFor)
        /\ IF task[k].row + 1 < Differing THEN task' = [task EXCEPT ![k].row = @ + 1]
                                          ELSE End(k)
  /\ UNCHANGED <<docs, failed, spent>>

-----------------------------------------------------------------------------
(* Staff.                                                                  *)

Refresh(h, n) ==
  /\ task[h] = Rest
  /\ Spend
  /\ task' = [task EXCEPT ![h] =
       [Rest EXCEPT !.at = "read", !.op = "refresh", !.row = n, !.beside = Leaving]]
  /\ UNCHANGED <<docs, rows, failed>>

\* updateStatus: a row that staff open again is theirs.
UpdateStatus(n) ==
  /\ Spend
  /\ rows' = [rows EXCEPT ![n].active = ~@, ![n].by = "staff"]
  /\ UNCHANGED <<docs, task, failed>>

\* removeDocument of one that is not deleted: every task in progress meets it.
Remove(h, d) ==
  /\ task[h] = Rest /\ docs[d].live
  /\ Spend
  /\ task' = [k \in Tasks |->
       IF k = h THEN [Rest EXCEPT !.at = "rows", !.op = "remove", !.passport = d]
       ELSE IF task[k] = Rest THEN Rest
       ELSE [task[k] EXCEPT !.beside = @ \cup {d}]]
  /\ UNCHANGED <<docs, rows, failed>>

\* Variant: the rows stay as they are.
RowsKept(d) == rows

\* The rows whose first document it is.
RowsClosed(d) ==
  [n \in DOMAIN rows |-> IF rows[n].docs[1] = d THEN [rows[n] EXCEPT !.active = FALSE]
                                                ELSE rows[n]]
CloseRows(h) ==
  /\ At(h, "remove", "rows")
  /\ rows' = RowsClosed(task[h].passport)
  /\ Go(h, "document")
  /\ UNCHANGED <<docs, failed, spent>>

RemoveDocument(h) ==
  /\ At(h, "remove", "document")
  /\ docs' = [docs EXCEPT ![task[h].passport].live = FALSE]
  /\ End(h)
  /\ UNCHANGED <<rows, failed, spent>>

\* updateDocumentType and patchPassengerId, of a document that may be deleted:
\* no task is started, and no row is closed.
Retype(d, type) ==
  /\ docs[d].type # type
  /\ Spend
  /\ docs' = [docs EXCEPT ![d].type = type, ![d].edited = TRUE]
  /\ UNCHANGED <<rows, task, failed>>

Reassign(d, p) ==
  /\ docs[d].passenger # p
  /\ Spend
  /\ docs' = [docs EXCEPT ![d].passenger = p, ![d].edited = TRUE]
  /\ UNCHANGED <<rows, task, failed>>

-----------------------------------------------------------------------------
(* Trouble.                                                                *)

\* The process ends, and every task with it.
Stop ==
  /\ task' = [k \in Tasks |-> Rest]
  /\ failed' = failed \cup {Doc(k) : k \in {k \in Tasks \ Staff : task[k] # Rest}}

\* A call throws: a refresh and a request end by themselves.
Throw(k) ==
  /\ task[k] # Rest
  /\ Spend
  /\ IF task[k].op \in {"names", "pair"} THEN Stop
                                         ELSE End(k) /\ UNCHANGED failed
  /\ UNCHANGED <<docs, rows>>

\* Also an upload whose passports cannot be read from their store.
Restart == Spend /\ Stop /\ UNCHANGED <<docs, rows>>

-----------------------------------------------------------------------------
Proceed(k) ==
  \/ RefreshReads(k) \/ RefreshSaves(k)
  \/ PairReads(k) \/ PairSignsPassport(k)
  \/ PairSignsAssignment(k) \/ PairSaves(k)
  \/ NamesSaves(k)

Next ==
  \/ \E type \in Types, p \in Passengers : Upload(type, p)
  \/ \E k \in Tasks : Proceed(k) \/ Throw(k)
  \/ \E n \in DOMAIN rows : UpdateStatus(n)
  \/ \E d \in DOMAIN docs : \/ \E type \in Types : Retype(d, type)
                            \/ \E p \in Passengers : Reassign(d, p)
  \/ \E h \in Staff : \/ \E n \in DOMAIN rows : Refresh(h, n)
                      \/ \E d \in DOMAIN docs : Remove(h, d)
                      \/ CloseRows(h) \/ RemoveDocument(h)
  \/ Restart

Spec == Init /\ [][Next]_vars

-----------------------------------------------------------------------------
(* Properties.                                                             *)

EditedOf(documents) == \E i \in DOMAIN documents : docs[documents[i]].edited

Are(types, documents) ==
  /\ {documents[i] : i \in DOMAIN documents} \subseteq DOMAIN docs
  /\ \/ {docs[documents[i]].type : i \in DOMAIN documents} = types
     \/ EditedOf(documents)

\* Every variable has the shape the code gives it: a row of a signature is
\* about an assignment and a passport, one of a name about a passport, unless
\* staff gave a document of the row another type.
TypeOK ==
  /\ \A d \in DOMAIN docs : docs[d] \in [type : Types, passenger : Passengers,
                                         live : BOOLEAN, signed : BOOLEAN,
                                         sentFor : Passengers, edited : BOOLEAN]
  /\ \A n \in DOMAIN rows :
       /\ rows[n].passenger \in Passengers /\ rows[n].active \in BOOLEAN
       /\ Are(IF rows[n].type = "SIGNATURE" THEN Compared ELSE {"PASSPORT"},
              rows[n].docs)
  /\ failed \subseteq DOMAIN docs

\* An active row is about a document that is there, unless its task met the
\* removal of the document or staff had their say about it.
ActiveRowsLive ==
  \A n \in DOMAIN rows :
    LET d == rows[n].docs[1]
    IN rows[n].active => docs[d].live \/ rows[n].met \/ rows[n].by = "staff"

\* A row compares signatures of the passenger it names, unless staff gave one
\* of its documents to another passenger, or it was renewed in a claim with
\* documents sent for several passengers.
RowsOfOwnPassenger ==
  \A n \in Signatures :
    \/ \A i \in {1, 2} : docs[rows[n].docs[i]].passenger = rows[n].passenger
    \/ EditedOf(rows[n].docs)
    \/ /\ rows[n].by \in {"refresh", "staff"}
       /\ \E d, e \in DOMAIN docs : docs[d].sentFor # docs[e].sentFor

\* An assignment that came behind a passport of its passenger is compared with
\* one, unless no score was read, the process ended or staff edited one of the
\* two; what comes in the other order, or becomes a passport or an assignment
\* by an edit, is not compared until another assignment comes.
PairsCompared ==
  \A a \in Live("ASSIGNMENT") :
    (/\ a \notin failed /\ task[<<a, "pair">>] = Rest /\ ~docs[a].edited
     /\ \E p \in Live("PASSPORT") : /\ p < a /\ ~docs[p].edited
                                     /\ docs[p].passenger = docs[a].passenger)
      => \E n \in Signatures : rows[n].docs[1] = a

\* The rows fit the documents they are about, in each of these ways.
RowsConsistent == ActiveRowsLive /\ RowsOfOwnPassenger /\ PairsCompared
=============================================================================
