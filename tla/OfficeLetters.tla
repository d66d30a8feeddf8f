---------------------------- MODULE OfficeLetters ----------------------------
(***************************************************************************)
(* The letters of the office and the claims they are filed under: what the *)
(* back office and the program itself send, what the customer answers, the *)
(* rows and files stored of each, and the claims deleted with them.        *)
(* Which mails a notification brings is OfficeMailbox's; who of the staff  *)
(* may see a letter is left out.                                           *)
(*                                                                         *)
(* All claims are of one customer, and every mail has one file, but for    *)
(* the notices of the program.  A mail is named by its place among those   *)
(* that were sent; a thread by its first mail.  Every await that matters   *)
(* is a step.                                                              *)
(***************************************************************************)
EXTENDS Integers, Sequences, FiniteSets

CONSTANTS
  Claims,   \* the claims of the customer
  Http,     \* requests and mails handled at the same time
  Limit     \* bound on the events, see Spend

None == "none"

VARIABLES
  claim,    \* whether a claim is there, archived or gone
  mail,     \* the mails Gmail has, and the row of each
  request,  \* the requests and mails in progress
  moved,    \* history: mails the back office refiled, or that went with a claim
  early,    \* history: mails that came before all of their thread was stored
  broken,   \* history: mails whose request came to grief
  spent     \* events so far

vars == <<claim, mail, request, moved, early, broken, spent>>
history == <<moved, early, broken>>

Mails == DOMAIN mail
Rest == [op |-> "rest", at |-> "rest", mail |-> 0, claim |-> None]
At(h, op, step) == request[h].op = op /\ request[h].at = step
Mail(h) == request[h].mail
Go(h, step) == request' = [request EXCEPT ![h].at = step]
End(h) == request' = [request EXCEPT ![h] = Rest]
Only == UNCHANGED <<claim, mail, history, spent>>

Spend == spent < Limit /\ spent' = spent + 1

Init ==
  /\ claim = [c \in Claims |-> "there"]
  /\ mail = <<>>
  /\ request = [h \in Http |-> Rest]
  /\ moved = {} /\ early = {} /\ broken = {} /\ spent = 0

Begin(h, op, step, m, c) ==
  /\ request[h] = Rest
  /\ Spend
  /\ request' = [request EXCEPT ![h] = [op |-> op, at |-> step, mail |-> m, claim |-> c]]

\* A mail of a thread, or the first one of its own, that has no row yet.
Posted(thread, kind, c) ==
  mail' = Append(mail,
    [thread |-> IF thread = 0 THEN Len(mail) + 1 ELSE thread, kind |-> kind,
     chosen |-> c, row |-> "none", claim |-> None, file |-> FALSE])

Trouble(h) == End(h) /\ broken' = broken \cup {Mail(h)}

-----------------------------------------------------------------------------
(* A letter of the back office: sendLetter.                                *)

\* An answer is to a received mail that is stored.
BeginLetter(h, reply, c) ==
  /\ reply # 0 => mail[reply].row = "there" /\ mail[reply].kind = "INBOX"
  /\ Begin(h, "letter", "look", reply, c)
  /\ UNCHANGED <<claim, mail, history>>

\* The claim that is not found is left out of the letter.
LetterLooks(h) ==
  /\ At(h, "letter", "look")
  /\ request' = [request EXCEPT ![h].at = "send",
       ![h].claim = IF @ # None /\ claim[@] # "gone" THEN @ ELSE None]
  /\ Only

LetterSends(h) ==
  /\ At(h, "letter", "send")
  /\ Posted(IF Mail(h) = 0 THEN 0 ELSE mail[Mail(h)].thread, "SENT", request[h].claim)
  /\ request' = [request EXCEPT ![h].at = "row", ![h].mail = Len(mail) + 1]
  /\ UNCHANGED <<claim, history, spent>>

\* saveEmail: ids are unique, and the claim must be there.
SavesRow(h) ==
  /\ request[h].at = "row"
  /\ IF \/ mail[Mail(h)].row = "there"
        \/ request[h].claim # None /\ claim[request[h].claim] = "gone"
     THEN Trouble(h) /\ UNCHANGED mail
     ELSE /\ mail' = [mail EXCEPT ![Mail(h)].row = "there",
                                  ![Mail(h)].claim = request[h].claim]
          /\ \/ request[h].op = "notice" /\ End(h)
             \/ request[h].op = "letter" /\ Go(h, "file")
             \/ /\ request[h].op = "answer"
                /\ Go(h, IF request[h].claim = None THEN "fetch" ELSE "news")
          /\ UNCHANGED broken
  /\ UNCHANGED <<claim, moved, early, spent>>

\* saveAttachment, behind the upload: the row must be there.
SavesFile(h) ==
  /\ request[h].at = "file"
  /\ IF mail[Mail(h)].row = "there"
     THEN mail' = [mail EXCEPT ![Mail(h)].file = TRUE] /\ End(h) /\ UNCHANGED broken
     ELSE Trouble(h) /\ UNCHANGED mail
  /\ UNCHANGED <<claim, moved, early, spent>>

-----------------------------------------------------------------------------
(* A notice of the program, from the other mailbox: processAndSend.        *)

BeginNotice(h, c) ==
  /\ claim[c] # "gone"
  /\ Begin(h, "notice", "send", 0, c)
  /\ UNCHANGED <<claim, mail, history>>

NoticeSends(h) ==
  /\ At(h, "notice", "send")
  /\ Posted(0, "NOTICE", request[h].claim)
  /\ request' = [request EXCEPT ![h].at = "row", ![h].mail = Len(mail) + 1]
  /\ UNCHANGED <<claim, history, spent>>

\* sendEmailHtml swallows what Gmail answers: no mail, no row and no error.
NoticeLost(h) ==
  /\ At(h, "notice", "send")
  /\ Spend
  /\ End(h)
  /\ UNCHANGED <<claim, mail, history>>

-----------------------------------------------------------------------------
(* A mail to the office: handleMessage.                                    *)

InThread(t) == {m \in Mails : mail[m].thread = t}

\* The customer writes; the mail is handled once a notification brings it.
Writes(thread) ==
  /\ Spend
  /\ Posted(thread, "INBOX", None)
  /\ early' = early \cup {Len(mail) + 1 : m \in
                          {m \in InThread(thread) : mail[m].row # "there"}}
  /\ UNCHANGED <<claim, request, moved, broken>>

\* Possibly again: a mail may be delivered more than once.
BeginAnswer(h, m) ==
  /\ mail[m].kind = "INBOX"
  /\ IF mail[m].row = "none" /\ \A k \in Http : Mail(k) # m
     THEN /\ request[h] = Rest
          /\ request' = [request EXCEPT ![h] = [op |-> "answer", at |-> "thread",
                                                mail |-> m, claim |-> None]]
          /\ UNCHANGED spent
     ELSE Begin(h, "answer", "thread", m, None)
  /\ UNCHANGED <<claim, mail, history>>

\* findClaimIdForEmail looks at some mail of the thread ...
LooksInThread(h) ==
  /\ At(h, "answer", "thread")
  /\ LET rows == {m \in InThread(mail[Mail(h)].thread) : mail[m].row = "there"} IN
     \/ \E m \in rows : /\ mail[m].claim # None
                        /\ request' = [request EXCEPT ![h].at = "row",
                                                      ![h].claim = mail[m].claim]
     \/ /\ rows = {} \/ \E m \in rows : mail[m].claim = None
        /\ Go(h, "address")
  /\ Only

\* ... or at some claim of the address, one that is archived included.
LooksForAddress(h) ==
  /\ At(h, "answer", "address")
  /\ LET found == {c \in Claims : claim[c] # "gone"} IN
     \/ found = {} /\ Go(h, "row")
     \/ \E c \in found :
          request' = [request EXCEPT ![h].at = "row",
            ![h].claim = IF claim[c] = "archived" THEN None ELSE c]
  /\ Only

\* The claim may be deleted by then, with the row.
SavesNews(h) ==
  /\ At(h, "answer", "news")
  /\ IF claim[request[h].claim] = "gone"
     THEN Trouble(h) ELSE Go(h, "fetch") /\ UNCHANGED broken
  /\ UNCHANGED <<claim, mail, moved, early, spent>>

\* getAttachmentByIdFromGmail
FetchesFile(h) ==
  /\ At(h, "answer", "fetch")
  /\ Go(h, "file")
  /\ Only

-----------------------------------------------------------------------------
(* The claims.                                                             *)

\* updateLetter
BeginMove(h, m, c) ==
  /\ mail[m].row = "there" /\ claim[c] # "gone"
  /\ Begin(h, "move", "update", m, c)
  /\ UNCHANGED <<claim, mail, history>>

Moves(h) ==
  /\ At(h, "move", "update")
  /\ IF mail[Mail(h)].row = "there" /\ claim[request[h].claim] # "gone"
     THEN /\ mail' = [mail EXCEPT ![Mail(h)].claim = request[h].claim]
          /\ moved' = moved \cup {Mail(h)}
     ELSE UNCHANGED <<mail, moved>>
  /\ End(h)
  /\ UNCHANGED <<claim, early, broken, spent>>

Archive(c) ==
  /\ claim[c] # "gone"
  /\ Spend
  /\ claim' = [claim EXCEPT ![c] = IF @ = "there" THEN "archived" ELSE "there"]
  /\ UNCHANGED <<mail, request, history>>

\* A claim takes its mails along; a mail with a file does not let it go.
Refused(c) == \E m \in Mails : mail[m].claim = c /\ mail[m].file

FiledUnder(c) == {m \in Mails : mail[m].claim = c /\ mail[m].row = "there"}

Delete(c) ==
  /\ claim[c] # "gone" /\ ~Refused(c)
  /\ Spend
  /\ claim' = [claim EXCEPT ![c] = "gone"]
  /\ mail' = [m \in Mails |-> IF m \in FiledUnder(c)
                              THEN [mail[m] EXCEPT !.row = "gone", !.file = FALSE]
                              ELSE mail[m]]
  /\ moved' = moved \cup FiledUnder(c)
  /\ UNCHANGED <<request, early, broken>>

\* A call throws; so does every call of a process that ends.
Throw(h) ==
  /\ request[h] # Rest
  /\ Spend
  /\ Trouble(h)
  /\ UNCHANGED <<claim, mail, moved, early>>

-----------------------------------------------------------------------------
Proceed(h) ==
  \/ LetterLooks(h) \/ LetterSends(h) \/ SavesRow(h) \/ SavesFile(h)
  \/ NoticeSends(h) \/ NoticeLost(h)
  \/ LooksInThread(h) \/ LooksForAddress(h) \/ SavesNews(h) \/ FetchesFile(h)
  \/ Moves(h)

Next ==
  \/ \E h \in Http :
       \/ Proceed(h) \/ Throw(h)
       \/ \E c \in Claims \cup {None}, reply \in Mails \cup {0} : BeginLetter(h, reply, c)
       \/ \E c \in Claims : BeginNotice(h, c)
       \/ \E m \in Mails : BeginAnswer(h, m) \/ \E c \in Claims : BeginMove(h, m, c)
  \/ \E m \in Mails \cup {0} : /\ m # 0 => mail[m].kind # "NOTICE"
                              /\ Writes(IF m = 0 THEN 0 ELSE mail[m].thread)
  \/ \E c \in Claims : Archive(c) \/ Delete(c)

Spec == Init /\ [][Next]_vars

-----------------------------------------------------------------------------
(* Properties.                                                             *)

Busy(m) == \E h \in Http : Mail(h) = m

\* Every variable has the shape the code gives it; what is stored of a mail
\* hangs together.
TypeOK ==
  /\ \A c \in Claims : claim[c] \in {"there", "archived", "gone"}
  /\ \A m \in Mails : /\ mail[m].thread \in 1..m
                      /\ mail[m].row \in {"none", "there", "gone"}
                      /\ mail[m].claim \in Claims \cup {None}
                      /\ mail[m].file => mail[m].row = "there"

\* A row is filed under a claim that is there, or under none.
FiledUnderClaim ==
  \A m \in Mails : mail[m].row = "there" /\ mail[m].claim # None =>
                     claim[mail[m].claim] # "gone"

\* The customer's answer is filed under a claim of its thread, although the
\* customer has other claims, unless mails of the thread are filed under none,
\* were refiled, have been gone or were not stored yet when it came.
AnswerStaysInThread ==
  \A m \in Mails :
    mail[m].kind = "INBOX" /\ mail[m].row = "there" /\ m # mail[m].thread =>
      LET thread == InThread(mail[m].thread)
          others == {n \in thread \ {m} : mail[n].row = "there"} IN
      \/ mail[m].claim \in {mail[n].claim : n \in others}
      \/ m \in early \/ thread \cap moved # {}
      \/ \E n \in others : mail[n].claim = None

\* A letter or notice that was sent has its row, and the letter its file, unless
\* its request is in progress or came to grief, or its claim is gone.
LetterKept ==
  \A m \in Mails :
    mail[m].kind # "INBOX" =>
      \/ mail[m].row = "there" /\ (mail[m].kind = "SENT" => mail[m].file)
      \/ mail[m].row = "gone" \/ Busy(m) \/ m \in broken

\* Letters, their rows and their claims fit together, in each of these ways.
LettersFiled ==
  /\ FiledUnderClaim
  /\ AnswerStaysInThread
  /\ LetterKept
=============================================================================
