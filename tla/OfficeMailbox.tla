---------------------------- MODULE OfficeMailbox ----------------------------
(***************************************************************************)
(* How mails to the office reach the back office.                          *)
(*                                                                         *)
(* Gmail keeps a history of what was added to the mailbox and publishes a  *)
(* notification for each incoming mail; Pub/Sub delivers a notification at *)
(* least once.  GmailOfficeService.pullMessages runs one listener per      *)
(* delivery: it lists the history after startHistoryId, fetches the listed *)
(* messages one by one, moves startHistoryId behind each one it got, and   *)
(* handles the first one only, because a promise resolves once.  The       *)
(* notification is acknowledged as soon as that promise settles, before    *)
(* the mail is stored.  Listeners overlap, share startHistoryId, and lose  *)
(* it with the process: watchMailbox starts again at the present.          *)
(*                                                                         *)
(* A history id is the index of its mail in box.  LettersAndMailsProofs    *)
(* extends PaymentDetails too, so the names the two would share are of the *)
(* mailbox here.                                                           *)
(***************************************************************************)
EXTENDS Naturals, Sequences, FiniteSets

CONSTANTS
  Mails,       \* mails the office may receive or send
  Inbox,       \* those that are received, with a subject
  Known,       \* those findClaimIdForEmail finds a claim for
  Listeners,   \* deliveries in progress at the same time
  Nothing,     \* "no mail"
  MailLimit,   \* bound on the events of each kind, see SpendMail
  MailTotal    \* bound on the events of all kinds together

MailEvents == {"duplicate", "get", "failure", "watch", "crash"}

ASSUME MailAssumption ==
  /\ Known \subseteq Inbox
  /\ Inbox \subseteq Mails
  /\ Nothing \notin Mails
  /\ IsFiniteSet(Listeners)
  /\ MailLimit \in [MailEvents -> Nat] /\ MailTotal \in Nat

\* at is what getNewMessages does, next the history id it lists from or
\* fetches, last the end of the list, resolved whether its promise resolved.
Pulls == [at : {"idle", "list", "fetch"}, next : Nat, last : Nat,
          resolved : BOOLEAN]
NoPull == [at |-> "idle", next |-> 0, last |-> 0, resolved |-> FALSE]

VARIABLES
  box,        \* the mailbox, in the order of its history
  notices,    \* notifications to be delivered or redelivered
  start,      \* startHistoryId
  pull,       \* where the getNewMessages of each listener is
  hand,       \* the mail its handleMessage is handling
  step,       \* the call that handleMessage makes next
  stored,     \* mails with an Email row
  announced,  \* recent updates saved for each mail
  dropped,    \* history: mails somebody let go of, see Drop
  mailSpent   \* events so far, by kind

mailboxVars == <<box, notices, start, pull, hand, step, stored, announced, dropped,
          mailSpent>>
handling == <<hand, step>>
results == <<stored, announced>>

-----------------------------------------------------------------------------
MailSpent == mailSpent["duplicate"] + mailSpent["get"] + mailSpent["failure"]
               + mailSpent["watch"] + mailSpent["crash"]

SpendMail(event) ==
  /\ mailSpent[event] < MailLimit[event]
  /\ MailSpent < MailTotal
  /\ mailSpent' = [mailSpent EXCEPT ![event] = @ + 1]

Drop(mails) == dropped' = dropped \cup mails
Arrived == {box[i] : i \in 1..Len(box)}
\* What a listener that has no history to list would have listed.
Ahead == {box[i] : i \in (start + 1)..Len(box)}
Listening(l) == pull[l].at = "idle" /\ hand[l] = Nothing

MailboxInit ==
  /\ box = <<>>
  /\ notices = 0
  /\ start = 0
  /\ pull = [l \in Listeners |-> NoPull]
  /\ hand = [l \in Listeners |-> Nothing]
  /\ step = [l \in Listeners |-> "create"]
  /\ stored = {}
  /\ announced = [m \in Mails |-> 0]
  /\ dropped = {}
  /\ mailSpent = [e \in MailEvents |-> 0]

-----------------------------------------------------------------------------
(* Gmail and Pub/Sub.                                                      *)

Arrive(m) ==
  /\ m \in Inbox \ Arrived
  /\ box' = Append(box, m)
  /\ notices' = notices + 1
  /\ UNCHANGED <<start, pull, handling, results, dropped, mailSpent>>

\* A letter of the back office, or a mail without a subject, enters the same
\* history; the watch on INBOX notifies of the latter only.
ArriveOther(m, notify) ==
  /\ m \in Mails \ (Inbox \cup Arrived)
  /\ box' = Append(box, m)
  /\ notices' = IF notify THEN notices + 1 ELSE notices
  /\ UNCHANGED <<start, pull, handling, results, dropped, mailSpent>>

\* Delivery is at least once.
Duplicate ==
  /\ SpendMail("duplicate")
  /\ notices' = notices + 1
  /\ UNCHANGED <<box, start, pull, handling, results, dropped>>

-----------------------------------------------------------------------------
(* The listener: getNewMessages.                                           *)

\* The request for the history leaves with the startHistoryId of this moment.
Deliver(l) ==
  /\ Listening(l)
  /\ notices > 0
  /\ notices' = notices - 1
  /\ pull' = [pull EXCEPT ![l] = [NoPull EXCEPT !.at = "list",
                                                !.next = start + 1]]
  /\ UNCHANGED <<box, start, handling, results, dropped, mailSpent>>

Listed(p) == IF p.next > Len(box) THEN NoPull
             ELSE [p EXCEPT !.at = "fetch", !.last = Len(box)]

\* Variant: startHistoryId moves when the list is in, not with each mail.
ListAdvances(l) ==
  /\ pull[l].at = "list"
  /\ pull' = [pull EXCEPT ![l] = Listed(@)]
  /\ start' = Len(box)
  /\ UNCHANGED <<box, notices, handling, results, dropped, mailSpent>>

\* history.list; with nothing new the notification is acknowledged for good.
List(l) ==
  /\ pull[l].at = "list"
  /\ pull' = [pull EXCEPT ![l] = Listed(@)]
  /\ UNCHANGED <<box, notices, start, handling, results, dropped, mailSpent>>

\* An error of history.list is caught; the notification is acknowledged.
ListFails(l) ==
  /\ pull[l].at = "list"
  /\ SpendMail("failure")
  /\ pull' = [pull EXCEPT ![l] = NoPull]
  /\ UNCHANGED <<box, notices, start, handling, results, dropped>>

\* The loop goes on to the next listed mail.
Passed(p, resolved) ==
  IF p.next = p.last THEN NoPull
  ELSE [p EXCEPT !.next = @ + 1, !.resolved = resolved]

\* Variant: whatever was added to the mailbox is handled.
FetchAnyMail(l) ==
  /\ pull[l].at = "fetch"
  /\ IF pull[l].resolved
     THEN Drop({box[pull[l].next]}) /\ UNCHANGED handling
     ELSE /\ hand' = [hand EXCEPT ![l] = box[pull[l].next]]
          /\ step' = [step EXCEPT ![l] = "create"]
          /\ dropped' = dropped
  /\ start' = pull[l].next
  /\ pull' = [pull EXCEPT ![l] = Passed(@, TRUE)]
  /\ UNCHANGED <<box, notices, results, mailSpent>>

\* messages.get answers.  The first answer resolves the promise: the
\* notification is acknowledged and handleMessage starts, unless the mail is
\* not an incoming one.  Later answers only move startHistoryId.
Fetch(l) ==
  /\ pull[l].at = "fetch"
  /\ LET m == box[pull[l].next]
     IN  IF pull[l].resolved
         THEN Drop({m}) /\ UNCHANGED handling
         ELSE /\ hand' = [hand EXCEPT ![l] = IF m \in Inbox THEN m ELSE Nothing]
              /\ step' = [step EXCEPT ![l] = "create"]
              /\ dropped' = dropped
  /\ start' = pull[l].next
  /\ pull' = [pull EXCEPT ![l] = Passed(@, TRUE)]
  /\ UNCHANGED <<box, notices, results, mailSpent>>

\* The promise of a list in which no get succeeded never settles: the
\* notification is never acknowledged, and Pub/Sub delivers it again.
Unsettled(p) == p.next = p.last /\ ~p.resolved

\* Variant: startHistoryId moves even when the mail could not be fetched.
FetchFailsAdvancing(l) ==
  /\ pull[l].at = "fetch"
  /\ SpendMail("get")
  /\ Drop({box[pull[l].next]})
  /\ start' = pull[l].next
  /\ notices' = IF Unsettled(pull[l]) THEN notices + 1 ELSE notices
  /\ pull' = [pull EXCEPT ![l] = Passed(@, @.resolved)]
  /\ UNCHANGED <<box, handling, results>>

\* messages.get throws: the mail is skipped.
FetchFails(l) ==
  /\ pull[l].at = "fetch"
  /\ SpendMail("get")
  /\ Drop({box[pull[l].next]})
  /\ notices' = IF Unsettled(pull[l]) THEN notices + 1 ELSE notices
  /\ pull' = [pull EXCEPT ![l] = Passed(@, @.resolved)]
  /\ UNCHANGED <<box, start, handling, results>>

-----------------------------------------------------------------------------
(* handleMessage and EmailService.saveEmail.                               *)

\* Variant: a mail that is there already is stored and announced again.
CreateOrUpdate(l) ==
  /\ hand[l] # Nothing /\ step[l] = "create"
  /\ stored' = stored \cup {hand[l]}
  /\ IF hand[l] \in Known
     THEN step' = [step EXCEPT ![l] = "announce"] /\ hand' = hand
     ELSE hand' = [hand EXCEPT ![l] = Nothing] /\ step' = step
  /\ UNCHANGED <<box, notices, start, pull, announced, dropped, mailSpent>>

\* email.create; the Gmail message id is the key, so a mail that is there
\* already throws, and the nack of the acknowledged notification is void.
Create(l) ==
  /\ hand[l] # Nothing /\ step[l] = "create"
  /\ stored' = stored \cup {hand[l]}
  /\ IF hand[l] \in Known \ stored
     THEN step' = [step EXCEPT ![l] = "announce"] /\ hand' = hand
     ELSE hand' = [hand EXCEPT ![l] = Nothing] /\ step' = step
  /\ UNCHANGED <<box, notices, start, pull, announced, dropped, mailSpent>>

\* RecentUpdatesService.saveRecentUpdate.
Announce(l) ==
  /\ hand[l] # Nothing /\ step[l] = "announce"
  /\ announced' = [announced EXCEPT ![hand[l]] = @ + 1]
  /\ hand' = [hand EXCEPT ![l] = Nothing]
  /\ step' = [step EXCEPT ![l] = "create"]
  /\ UNCHANGED <<box, notices, start, pull, stored, dropped, mailSpent>>

\* Any of these calls throws; nothing is tried again.
HandleThrows(l) ==
  /\ hand[l] # Nothing
  /\ SpendMail("failure")
  /\ Drop({hand[l]})
  /\ hand' = [hand EXCEPT ![l] = Nothing]
  /\ step' = [step EXCEPT ![l] = "create"]
  /\ UNCHANGED <<box, notices, start, pull, results>>

-----------------------------------------------------------------------------
(* watchMailbox.                                                           *)

\* refreshWatchIfNeeded renews the watch and takes over its history id.
RefreshWatch ==
  /\ SpendMail("watch")
  /\ Drop(Ahead)
  /\ start' = Len(box)
  /\ UNCHANGED <<box, notices, pull, handling, results>>

\* The process restarts: onModuleInit calls watchMailbox, then listens.  What
\* was not acknowledged is delivered again.
MailboxCrash ==
  /\ SpendMail("crash")
  /\ notices' = notices + Cardinality({l \in Listeners :
                            pull[l].at # "idle" /\ ~pull[l].resolved})
  /\ pull' = [l \in Listeners |-> NoPull]
  /\ hand' = [l \in Listeners |-> Nothing]
  /\ step' = [l \in Listeners |-> "create"]
  /\ Drop(Ahead \cup ({hand[l] : l \in Listeners} \ {Nothing}))
  /\ start' = Len(box)
  /\ UNCHANGED <<box, results>>

-----------------------------------------------------------------------------
ListenerStep(l) ==
  \/ List(l) \/ Fetch(l)
  \/ Create(l) \/ Announce(l)

MailboxNext ==
  \/ \E m \in Mails : Arrive(m) \/ \E notify \in BOOLEAN : ArriveOther(m, notify)
  \/ Duplicate
  \/ \E l \in Listeners :
       \/ Deliver(l) \/ ListenerStep(l)
       \/ ListFails(l) \/ FetchFails(l) \/ HandleThrows(l)
  \/ RefreshWatch \/ MailboxCrash

MailboxSpec == MailboxInit /\ [][MailboxNext]_mailboxVars

\* Pub/Sub delivers while somebody listens, and Node runs a listener on.  The
\* two threads of a listener, the loop and the handler, advance independently.
MailboxFairness ==
  /\ WF_mailboxVars(\E l \in Listeners : Deliver(l))
  /\ \A l \in Listeners : /\ WF_mailboxVars(List(l) \/ Fetch(l))
                          /\ WF_mailboxVars(Create(l) \/ Announce(l))

FairMailbox == MailboxSpec /\ MailboxFairness

-----------------------------------------------------------------------------
(* Properties.                                                             *)

\* Every variable has the shape the code gives it.
MailboxTypeOK ==
  /\ box \in Seq(Mails)
  /\ notices \in Nat
  /\ start \in 0..Len(box)
  /\ pull \in [Listeners -> Pulls]
  /\ hand \in [Listeners -> Inbox \cup {Nothing}]
  /\ step \in [Listeners -> {"create", "announce"}]
  /\ stored \in SUBSET Inbox
  /\ announced \in [Mails -> Nat]
  /\ dropped \in SUBSET Mails
  /\ mailSpent \in [MailEvents -> Nat]

\* The back office hears of a mail at most once, and only of a mail it can
\* open, however many listeners handle it: a duplicate delivery, two listeners
\* that listed the same history, a startHistoryId that a slow one moved back.
AnnouncedOnce ==
  \A m \in Mails : announced[m] <= (IF m \in stored THEN 1 ELSE 0)

\* Somebody has mail i, had it, or let go of it.
Taken(i) ==
  \/ box[i] \in stored \cup dropped
  \/ \E l \in Listeners : hand[l] = box[i]

\* startHistoryId leaves no mail behind that nobody took: an incoming mail is
\* ahead of startHistoryId, or stored, or being handled, or was let go of (it
\* came second in a list, its get or its handler threw, or the watch started
\* behind it), even while listeners move startHistoryId back and forth.
MailAccounted ==
  \A i \in 1..Len(box) : box[i] \in Inbox => i > start \/ Taken(i)

Newest == IF box = <<>> THEN Nothing ELSE box[Len(box)]
MailTrouble == mailSpent["failure"] + mailSpent["watch"] + mailSpent["crash"]

\* A mail that meets a quiet system is stored: its notification is there, no
\* listener is busy, and it is all the history there is to list.  Getting it
\* may fail, a notification may come twice; only another mail, an error of the
\* list or of the handler, a new watch or a restart may prevent it.
LoneMailStored ==
  \A m \in Inbox,
     n \in 0..(MailLimit["failure"] + MailLimit["watch"] + MailLimit["crash"]) :
    ( /\ Newest = m
      /\ start + 1 = Len(box)
      /\ notices > 0
      /\ \A l \in Listeners : Listening(l)
      /\ MailTrouble = n )
    ~> (m \in stored \/ MailTrouble > n \/ Newest # m)
=============================================================================
