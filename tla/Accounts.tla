------------------------------ MODULE Accounts ------------------------------
(***************************************************************************)
(* The accounts of one mailbox, whose address may be written in several    *)
(* ways: registration with a code by mail, the code that resets a password,*)
(* the sign-in with Google, the account that comes with a claim and the    *)
(* one an administrator makes.  A login changes nothing but the time of    *)
(* the last one and is left out.                                           *)
(*                                                                         *)
(* Users are kept by the exact address and looked up in any spelling;      *)
(* codes are kept in redis by the exact address.  Every await is a step.   *)
(* A code, like a password, is named by the number of the request that     *)
(* made it.                                                                *)
(***************************************************************************)
EXTENDS Integers, FiniteSets

CONSTANTS
  Emails,   \* the ways of writing the address of the mailbox
  Google,   \* the one of them its Google account has
  Http,     \* requests in progress at the same time
  Limit     \* bound on the events, see Spend

None == 0
NoOne == "nobody"

VARIABLES
  users,     \* by address: the users, their passwords and how they were made
  linked,    \* the user the Google account is linked with
  pending,   \* by address: the registration that waits for its code
  reset,     \* by address: the code that resets the password
  request,   \* the requests in progress
  mailed,    \* history, by address: the registration codes that were mailed
  sent,      \* history, by address: the last reset code that was mailed
  over,      \* history: codes used, expired or withdrawn
  met,       \* history: addresses whose letters or codes two requests handled
  broken,    \* history: addresses with a request that came to grief
  changed,   \* history, by address: passwords a code changed
  googled,   \* history: completed sign-ins with Google
  stopped,   \* history: why the process ended
  spent      \* events so far

vars == <<users, linked, pending, reset, request, mailed, sent, over, met,
          broken, changed, googled, stopped, spent>>
history == <<mailed, sent, over, met, broken, changed, googled, stopped>>
stored == <<users, linked, pending, reset>>

Users == DOMAIN users
NoData == [code |-> None, there |-> {}]
Rest == [op |-> "rest", at |-> "rest", email |-> NoOne, n |-> None,
         code |-> None, there |-> {}]
At(h, op, step) == request[h].op = op /\ request[h].at = step
Email(h) == request[h].email
Go(h, step) == request' = [request EXCEPT ![h].at = step]
End(h) == request' = [request EXCEPT ![h] = Rest]

Spend == spent < Limit /\ spent' = spent + 1

Init ==
  /\ users = [e \in {} |-> Rest] /\ linked = NoOne
  /\ pending = [e \in Emails |-> NoData]
  /\ reset = [e \in Emails |-> None]
  /\ request = [h \in Http |-> Rest]
  /\ mailed = [e \in Emails |-> {}] /\ sent = [e \in Emails |-> None]
  /\ over = {} /\ met = {} /\ broken = {}
  /\ changed = [e \in Emails |-> [n \in 1..Limit |-> 0]]
  /\ googled = 0 /\ stopped = {} /\ spent = 0

-----------------------------------------------------------------------------
(* Requests and their look-ups.                                            *)

\* Requests that handle the same letters and codes.
Alike == {{"register", "resend", "verify"}, {"forgot", "reset"}}

Begin(h, op, step, email, code) ==
  /\ request[h].op = "rest"
  /\ Spend
  /\ request' = [request EXCEPT ![h] =
       [op |-> op, at |-> step, email |-> email, n |-> spent + 1, code |-> code,
        there |-> Users]]
  /\ met' = IF \E k \in Http : /\ request[k].email = email
                               /\ \E ops \in Alike : {op, request[k].op} \subseteq ops
            THEN met \cup {email} ELSE met
  /\ UNCHANGED stored
  /\ UNCHANGED <<mailed, sent, over, broken, changed, googled, stopped>>

\* Variant: the look-up takes the address as it is written.
KnownExactly(email) == email \in Users

\* getUserByEmail looks in any spelling.
KnownUser(email) == Users # {}

\* A step that changes the request alone.
Only == UNCHANGED <<stored, history, spent>>

\* saveUser, of a request or registration that began when there were users.
SaveUser(email, password, by, there) ==
  users' = [e \in Users \cup {email} |->
    IF e = email THEN [password |-> password, by |-> by, there |-> there]
                 ELSE users[e]]

-----------------------------------------------------------------------------
(* Registration.                                                           *)

RegisterLooks(h) ==
  /\ At(h, "register", "look")
  /\ IF KnownUser(Email(h)) THEN End(h) ELSE Go(h, "pending")
  /\ Only

\* A registration that waits for its code stays as it is.
RegisterChecks(h) ==
  /\ At(h, "register", "pending")
  /\ IF pending[Email(h)] # NoData THEN End(h) ELSE Go(h, "save")
  /\ Only

RegisterSaves(h) ==
  /\ At(h, "register", "save")
  /\ pending' = [pending EXCEPT ![Email(h)] =
                   [code |-> request[h].n, there |-> request[h].there]]
  /\ Go(h, "letter")
  /\ UNCHANGED <<users, linked, reset, history, spent>>

RegisterMails(h) ==
  /\ At(h, "register", "letter")
  /\ mailed' = [mailed EXCEPT ![Email(h)] = @ \cup {request[h].n}]
  /\ End(h)
  /\ UNCHANGED <<stored, sent, over, met, broken, changed, googled, stopped, spent>>

\* What failed is withdrawn, whoever put it there.
RegisterUndoes(h) ==
  /\ At(h, "register", "undo")
  /\ pending' = [pending EXCEPT ![Email(h)] = NoData]
  /\ over' = over \cup {request[h].n}
  /\ End(h)
  /\ UNCHANGED <<users, linked, reset, mailed, sent, met, broken, changed,
                 googled, stopped, spent>>

\* resendCode mails the code that waits.
ResendGets(h) ==
  /\ At(h, "resend", "get")
  /\ IF pending[Email(h)] = NoData THEN End(h)
     ELSE request' = [request EXCEPT ![h].at = "letter",
                                     ![h].code = pending[Email(h)].code]
  /\ Only

ResendMails(h) ==
  /\ At(h, "resend", "letter")
  /\ mailed' = [mailed EXCEPT ![Email(h)] = @ \cup {request[h].code}]
  /\ End(h)
  /\ UNCHANGED <<stored, sent, over, met, broken, changed, googled, stopped, spent>>

VerifyGets(h) ==
  /\ At(h, "verify", "get")
  /\ IF pending[Email(h)].code # request[h].code THEN End(h)
     ELSE request' = [request EXCEPT ![h].at = "delete",
                                     ![h].there = pending[Email(h)].there]
  /\ Only

VerifyDeletes(h) ==
  /\ At(h, "verify", "delete")
  /\ pending' = [pending EXCEPT ![Email(h)] = NoData]
  /\ over' = over \cup {request[h].code}
  /\ Go(h, "create")
  /\ UNCHANGED <<users, linked, reset, mailed, sent, met, broken, changed,
                 googled, stopped, spent>>

\* The address is unique as it is written; nobody looks for another spelling.
Creates(h, password) ==
  /\ request[h].at = "create"
  /\ IF Email(h) \in Users THEN UNCHANGED users
     ELSE SaveUser(Email(h), password, request[h].op, request[h].there)
  /\ End(h)
  /\ UNCHANGED <<linked, pending, reset, history, spent>>

VerifyCreates(h) == request[h].op = "verify" /\ Creates(h, request[h].code)

-----------------------------------------------------------------------------
(* Users that come with a claim (generateNewUser) or from an administrator. *)

ClaimLooks(h) ==
  /\ At(h, "claim", "look")
  /\ IF KnownUser(Email(h)) THEN End(h) ELSE Go(h, "create")
  /\ Only

ClaimOrStaffCreates(h) ==
  /\ request[h].op \in {"claim", "staff"}
  /\ Creates(h, request[h].n)

-----------------------------------------------------------------------------
(* A forgotten password.                                                   *)

ForgotLooks(h) ==
  /\ At(h, "forgot", "look")
  /\ IF KnownUser(Email(h)) THEN Go(h, "letter") ELSE End(h)
  /\ Only

\* The letter is on its way before the code is kept.
ForgotMails(h) ==
  /\ At(h, "forgot", "letter")
  /\ sent' = [sent EXCEPT ![Email(h)] = request[h].n]
  /\ Go(h, "save")
  /\ UNCHANGED <<stored, mailed, over, met, broken, changed, googled, stopped, spent>>

ForgotSaves(h) ==
  /\ At(h, "forgot", "save")
  /\ reset' = [reset EXCEPT ![Email(h)] = request[h].n]
  /\ End(h)
  /\ UNCHANGED <<users, linked, pending, history, spent>>

ResetGets(h) ==
  /\ At(h, "reset", "get")
  /\ IF reset[Email(h)] # request[h].code THEN End(h) ELSE Go(h, "change")
  /\ Only

\* changePassword of the address as it is written, which need not be the one
\* the user has: then it throws, and the code stays.
ResetChanges(h) ==
  /\ At(h, "reset", "change")
  /\ IF Email(h) \in Users
     THEN /\ users' = [users EXCEPT ![Email(h)].password = request[h].n]
          /\ changed' = [changed EXCEPT ![Email(h)][request[h].code] = @ + 1]
          /\ Go(h, "delete")
     ELSE End(h) /\ UNCHANGED <<users, changed>>
  /\ UNCHANGED <<linked, pending, reset, mailed, sent, over, met, broken,
                 googled, stopped, spent>>

\* Whatever code is kept by now.
ResetDeletes(h) ==
  /\ At(h, "reset", "delete")
  /\ reset' = [reset EXCEPT ![Email(h)] = None]
  /\ over' = over \cup {request[h].code}
  /\ End(h)
  /\ UNCHANGED <<users, linked, pending, mailed, sent, met, broken, changed,
                 googled, stopped, spent>>

-----------------------------------------------------------------------------
(* The sign-in with Google.                                                *)

SignedIn(h) == End(h) /\ googled' = googled + 1

\* getUserByProviderId
GoogleFindsAccount(h) ==
  /\ At(h, "google", "account")
  /\ IF linked # NoOne THEN SignedIn(h) ELSE Go(h, "look") /\ UNCHANGED googled
  /\ UNCHANGED <<stored, mailed, sent, over, met, broken, changed, stopped, spent>>

GoogleLooks(h) ==
  /\ At(h, "google", "look")
  /\ Go(h, IF KnownUser(Email(h)) THEN "link" ELSE "register")
  /\ Only

\* createOauthAccount for a user in any spelling; a Google account is linked
\* once, and the second attempt is an error of its request.
GoogleLinks(h) ==
  /\ At(h, "google", "link")
  /\ IF linked = NoOne THEN SignedIn(h) /\ linked' \in Users
                       ELSE End(h) /\ UNCHANGED <<linked, googled>>
  /\ UNCHANGED <<users, pending, reset, mailed, sent, over, met, broken,
                 changed, stopped, spent>>

\* The process ends with an error nobody handles; so do its requests.
Stop(why) ==
  /\ request' = [h \in Http |-> Rest]
  /\ broken' = broken \cup {Email(h) : h \in {h \in Http : request[h].op # "rest"}}
  /\ stopped' = stopped \cup {why}
  /\ UNCHANGED <<stored, mailed, sent, over, met, changed, googled>>

\* saveUserWithOauthAccount: the user is made, its link is built and never
\* sent; an address that is taken rejects the transaction nobody waits for.
GoogleCreates(h) ==
  /\ At(h, "google", "register")
  /\ IF Email(h) \in Users
     THEN Stop(IF Email(h) \in request[h].there THEN "known" ELSE "raced")
     ELSE /\ SaveUser(Email(h), None, "google", request[h].there)
          /\ SignedIn(h)
          /\ UNCHANGED <<linked, pending, reset, mailed, sent, over, met, broken,
                         changed, stopped>>
  /\ UNCHANGED spent

-----------------------------------------------------------------------------
(* Expiry and trouble.                                                     *)

ExpirePending(email) ==
  /\ pending[email] # NoData
  /\ Spend
  /\ pending' = [pending EXCEPT ![email] = NoData]
  /\ over' = over \cup {pending[email].code}
  /\ UNCHANGED <<users, linked, reset, request, mailed, sent, met, broken,
                 changed, googled, stopped>>

ExpireReset(email) ==
  /\ reset[email] # None
  /\ Spend
  /\ reset' = [reset EXCEPT ![email] = None]
  /\ over' = over \cup {reset[email]}
  /\ UNCHANGED <<users, linked, pending, request, mailed, sent, met, broken,
                 changed, googled, stopped>>

\* A call throws: register withdraws what it saved, two calls of the sign-in
\* reject a promise nobody waits for, any other request ends.
Throw(h) ==
  /\ request[h].op # "rest"
  /\ Spend
  /\ IF request[h].op = "google" /\ request[h].at \in {"account", "register"}
     THEN Stop("trouble")
     ELSE /\ IF request[h].op = "register" /\ request[h].at \in {"save", "letter"}
             THEN Go(h, "undo") ELSE End(h)
          /\ broken' = broken \cup {Email(h)}
          /\ UNCHANGED <<stored, mailed, sent, over, met, changed, googled, stopped>>

Restart == Spend /\ Stop("restart")

-----------------------------------------------------------------------------
Proceed(h) ==
  \/ RegisterLooks(h) \/ RegisterChecks(h) \/ RegisterSaves(h)
  \/ RegisterMails(h) \/ RegisterUndoes(h)
  \/ ResendGets(h) \/ ResendMails(h)
  \/ VerifyGets(h) \/ VerifyDeletes(h) \/ VerifyCreates(h)
  \/ ClaimLooks(h) \/ ClaimOrStaffCreates(h)
  \/ ForgotLooks(h) \/ ForgotMails(h) \/ ForgotSaves(h)
  \/ ResetGets(h) \/ ResetChanges(h) \/ ResetDeletes(h)
  \/ GoogleFindsAccount(h) \/ GoogleLooks(h) \/ GoogleLinks(h) \/ GoogleCreates(h)

Enter(h) ==
  \/ \E e \in Emails : \/ Begin(h, "register", "look", e, None)
                       \/ Begin(h, "resend", "get", e, None)
                       \/ Begin(h, "forgot", "look", e, None)
                       \/ Begin(h, "claim", "look", e, None)
                       \/ Begin(h, "staff", "create", e, None)
                       \/ \E code \in mailed[e] : Begin(h, "verify", "get", e, code)
                       \/ sent[e] # None /\ Begin(h, "reset", "get", e, sent[e])
  \/ Begin(h, "google", "account", Google, None)

Next ==
  \/ \E h \in Http : Enter(h) \/ Proceed(h) \/ Throw(h)
  \/ \E e \in Emails : ExpirePending(e) \/ ExpireReset(e)
  \/ Restart

Spec == Init /\ [][Next]_vars

-----------------------------------------------------------------------------
(* Properties.                                                             *)

\* Every variable has the shape the code gives it; a reset code is kept for a
\* mailbox that has a user.
TypeOK ==
  /\ Users \subseteq Emails
  /\ \A e \in Users : /\ users[e].password \in 0..Limit
                      /\ users[e].by \in {"verify", "claim", "staff", "google"}
  /\ linked \in Users \cup {NoOne}
  /\ \A e \in Emails : /\ pending[e].code \in 0..Limit
                       /\ reset[e] # None => Users # {}
  /\ over \subseteq 1..Limit

\* A mailbox has one user, however its address is written, unless one was made
\* by an administrator or by a request, or a registration, that had begun when
\* there was none.
OneUserPerMailbox ==
  Cardinality(Users) > 1 =>
    \E e \in Users : users[e].by = "staff" \/
                     \E f \in Users \ {e} : users[e].there = {} /\ users[f].there = {}

\* A registration code in the hands of the customer is good until it is used,
\* expires or is withdrawn, however often the customer registers again, unless
\* two of the requests about it met.
RegistrationCodeInHand ==
  \A e \in Emails \ met : \A code \in mailed[e] :
    pending[e].code = code \/ code \in over

\* The last reset code that was mailed is the one that is kept, until it is
\* used or expires, unless two requests about it met or one came to grief.
ResetCodeInHand ==
  \A e \in Emails \ (met \cup broken) :
    \/ sent[e] \in {None, reset[e]} \cup over
    \/ \E h \in Http : At(h, "forgot", "save") /\ Email(h) = e

\* A reset code changes a password once, unless two requests about it met or
\* one came to grief before it had deleted the code.
PasswordOnce ==
  \A e \in Emails \ (met \cup broken) : \A code \in 1..Limit : changed[e][code] < 2

\* Whoever has signed in with Google twice is known by the account from then
\* on, although the sign-in that makes the user leaves no link.
GoogleLinked == googled > 1 => linked # NoOne

\* A sign-in ends the process only if the user it found missing was made
\* meanwhile, but for calls that throw.
StopExplained == "known" \notin stopped

\* Users, codes and sign-ins of a mailbox fit together, in each of these ways.
AccountsConsistent ==
  /\ OneUserPerMailbox
  /\ RegistrationCodeInHand
  /\ ResetCodeInHand
  /\ PasswordOnce
  /\ GoogleLinked
  /\ StopExplained
=============================================================================
