---------------------------- MODULE AccountsProofs ----------------------------
(***************************************************************************)
(* The theorems about the accounts (Accounts) and the partners             *)
(* (PartnerLinks), and about the types of all the side components, for     *)
(* every value of the constants.  The invariants are in SideInvariants;    *)
(* those of the other side components are proved in SideComponentsProofs.  *)
(***************************************************************************)
EXTENDS SideComponentsProofs

-----------------------------------------------------------------------------
(* Accounts.                                                               *)

LEMMA AccRest ==
  ASSUME SideAssumption
  PROVE  /\ Accounts!Rest \in AccRequests /\ Accounts!Rest.op = "rest"
         /\ Accounts!Rest.at = "rest" /\ Accounts!Rest.code = 0 /\ Accounts!Rest.there = {}
  BY DEF SideAssumption, Accounts!Rest, Accounts!None, AccRequests

LEMMA AccRestFits == SideAssumption => AccFits(Accounts!Rest)
  BY AccRest DEF AccFits, AccStep, AccLooked, Codewise, Passwise

LEMMA AccFields ==
  ASSUME AccShapes
  PROVE  /\ \A h \in Http : /\ accountRequest[h] \in AccRequests
                            /\ accountRequest[h].code \in 0..Limit
                            /\ accountRequest[h].there \subseteq Emails
         /\ \A e \in Emails : /\ pending[e].code \in 0..Limit /\ pending[e].there = {}
                              /\ pending[e].code = 0 <=> pending[e] = Accounts!NoData
                              /\ changed[e] \in [1..Limit -> Nat]
                              /\ mailed[e] \subseteq 1..Limit
                              /\ sent[e] \in 0..Limit /\ reset[e] \in 0..Limit
<1>1. \A h \in Http : accountRequest[h] \in AccRequests
  BY DEF AccShapes
<1>2. \A e \in Emails : pending[e] \in [code : 0..Limit, there : {{}}]
  BY DEF AccShapes
<1>3. \A e \in Emails : /\ pending[e].code \in 0..Limit /\ pending[e].there = {}
                        /\ pending[e].code = 0 <=> pending[e] = Accounts!NoData
  BY <1>2 DEF Accounts!NoData, Accounts!None
<1> QED
  BY <1>1, <1>3 DEF AccShapes, AccRequests

LEMMA AccGoes ==
  ASSUME AccInv, NEW h \in Http, NEW r \in AccRequests,
         accountRequest' = [accountRequest EXCEPT ![h] = r]
  PROVE  /\ accountRequest' \in [Http -> AccRequests] /\ accountRequest'[h] = r
         /\ \A k \in Http \ {h} : accountRequest'[k] = accountRequest[k]
         /\ /\ r.op = "rest" \/ /\ r.op = accountRequest[h].op
                                /\ r.email = accountRequest[h].email
            /\ accountMet' = accountMet
            => AccAlone'
<1>1. /\ accountRequest' \in [Http -> AccRequests] /\ accountRequest'[h] = r
      /\ \A k \in Http \ {h} : accountRequest'[k] = accountRequest[k]
  BY DEF AccInv, AccShapes
<1> QED
  BY <1>1 DEF AccInv, AccAlone, Codewise, Passwise

\* What a request relies on stays where other addresses, or letters and codes of
\* the other kind, are handled, and where a code expires.
LEMMA AccOthers ==
  ASSUME AccInv, NEW H \in SUBSET Http,
         Accounts!Users \subseteq Accounts!Users', over \subseteq over',
         accountMet \subseteq accountMet', accountBroken \subseteq accountBroken',
         accountSpent' \in Nat, accountSpent <= accountSpent',
         \A e \in Emails :
           /\ \/ \E h \in H : accountRequest[h].op \in Codewise /\ accountRequest[h].email = e
              \/ pending'[e] = pending[e]
              \/ pending'[e].code = 0 /\ pending[e].code \in over'
           /\ \/ \E h \in H : accountRequest[h].op \in Passwise /\ accountRequest[h].email = e
              \/ /\ sent'[e] = sent[e] /\ changed'[e] = changed[e]
                 /\ reset'[e] = reset[e] \/ reset'[e] = 0
  PROVE  \A k \in Http \ H : AccFits(accountRequest[k])'
                             \/ accountRequest'[k] # accountRequest[k]
<1> SUFFICES ASSUME NEW k \in Http \ H, accountRequest'[k] = accountRequest[k]
             PROVE  AccFits(accountRequest[k])'
  OBVIOUS
<1> DEFINE r == accountRequest[k]
<1>1. AccFits(r) /\ accountSpent \in Nat /\ r.code \in Nat
  BY AccFields DEF AccInv, AccShapes
<1>2. r.op # "rest" => r.email \in Emails
  BY <1>1 DEF AccFits, AccStep
<1>3. AccStep(accountRequest[k])'
  BY <1>1 DEF AccFits, AccStep, AccLooked
<1>4. r.op \in Codewise /\ r.email \notin accountMet =>
        \/ pending'[r.email] = pending[r.email]
        \/ pending'[r.email].code = 0 /\ pending[r.email].code \in over'
  BY <1>2 DEF AccInv, AccAlone, Codewise
<1>5. r.op \in Codewise => AccCode(accountRequest[k])'
  BY <1>1, <1>4 DEF AccFits, AccCode
<1>6. r.op \in Passwise /\ r.email \notin accountMet =>
        /\ sent'[r.email] = sent[r.email] /\ changed'[r.email] = changed[r.email]
        /\ reset'[r.email] = reset[r.email] \/ reset'[r.email] = 0
  BY <1>2 DEF AccInv, AccAlone, Passwise
<1>7. r.op \in Passwise => AccPass(accountRequest[k])'
  BY <1>1, <1>6 DEF AccFits, AccPass
<1> QED
  BY <1>3, <1>5, <1>7 DEF AccFits

\* What is said of the reset codes stays where no other is mailed, kept or used.
LEMMA AccSentKept ==
  ASSUME AccShapes, AccSent, AccKept, over \subseteq over', UNCHANGED <<sent, changed>>,
         accountMet \subseteq accountMet', accountBroken \subseteq accountBroken',
         accountSpent' \in Nat, accountSpent <= accountSpent',
         \A e \in Emails : \/ reset'[e] = reset[e]
                           \/ reset'[e] = 0 /\ reset[e] \in over'
  PROVE  AccSent'
<1>1. \A e \in Emails : /\ sent[e] \in Nat
  BY AccFields
<1>2. \A e \in Emails : /\ sent'[e] <= accountSpent'
                        /\ \A n \in 1..Limit : changed'[e][n] > 0 => n <= accountSpent'
  BY <1>1 DEF AccSent, AccShapes
<1>3. ASSUME NEW e \in Emails, e \notin accountMet' \cup accountBroken'
      PROVE  AccSentAt(e)'
  <2>1. AccSentAt(e)
    BY <1>3 DEF AccSent
  <2>2. \A h \in Http : Accounts!Email(h) = e =>
          /\ Accounts!At(h, "forgot", "save") =>
               Accounts!At(h, "forgot", "save")' /\ Accounts!Email(h)' = e
          /\ Accounts!At(h, "reset", "delete") =>
               /\ Accounts!At(h, "reset", "delete")' /\ Accounts!Email(h)' = e
               /\ accountRequest'[h].code = accountRequest[h].code
    BY <1>3 DEF AccKept
  <2>3. sent[e] \in {0, reset[e]} \cup over => sent[e] \in {0, reset'[e]} \cup over'
    OBVIOUS
  <2> QED
    BY <2>1, <2>2, <2>3 DEF AccSentAt
<1> QED
  BY <1>2, <1>3 DEF AccSent

\* A request goes on and nothing else changes.
LEMMA AccOnly ==
  ASSUME AccInv, SideAssumption, NEW h \in Http, NEW r \in AccRequests,
         accountRequest' = [accountRequest EXCEPT ![h] = r], Accounts!Only,
         r.op = "rest" \/ (r.op = accountRequest[h].op /\ r.email = accountRequest[h].email),
         ~Accounts!At(h, "forgot", "save"), ~Accounts!At(h, "reset", "delete"),
         AccFits(r)
  PROVE  AccInv'
<1>1. /\ UNCHANGED <<users, linked, pending, reset, mailed, sent, over, accountMet,
                     accountBroken, changed, googled, stopped, accountSpent>>
  BY DEF Accounts!Only, Accounts!stored, Accounts!history
<1>2. /\ accountRequest' \in [Http -> AccRequests] /\ accountRequest'[h] = r
      /\ \A k \in Http \ {h} : accountRequest'[k] = accountRequest[k]
      /\ AccAlone'
  BY <1>1, AccGoes
<1>3. \A k \in Http : AccFits(accountRequest[k])'
  BY <1>1, <1>2 DEF AccInv, AccFits, AccStep, AccCode, AccPass, Accounts!Users
<1>4. AccShapes' /\ AccMailed' /\ AccMade'
  BY <1>1, <1>2 DEF AccInv, AccShapes, AccMailed, AccMade, Accounts!Users
<1>5. AccSent'
  BY <1>1, <1>2 DEF AccInv, AccSent, AccSentAt, Accounts!At, Accounts!Email
<1> QED
  BY <1>2, <1>3, <1>4, <1>5 DEF AccInv

\* The look-ups.
LEMMA AccLooks ==
  ASSUME AccInv, SideAssumption, NEW h \in Http,
         \/ Accounts!RegisterLooks(h) \/ Accounts!RegisterChecks(h)
         \/ Accounts!ResendGets(h) \/ Accounts!VerifyGets(h) \/ Accounts!ClaimLooks(h)
         \/ Accounts!ForgotLooks(h) \/ Accounts!ResetGets(h) \/ Accounts!GoogleLooks(h)
  PROVE  AccInv'
<1> DEFINE old == accountRequest[h]
           Step(at) == [old EXCEPT !.at = at]
<1>1. /\ AccFits(old) /\ old \in AccRequests /\ old.there \subseteq Accounts!Users
      /\ old.op # "rest" => old.email \in Emails
      /\ Accounts!Rest \in AccRequests /\ Accounts!Rest.op = "rest" /\ AccFits(Accounts!Rest)
  BY AccRest, AccRestFits, AccFields DEF AccInv, AccFits, AccStep
<1>2. \A at \in {"pending", "save", "create", "letter", "change", "link", "register"} :
        /\ Step(at) \in AccRequests /\ Step(at).op = old.op /\ Step(at).at = at
        /\ Step(at).email = old.email /\ Step(at).n = old.n /\ Step(at).code = old.code
        /\ Step(at).there = old.there
  BY <1>1 DEF AccRequests
<1>3. CASE Accounts!End(h) /\ Accounts!Only /\ ~Accounts!At(h, "forgot", "save")
           /\ ~Accounts!At(h, "reset", "delete")
  BY <1>1, <1>3, AccOnly DEF Accounts!End
<1>4. CASE /\ ~Accounts!KnownUser(Accounts!Email(h)) /\ Accounts!Only
           /\ \/ Accounts!At(h, "register", "look") /\ Accounts!Go(h, "pending")
              \/ Accounts!At(h, "claim", "look") /\ Accounts!Go(h, "create")
              \/ Accounts!At(h, "google", "look") /\ Accounts!Go(h, "register")
  <2>1. old.there = {}
    BY <1>1, <1>4 DEF Accounts!KnownUser
  <2>2. PICK at \in {"pending", "create", "register"} :
          /\ accountRequest' = [accountRequest EXCEPT ![h] = Step(at)]
          /\ old.op \in {"register", "claim", "google"}
          /\ at # "save" /\ old.op = "register" => at = "pending"
    BY <1>4 DEF Accounts!Go, Accounts!At
  <2>3. AccFits(Step(at))
    <3> HIDE DEF Step, old
    <3> QED
      BY <1>1, <1>2, <2>1, <2>2 DEF AccFits, AccStep, AccCode, AccLooked, Codewise, Passwise
  <2> HIDE DEF Step
  <2> QED
    BY <1>2, <1>4, <2>2, <2>3, AccOnly DEF Accounts!At
<1>5. CASE /\ Accounts!Only
           /\ \/ /\ Accounts!At(h, "register", "pending") /\ Accounts!Go(h, "save")
                 /\ pending[Accounts!Email(h)] = Accounts!NoData
              \/ /\ Accounts!At(h, "forgot", "look") /\ Accounts!Go(h, "letter")
                 /\ Accounts!KnownUser(Accounts!Email(h))
              \/ /\ Accounts!At(h, "google", "look") /\ Accounts!Go(h, "link")
  <2>1. PICK at \in {"save", "letter", "link"} :
          /\ accountRequest' = [accountRequest EXCEPT ![h] = Step(at)]
          /\ \/ /\ old.op = "register" /\ old.at = "pending" /\ at = "save"
                /\ pending[old.email].code = 0
             \/ old.op = "forgot" /\ at = "letter" /\ Accounts!Users # {}
             \/ old.op = "google" /\ at = "link"
    BY <1>1, <1>5, AccFields DEF Accounts!Go, Accounts!At, Accounts!Email,
       Accounts!KnownUser, AccInv
  <2>2. AccFits(Step(at))
    <3> HIDE DEF Step, old
    <3> QED
      BY <1>1, <1>2, <2>1 DEF AccFits, AccStep, AccCode, AccPass, AccLooked, Codewise, Passwise
  <2> HIDE DEF Step
  <2> QED
    BY <1>2, <1>5, <2>1, <2>2, AccOnly DEF Accounts!At
<1>6. CASE /\ Accounts!At(h, "reset", "get") /\ Accounts!Go(h, "change") /\ Accounts!Only
           /\ reset[Accounts!Email(h)] = old.code
  <2>1. /\ accountRequest' = [accountRequest EXCEPT ![h] = Step("change")]
        /\ old.op = "reset" /\ old.at = "get" /\ reset[old.email] = old.code
        /\ old.code # 0 /\ old.email \in Emails
    BY <1>1, <1>6 DEF Accounts!Go, Accounts!At, Accounts!Email, AccFits, AccStep
  <2>2. old.email \notin accountMet \cup accountBroken => changed[old.email][old.code] = 0
    <3>1. old.code \in 1..Limit /\ changed[old.email] \in [1..Limit -> Nat]
      BY <2>1, AccFields DEF AccInv
    <3>2. old.email \notin accountMet =>
            \A k \in Http : Accounts!At(k, "reset", "delete") => accountRequest[k].email # old.email
      BY <2>1 DEF AccInv, AccAlone, Accounts!At, Passwise
    <3>3. old.email \notin accountMet \cup accountBroken =>
            ~(reset[old.email] # 0 /\ changed[old.email][reset[old.email]] > 0)
      BY <2>1, <3>2 DEF AccInv, AccSent, AccSentAt, Accounts!Email
    <3> QED
      BY <2>1, <3>1, <3>3
  <2>3. AccFits(Step("change"))
    <3> HIDE DEF Step, old
    <3> QED
      BY <1>1, <1>2, <2>1, <2>2 DEF AccFits, AccStep, AccPass, AccLooked, Codewise, Passwise
  <2> HIDE DEF Step
  <2> QED
    BY <1>2, <1>6, <2>1, <2>3, AccOnly DEF Accounts!At
<1>7. CASE \/ /\ Accounts!ResendGets(h) /\ pending[Accounts!Email(h)] # Accounts!NoData
           \/ /\ Accounts!VerifyGets(h) /\ pending[Accounts!Email(h)].code = old.code
  <2> DEFINE new == [old EXCEPT !.at = "letter", !.code = pending[old.email].code]
             got == [old EXCEPT !.at = "delete", !.there = pending[old.email].there]
  <2>1. /\ pending[old.email].code \in 0..Limit /\ pending[old.email].there = {}
        /\ pending[old.email].code = 0 <=> pending[old.email] = Accounts!NoData
        /\ old.op \in {"resend", "verify"} /\ Accounts!Only
    BY <1>1, <1>7, AccFields DEF AccInv, Accounts!ResendGets, Accounts!VerifyGets, Accounts!At
  <2>2. /\ new \in AccRequests /\ new.op = old.op /\ new.at = "letter" /\ new.n = old.n
        /\ new.email = old.email /\ new.code = pending[old.email].code /\ new.there = old.there
        /\ got \in AccRequests /\ got.op = old.op /\ got.at = "delete" /\ got.n = old.n
        /\ got.email = old.email /\ got.code = old.code /\ got.there = {}
    BY <1>1, <2>1 DEF AccRequests
  <2>3. PICK r \in {new, got} :
          /\ accountRequest' = [accountRequest EXCEPT ![h] = r]
          /\ \/ r = new /\ old.op = "resend" /\ pending[old.email].code # 0
             \/ r = got /\ old.op = "verify" /\ pending[old.email].code = old.code
    BY <1>7, <2>1 DEF Accounts!ResendGets, Accounts!VerifyGets, Accounts!At, Accounts!Email
  <2> HIDE DEF new, got, old
  <2>4. AccFits(r)
    BY <1>1, <2>2, <2>3 DEF AccFits, AccStep, AccCode, AccLooked, Codewise, Passwise
  <2> QED
    BY <2>1, <2>2, <2>3, <2>4, AccOnly DEF Accounts!At, old
<1> HIDE DEF Step, old
<1> QED
  BY <1>3, <1>4, <1>5, <1>6, <1>7 DEF Accounts!RegisterLooks, Accounts!RegisterChecks,
     Accounts!ResendGets, Accounts!VerifyGets, Accounts!ClaimLooks, Accounts!ForgotLooks,
     Accounts!ResetGets, Accounts!GoogleLooks, Accounts!At, old

\* A step of a request about a registration, at its address alone.
LEMMA AccCodes ==
  ASSUME AccInv, SideAssumption, NEW h \in Http, NEW r \in AccRequests,
         NEW waits \in 0..Limit, NEW mails \in SUBSET (1..Limit),
         accountRequest' = [accountRequest EXCEPT ![h] = r],
         r.op = "rest" \/ (r.op = accountRequest[h].op /\ r.email = accountRequest[h].email),
         accountRequest[h].op \in Codewise, AccFits(r)',
         pending' = [pending EXCEPT ![accountRequest[h].email] = [code |-> waits, there |-> {}]],
         mailed' = [mailed EXCEPT ![accountRequest[h].email] = mails],
         over \subseteq over', over' \subseteq 1..Limit,
         accountRequest[h].email \notin accountMet =>
           \A n \in mails : waits = n \/ n \in over',
         UNCHANGED <<users, linked, reset, sent, accountMet, accountBroken, changed, googled,
                     stopped, accountSpent>>
  PROVE  AccInv'
<1> DEFINE e == accountRequest[h].email
<1>1. /\ accountRequest' \in [Http -> AccRequests] /\ accountRequest'[h] = r
      /\ \A k \in Http \ {h} : accountRequest'[k] = accountRequest[k]
      /\ AccAlone'
  BY AccGoes
<1>2. e \in Emails /\ accountSpent \in Nat
  BY DEF AccInv, AccFits, AccStep, Codewise, AccShapes
<1>3. /\ pending' \in [Emails -> [code : 0..Limit, there : {{}}]] /\ pending'[e].code = waits
      /\ mailed' \in [Emails -> SUBSET (1..Limit)] /\ mailed'[e] = mails
      /\ \A d \in Emails \ {e} : pending'[d] = pending[d] /\ mailed'[d] = mailed[d]
  BY <1>2 DEF AccInv, AccShapes
<1>4. \A k \in Http : AccFits(accountRequest[k])'
  <2>1. \A k \in Http \ {h} : AccFits(accountRequest[k])'
    <3>1. \A d \in Emails :
            /\ \/ \E k \in {h} : accountRequest[k].op \in Codewise /\ accountRequest[k].email = d
               \/ pending'[d] = pending[d]
               \/ pending'[d].code = 0 /\ pending[d].code \in over'
            /\ \/ \E k \in {h} : accountRequest[k].op \in Passwise /\ accountRequest[k].email = d
               \/ /\ sent'[d] = sent[d] /\ changed'[d] = changed[d]
                  /\ reset'[d] = reset[d] \/ reset'[d] = 0
      BY <1>3
    <3>2. /\ {h} \in SUBSET Http /\ Accounts!Users \subseteq Accounts!Users'
          /\ accountMet \subseteq accountMet' /\ accountBroken \subseteq accountBroken'
          /\ accountSpent' \in Nat /\ accountSpent <= accountSpent'
      BY <1>2 DEF Accounts!Users
    <3>3. \A k \in Http \ {h} : AccFits(accountRequest[k])' \/ accountRequest'[k] # accountRequest[k]
      BY <3>1, <3>2, AccOthers
    <3> QED
      BY <1>1, <3>3
  <2> QED
    BY <1>1, <2>1
<1>5. AccShapes' /\ AccMade'
  BY <1>1, <1>3 DEF AccInv, AccShapes, AccMade, Accounts!Users
<1>6. AccMailed'
  BY <1>3 DEF AccInv, AccMailed
<1>7. AccSent'
  <2>1. \A k \in Http : accountRequest[k].op \in Passwise => accountRequest'[k] = accountRequest[k]
    BY <1>1 DEF Codewise, Passwise
  <2>2. AccKept
    <3>1. \A k \in Http : accountRequest[k].op \in {"forgot", "reset"} => accountRequest'[k] = accountRequest[k]
      BY <2>1 DEF Passwise
    <3> QED
      BY <3>1 DEF AccKept, Accounts!At, Accounts!Email
  <2> QED
    BY <1>2, <2>2, AccSentKept DEF AccInv, AccShapes
<1> QED
  BY <1>1, <1>4, <1>5, <1>6, <1>7 DEF AccInv

LEMMA AccRegisters ==
  ASSUME AccInv, SideAssumption, NEW h \in Http,
         \/ Accounts!RegisterSaves(h) \/ Accounts!RegisterMails(h) \/ Accounts!RegisterUndoes(h)
         \/ Accounts!ResendMails(h) \/ Accounts!VerifyDeletes(h)
  PROVE  AccInv'
<1> DEFINE old == accountRequest[h]
           e == old.email
           Step(at) == [old EXCEPT !.at = at]
<1>1. /\ AccFits(old) /\ old \in AccRequests /\ old.code \in 0..Limit
      /\ e \in Emails /\ old.n \in 1..accountSpent /\ accountSpent \in 0..Limit
      /\ Limit \in Nat /\ old.op \in Codewise
      /\ pending[e].code \in 0..Limit /\ pending[e].there = {} /\ mailed[e] \subseteq 1..Limit
      /\ pending[e] = [code |-> pending[e].code, there |-> {}]
      /\ over \subseteq 1..Limit
  <2>1. /\ AccFits(old) /\ old \in AccRequests /\ old.code \in 0..Limit
        /\ old.op \in Codewise /\ accountSpent \in 0..Limit /\ over \subseteq 1..Limit
    BY AccFields DEF AccInv, AccShapes, Codewise, Accounts!RegisterSaves,
       Accounts!RegisterMails, Accounts!RegisterUndoes, Accounts!ResendMails,
       Accounts!VerifyDeletes, Accounts!At
  <2>2. e \in Emails /\ old.n \in 1..accountSpent
    BY <2>1 DEF AccFits, AccStep, Codewise
  <2>3. pending[e] \in [code : 0..Limit, there : {{}}] /\ mailed[e] \subseteq 1..Limit
    BY <2>2 DEF AccInv, AccShapes
  <2> QED
    BY <2>1, <2>2, <2>3 DEF SideAssumption
<1>2. old.n \in 1..Limit /\ 0 \in 0..Limit /\ old.n \in 0..Limit
  BY <1>1
<1>3. \A at \in {"letter", "create"} :
        /\ Step(at) \in AccRequests /\ Step(at).op = old.op /\ Step(at).at = at
        /\ Step(at).email = e /\ Step(at).n = old.n /\ Step(at).code = old.code
        /\ Step(at).there = old.there
  BY <1>1 DEF AccRequests
<1>4. UNCHANGED <<users, linked, reset, sent, accountMet, accountBroken, changed, googled,
                  stopped, accountSpent>>
  BY DEF Accounts!RegisterSaves, Accounts!RegisterMails, Accounts!RegisterUndoes,
     Accounts!ResendMails, Accounts!VerifyDeletes, Accounts!history, Accounts!stored
<1>5. CASE Accounts!RegisterSaves(h)
  <2>1. PICK r \in AccRequests :
          /\ r = Step("letter") /\ r.op = "register" /\ r.at = "letter" /\ r.email = e
          /\ r.n = old.n /\ r.code = old.code /\ r.there = {}
          /\ old.op = "register" /\ old.at = "save" /\ old.there = {}
    BY <1>1, <1>3, <1>5 DEF Accounts!RegisterSaves, Accounts!At, AccFits, AccStep, AccLooked
  <2>2. /\ accountRequest' = [accountRequest EXCEPT ![h] = r] /\ UNCHANGED <<mailed, over>>
        /\ pending' = [pending EXCEPT ![e] = [code |-> old.n, there |-> {}]]
        /\ mailed' = [mailed EXCEPT ![e] = mailed[e]]
    <3>1. mailed = [mailed EXCEPT ![e] = mailed[e]]
      BY <1>1 DEF AccInv, AccShapes
    <3> QED
      BY <1>1, <1>5, <2>1, <3>1 DEF Accounts!RegisterSaves, Accounts!Email, Accounts!Go,
         Accounts!history
  <2>3. pending'[e].code = old.n
    BY <1>1, <2>2 DEF AccInv, AccShapes
  <2>4. e \notin accountMet => \A n \in mailed[e] : old.n = n \/ n \in over'
    BY <1>1, <2>1, <2>2 DEF AccInv, AccMailed, AccFits, AccCode, Codewise
  <2> HIDE DEF Step, old, e
  <2>5. AccFits(r)'
    BY <1>1, <1>4, <2>1, <2>3 DEF AccFits, AccStep, AccCode, AccLooked, Codewise, Passwise
  <2> QED
    BY <1>1, <1>2, <1>4, <2>1, <2>2, <2>4, <2>5, AccCodes DEF old, e
<1>6. CASE Accounts!RegisterMails(h) \/ Accounts!ResendMails(h)
  <2>1. PICK n \in 1..Limit :
          /\ mailed' = [mailed EXCEPT ![e] = @ \cup {n}] /\ UNCHANGED <<pending, over>>
          /\ accountRequest' = [accountRequest EXCEPT ![h] = Accounts!Rest]
          /\ e \notin accountMet => pending[e].code = n \/ n \in over
    <3>1. CASE Accounts!RegisterMails(h)
      BY <1>1, <1>2, <3>1 DEF Accounts!RegisterMails, Accounts!At, Accounts!Email,
         Accounts!End, Accounts!stored, AccFits, AccCode, Codewise
    <3>2. CASE Accounts!ResendMails(h)
      <4>1. old.code \in 1..Limit
        BY <1>1, <3>2 DEF Accounts!ResendMails, Accounts!At, AccFits, AccStep
      <4> QED
        BY <1>1, <3>2, <4>1 DEF Accounts!ResendMails, Accounts!At, Accounts!Email,
           Accounts!End, Accounts!stored, AccFits, AccCode, Codewise
    <3> QED
      BY <1>6, <3>1, <3>2
  <2>2. /\ pending' = [pending EXCEPT ![e] = [code |-> pending[e].code, there |-> {}]]
        /\ mailed' = [mailed EXCEPT ![e] = mailed[e] \cup {n}]
        /\ mailed[e] \cup {n} \in SUBSET (1..Limit)
    BY <1>1, <2>1 DEF AccInv, AccShapes
  <2>3. e \notin accountMet =>
          \A m \in mailed[e] \cup {n} : pending[e].code = m \/ m \in over'
    BY <1>1, <2>1 DEF AccInv, AccMailed
  <2>4. AccFits(Accounts!Rest)' /\ Accounts!Rest \in AccRequests /\ Accounts!Rest.op = "rest"
    BY AccRest DEF AccFits, AccStep, AccLooked, Codewise, Passwise
  <2> HIDE DEF Step
  <2> QED
    BY <1>1, <1>4, <2>1, <2>2, <2>3, <2>4, AccCodes
<1>7. CASE Accounts!RegisterUndoes(h) \/ Accounts!VerifyDeletes(h)
  <2>1. PICK n \in 1..Limit, r \in {Accounts!Rest, Step("create")} :
          /\ over' = over \cup {n} /\ UNCHANGED mailed
          /\ accountRequest' = [accountRequest EXCEPT ![h] = r]
          /\ e \notin accountMet => pending[e].code \in {0, n}
          /\ pending' = [pending EXCEPT ![e] = Accounts!NoData]
          /\ r = Step("create") => old.op = "verify" /\ old.at = "delete"
    <3>1. CASE Accounts!RegisterUndoes(h)
      <4>1. old.op = "register" /\ old.at = "undo" /\ Accounts!Rest # Step("create")
        BY <1>3, <3>1, AccRest DEF Accounts!RegisterUndoes, Accounts!At
      <4>2. e \notin accountMet => pending[e].code \in {0, old.n}
        BY <1>1, <4>1 DEF AccFits, AccCode, Codewise
      <4>3. /\ over' = over \cup {old.n} /\ UNCHANGED mailed
            /\ accountRequest' = [accountRequest EXCEPT ![h] = Accounts!Rest]
            /\ pending' = [pending EXCEPT ![e] = Accounts!NoData]
        BY <3>1 DEF Accounts!RegisterUndoes, Accounts!Email, Accounts!End
      <4> QED
        BY <1>2, <4>1, <4>2, <4>3
    <3>2. CASE Accounts!VerifyDeletes(h)
      <4>1. old.code \in 1..Limit
        BY <1>1, <3>2 DEF Accounts!VerifyDeletes, Accounts!At, AccFits, AccStep
      <4> QED
        BY <1>1, <3>2, <4>1 DEF Accounts!VerifyDeletes, Accounts!At, Accounts!Email,
           Accounts!Go, AccFits, AccCode, Codewise
    <3> QED
      BY <1>7, <3>1, <3>2
  <2>2. /\ pending' = [pending EXCEPT ![e] = [code |-> 0, there |-> {}]]
        /\ mailed' = [mailed EXCEPT ![e] = mailed[e]]
        /\ over \subseteq over' /\ over' \subseteq 1..Limit
    BY <1>1, <2>1 DEF AccInv, AccShapes, Accounts!NoData, Accounts!None
  <2>3. e \notin accountMet => \A m \in mailed[e] : 0 = m \/ m \in over'
    BY <1>1, <2>1 DEF AccInv, AccMailed
  <2> HIDE DEF Step, old, e
  <2>4. AccFits(r)' /\ r \in AccRequests /\ (r.op = "rest" \/ (r.op = old.op /\ r.email = e))
    <3>1. CASE r = Accounts!Rest
      BY <3>1, AccRest DEF AccFits, AccStep, AccLooked, Codewise, Passwise
    <3>2. CASE r = Step("create") /\ old.op = "verify" /\ old.at = "delete"
      BY <1>1, <1>3, <1>4, <3>2 DEF AccFits, AccStep, AccCode, AccLooked, Codewise,
         Passwise, Accounts!Users
    <3> QED
      BY <2>1, <3>1, <3>2
  <2> QED
    BY <1>1, <1>2, <1>4, <2>1, <2>2, <2>3, <2>4, AccCodes DEF old, e
<1> QED
  BY <1>5, <1>6, <1>7

\* A step that ends its request and leaves the codes alone.
LEMMA AccEnds ==
  ASSUME AccInv, SideAssumption, NEW h \in Http, Accounts!End(h),
         ~Accounts!At(h, "forgot", "save"), ~Accounts!At(h, "reset", "delete"),
         UNCHANGED <<pending, reset, mailed, sent, over, accountMet, accountBroken, changed,
                     accountSpent>>,
         Accounts!Users \subseteq Accounts!Users', Accounts!Users' \subseteq Emails,
         users' \in [Accounts!Users' -> AccUsers],
         linked' \in Accounts!Users' \cup {Accounts!NoOne}, googled' \in Nat, AccMade'
  PROVE  AccInv'
<1>1. /\ Accounts!Rest \in AccRequests /\ Accounts!Rest.op = "rest"
      /\ accountRequest' = [accountRequest EXCEPT ![h] = Accounts!Rest]
  BY AccRest DEF Accounts!End
<1>2. /\ accountRequest' \in [Http -> AccRequests] /\ accountRequest'[h] = Accounts!Rest
      /\ \A k \in Http \ {h} : accountRequest'[k] = accountRequest[k]
      /\ AccAlone'
  BY <1>1, AccGoes
<1>3. accountSpent \in Nat
  BY DEF AccInv, AccShapes
<1>4. \A k \in Http : AccFits(accountRequest[k])'
  <2>1. \A k \in Http \ {} : AccFits(accountRequest[k])' \/ accountRequest'[k] # accountRequest[k]
    <3>1. \A e \in Emails : pending'[e] = pending[e] /\ sent'[e] = sent[e]
                              /\ changed'[e] = changed[e] /\ reset'[e] = reset[e]
      OBVIOUS
    <3>2. {} \in SUBSET Http /\ accountSpent' \in Nat /\ accountSpent <= accountSpent'
          /\ over \subseteq over'
          /\ accountMet \subseteq accountMet' /\ accountBroken \subseteq accountBroken'
      BY <1>3
    <3> QED
      BY <3>1, <3>2, AccOthers
  <2>2. AccFits(accountRequest[h])'
    BY <1>1, <1>2, AccRest DEF AccFits, AccStep, AccLooked, Codewise, Passwise
  <2> QED
    BY <1>2, <2>1, <2>2
<1>5. AccShapes'
  BY <1>2 DEF AccInv, AccShapes
<1>6. AccMailed'
  BY DEF AccInv, AccMailed
<1>7. AccKept
  BY <1>2 DEF AccKept, Accounts!At, Accounts!Email
<1>8. AccSent'
  BY <1>3, <1>7, AccSentKept DEF AccInv
<1> QED
  BY <1>2, <1>4, <1>5, <1>6, <1>8 DEF AccInv

\* A user that is made was found missing, unless an administrator makes it.
LEMMA AccMakes ==
  ASSUME AccInv, NEW h \in Http, NEW password \in 0..Limit,
         \/ /\ accountRequest[h].op \in {"verify", "claim", "staff"}
            /\ accountRequest[h].at = "create"
         \/ accountRequest[h].op = "google" /\ accountRequest[h].at = "register",
         Accounts!SaveUser(Accounts!Email(h), password, accountRequest[h].op,
                           accountRequest[h].there)
  PROVE  /\ Accounts!Users' = Accounts!Users \cup {accountRequest[h].email}
         /\ Accounts!Users' \subseteq Emails /\ users' \in [Accounts!Users' -> AccUsers]
         /\ \A e \in Accounts!Users' : users'[e].by # "staff" => users'[e].there = {}
<1> DEFINE old == accountRequest[h]
           new == [password |-> password, by |-> old.op, there |-> old.there]
<1>1. /\ old.email \in Emails /\ old.there \subseteq Emails
      /\ old.op # "staff" => old.there = {}
  <2>1. AccStep(old)
    BY DEF AccInv, AccFits
  <2>2. old.there \subseteq Emails
    BY AccFields DEF AccInv
  <2>3. old.email \in Emails
    BY <2>1 DEF AccStep
  <2>4. old.op # "staff" => AccLooked(old)
    BY DEF AccLooked
  <2> QED
    BY <2>1, <2>2, <2>3, <2>4 DEF AccStep
<1>2. new \in AccUsers /\ (new.by # "staff" => new.there = {})
  BY <1>1 DEF AccUsers
<1>3. users' = [e \in Accounts!Users \cup {old.email} |-> IF e = old.email THEN new ELSE users[e]]
  BY DEF Accounts!SaveUser, Accounts!Email
<1>4. /\ Accounts!Users \subseteq Emails /\ users \in [Accounts!Users -> AccUsers]
      /\ \A e \in Accounts!Users : users[e].by # "staff" => users[e].there = {}
  BY DEF AccInv, AccShapes, AccMade
<1> HIDE DEF new, old
<1>5. Accounts!Users' = Accounts!Users \cup {old.email}
  BY <1>3 DEF Accounts!Users
<1> QED
  BY <1>1, <1>2, <1>3, <1>4, <1>5 DEF old

LEMMA AccCreates ==
  ASSUME AccInv, SideAssumption, NEW h \in Http,
         Accounts!VerifyCreates(h) \/ Accounts!ClaimOrStaffCreates(h)
  PROVE  AccInv'
<1> DEFINE old == accountRequest[h]
<1>1. PICK password \in {old.code, old.n} : Accounts!Creates(h, password)
  BY DEF Accounts!VerifyCreates, Accounts!ClaimOrStaffCreates
<1>2. /\ old.op \in {"verify", "claim", "staff"} /\ old.at = "create" /\ Accounts!End(h)
      /\ UNCHANGED <<linked, pending, reset, mailed, sent, over, accountMet, accountBroken,
                     changed, googled, stopped, accountSpent>>
  BY <1>1 DEF Accounts!VerifyCreates, Accounts!ClaimOrStaffCreates, Accounts!Creates,
     Accounts!history
<1>3. password \in 0..Limit
  <2>1. old.n \in 1..accountSpent
    BY <1>2 DEF AccInv, AccFits, AccStep
  <2>2. old.code \in 0..Limit /\ accountSpent \in 0..Limit /\ Limit \in Nat
    BY AccFields DEF AccInv, AccShapes, SideAssumption
  <2> QED
    BY <1>1, <2>1, <2>2
<1>4. /\ ~Accounts!At(h, "forgot", "save") /\ ~Accounts!At(h, "reset", "delete")
      /\ Accounts!Users \subseteq Emails /\ users \in [Accounts!Users -> AccUsers]
      /\ linked \in Accounts!Users \cup {Accounts!NoOne} /\ googled \in Nat /\ AccMade
  BY <1>2 DEF AccInv, AccShapes, Accounts!At
<1>5. CASE UNCHANGED users
  <2>1. Accounts!Users' = Accounts!Users
    BY <1>5 DEF Accounts!Users
  <2>2. AccMade'
    BY <1>2, <1>4, <1>5, <2>1 DEF AccMade
  <2> QED
    BY <1>2, <1>4, <1>5, <2>1, <2>2, AccEnds
<1>6. CASE Accounts!SaveUser(Accounts!Email(h), password, old.op, old.there)
  <2>1. /\ Accounts!Users \subseteq Accounts!Users'
        /\ Accounts!Users' \subseteq Emails /\ users' \in [Accounts!Users' -> AccUsers]
        /\ \A e \in Accounts!Users' : users'[e].by # "staff" => users'[e].there = {}
    BY <1>2, <1>3, <1>6, AccMakes
  <2>2. AccMade'
    BY <1>2, <1>4, <2>1 DEF AccMade
  <2> QED
    BY <1>2, <1>4, <2>1, <2>2, AccEnds
<1> QED
  BY <1>1, <1>5, <1>6 DEF Accounts!Creates

\* A step of a request about a password, at its address alone.
LEMMA AccPasses ==
  ASSUME AccInv, SideAssumption, NEW h \in Http, NEW r, NEW last, NEW kept, NEW times,
         AccPassStep(h, r, last, kept, times), AccFits(r)'
  PROVE  AccInv'
<1> SUFFICES ASSUME NEW e, e = accountRequest[h].email
             PROVE  AccInv'
  OBVIOUS
<1>0. /\ accountRequest[h].op \in Passwise /\ r \in AccRequests
      /\ accountRequest' = [accountRequest EXCEPT ![h] = r]
      /\ r.op = "rest" \/ (r.op = accountRequest[h].op /\ r.email = e)
      /\ last \in 0..Limit /\ kept \in 0..Limit /\ times \in [1..Limit -> Nat]
      /\ sent' = [sent EXCEPT ![e] = last] /\ reset' = [reset EXCEPT ![e] = kept]
      /\ changed' = [changed EXCEPT ![e] = times]
      /\ over \subseteq over' /\ over' \subseteq 1..Limit
      /\ users' \in [Accounts!Users -> AccUsers]
      /\ \A d \in Accounts!Users : users'[d].there = users[d].there /\ users'[d].by = users[d].by
      /\ last <= accountSpent /\ \A n \in 1..Limit : times[n] > 0 => n <= accountSpent
      /\ kept # 0 => Accounts!Users # {}
      /\ e \notin accountMet \cup accountBroken =>
           /\ last \in {0, kept} \cup over' \/ (r.op = "forgot" /\ r.at = "save")
           /\ \A n \in 1..Limit : times[n] < 2
           /\ kept # 0 /\ times[kept] > 0 => r.op = "reset" /\ r.at = "delete" /\ r.code = kept
      /\ UNCHANGED <<linked, pending, mailed, accountMet, accountBroken, googled, stopped,
                     accountSpent>>
  BY DEF AccPassStep
<1> USE <1>0
<1>1. /\ accountRequest' \in [Http -> AccRequests] /\ accountRequest'[h] = r
      /\ \A k \in Http \ {h} : accountRequest'[k] = accountRequest[k]
      /\ AccAlone'
  BY AccGoes
<1>2. e \in Emails /\ accountSpent \in Nat
  <2>1. AccStep(accountRequest[h]) /\ accountRequest[h].op \in Passwise
    BY DEF AccInv, AccFits
  <2>2. accountSpent \in Nat
    BY DEF AccInv, AccShapes
  <2> HIDE <1>0
  <2> QED
    BY <2>1, <2>2 DEF AccStep, Passwise
<1>3. /\ sent' \in [Emails -> 0..Limit] /\ sent'[e] = last
      /\ reset' \in [Emails -> 0..Limit] /\ reset'[e] = kept
      /\ changed' \in [Emails -> [1..Limit -> Nat]] /\ changed'[e] = times
      /\ \A d \in Emails \ {e} : /\ sent'[d] = sent[d] /\ reset'[d] = reset[d]
                                 /\ changed'[d] = changed[d]
  BY <1>2 DEF AccInv, AccShapes
<1>4. Accounts!Users' = Accounts!Users
  BY DEF Accounts!Users
<1>5. \A k \in Http : AccFits(accountRequest[k])'
  <2>1. \A d \in Emails :
          /\ pending'[d] = pending[d]
          /\ \/ \E k \in {h} : accountRequest[k].op \in Passwise /\ accountRequest[k].email = d
             \/ sent'[d] = sent[d] /\ changed'[d] = changed[d] /\ reset'[d] = reset[d]
    BY <1>3
  <2>2. /\ Accounts!Users \subseteq Accounts!Users' /\ {h} \in SUBSET Http
        /\ accountSpent' \in Nat /\ accountSpent <= accountSpent'
        /\ accountMet \subseteq accountMet' /\ accountBroken \subseteq accountBroken'
    BY <1>2, <1>4
  <2>3. \A k \in Http \ {h} : AccFits(accountRequest[k])' \/ accountRequest'[k] # accountRequest[k]
    BY <2>1, <2>2, AccOthers
  <2> QED
    BY <1>1, <2>3
<1>6. AccShapes'
  BY <1>1, <1>3, <1>4 DEF AccInv, AccShapes
<1>7. AccMailed'
  BY DEF AccInv, AccMailed
<1>8. AccMade'
  <2>1. \A d \in Emails : reset'[d] # 0 => Accounts!Users # {}
    BY <1>3 DEF AccInv, AccMade
  <2> QED
    BY <1>4, <2>1 DEF AccInv, AccMade
<1>9. AccSent'
  <2>1. ASSUME NEW d \in Emails \ {e}
        PROVE  /\ sent'[d] <= accountSpent'
               /\ \A n \in 1..Limit : changed'[d][n] > 0 => n <= accountSpent'
               /\ d \notin accountMet' \cup accountBroken' => AccSentAt(d)'
    <3>1. sent'[d] = sent[d] /\ reset'[d] = reset[d] /\ changed'[d] = changed[d]
      BY <1>3
    <3>2. \A k \in Http : accountRequest[k].email = d => accountRequest'[k] = accountRequest[k]
      BY <1>1
    <3>3. d \notin accountMet \cup accountBroken => AccSentAt(d)
      BY DEF AccInv, AccSent
    <3>4. AccSentAt(d) => AccSentAt(d)'
      BY <3>1, <3>2 DEF AccSentAt, Accounts!At, Accounts!Email
    <3>5. /\ sent[d] <= accountSpent
          /\ \A n \in 1..Limit : changed[d][n] > 0 => n <= accountSpent
      BY DEF AccInv, AccSent
    <3> QED
      BY <3>1, <3>3, <3>4, <3>5
  <2>2. /\ sent'[e] <= accountSpent'
        /\ \A n \in 1..Limit : changed'[e][n] > 0 => n <= accountSpent'
        /\ e \notin accountMet' \cup accountBroken' =>
             /\ \/ sent'[e] \in {0, reset'[e]} \cup over'
                \/ Accounts!At(h, "forgot", "save")' /\ Accounts!Email(h)' = e
             /\ \A n \in 1..Limit : changed'[e][n] < 2
             /\ reset'[e] # 0 /\ changed'[e][reset'[e]] > 0 =>
                  /\ Accounts!At(h, "reset", "delete")' /\ Accounts!Email(h)' = e
                  /\ accountRequest'[h].code = reset'[e]
    BY <1>1, <1>3 DEF Accounts!At, Accounts!Email
  <2> HIDE <1>0
  <2>3. e \notin accountMet' \cup accountBroken' => AccSentAt(e)'
    BY <2>2 DEF AccSentAt
  <2> QED
    BY <2>1, <2>2, <2>3 DEF AccSent
<1> QED
  BY <1>1, <1>5, <1>6, <1>7, <1>8, <1>9 DEF AccInv

\* What a step of such a request finds where it met no other.
LEMMA AccFound ==
  ASSUME AccInv, SideAssumption, NEW h \in Http, accountRequest[h].op \in Passwise,
         NEW e, e = accountRequest[h].email
  PROVE  /\ accountRequest[h] \in AccRequests /\ AccFits(accountRequest[h])
         /\ e \in Emails /\ accountRequest[h].n \in 1..accountSpent
         /\ accountSpent \in 0..Limit /\ Limit \in Nat /\ accountRequest[h].n \in 1..Limit
         /\ accountRequest[h].op = "reset" =>
              accountRequest[h].code \in 1..accountSpent /\ accountRequest[h].code \in 1..Limit
         /\ sent = [sent EXCEPT ![e] = sent[e]] /\ sent[e] \in 0..Limit /\ sent[e] <= accountSpent
         /\ reset = [reset EXCEPT ![e] = reset[e]] /\ reset[e] \in 0..Limit
         /\ changed = [changed EXCEPT ![e] = changed[e]] /\ changed[e] \in [1..Limit -> Nat]
         /\ \A n \in 1..Limit : changed[e][n] > 0 => n <= accountSpent
         /\ reset[e] # 0 => Accounts!Users # {}
         /\ users \in [Accounts!Users -> AccUsers] /\ over \subseteq 1..Limit
         /\ e \notin accountMet \cup accountBroken =>
              /\ AccPass(accountRequest[h])
              /\ sent[e] \in {0, reset[e]} \cup over \/ Accounts!At(h, "forgot", "save")
              /\ \A n \in 1..Limit : changed[e][n] < 2
              /\ reset[e] # 0 /\ changed[e][reset[e]] > 0 =>
                   accountRequest[h].op = "reset" /\ accountRequest[h].at = "delete"
<1>1. /\ accountRequest[h] \in AccRequests /\ AccStep(accountRequest[h])
      /\ AccPass(accountRequest[h]) /\ AccFits(accountRequest[h])
      /\ accountSpent \in 0..Limit /\ Limit \in Nat /\ accountRequest[h].code \in 0..Limit
  BY AccFields DEF AccInv, AccShapes, SideAssumption, AccFits
<1>2. /\ e \in Emails /\ accountRequest[h].n \in 1..accountSpent
      /\ accountRequest[h].op = "reset" =>
           accountRequest[h].code # 0 /\ accountRequest[h].code <= accountSpent
  BY <1>1 DEF AccStep, Passwise
<1>3. /\ sent \in [Emails -> 0..Limit] /\ reset \in [Emails -> 0..Limit]
      /\ changed \in [Emails -> [1..Limit -> Nat]]
      /\ users \in [Accounts!Users -> AccUsers] /\ over \subseteq 1..Limit
  BY DEF AccInv, AccShapes
<1>4. /\ sent[e] <= accountSpent /\ \A n \in 1..Limit : changed[e][n] > 0 => n <= accountSpent
      /\ reset[e] # 0 => Accounts!Users # {}
  BY <1>2 DEF AccInv, AccSent, AccMade
<1>5. ASSUME e \notin accountMet \cup accountBroken
      PROVE  /\ sent[e] \in {0, reset[e]} \cup over \/ Accounts!At(h, "forgot", "save")
             /\ \A n \in 1..Limit : changed[e][n] < 2
             /\ reset[e] # 0 /\ changed[e][reset[e]] > 0 =>
                  accountRequest[h].op = "reset" /\ accountRequest[h].at = "delete"
  <2>1. \A k \in Http : /\ Accounts!At(k, "forgot", "save") \/ Accounts!At(k, "reset", "delete")
                        /\ Accounts!Email(k) = e
                        => k = h
    BY <1>5 DEF AccInv, AccAlone, Passwise, Accounts!At, Accounts!Email
  <2>2. AccSentAt(e)
    BY <1>2, <1>5 DEF AccInv, AccSent
  <2>3. /\ sent[e] \in {0, reset[e]} \cup over \/ Accounts!At(h, "forgot", "save")
        /\ reset[e] # 0 /\ changed[e][reset[e]] > 0 => Accounts!At(h, "reset", "delete")
    BY <2>1, <2>2 DEF AccSentAt
  <2> QED
    BY <2>2, <2>3 DEF AccSentAt, Accounts!At
<1>6. /\ sent = [sent EXCEPT ![e] = sent[e]] /\ sent[e] \in 0..Limit
      /\ reset = [reset EXCEPT ![e] = reset[e]] /\ reset[e] \in 0..Limit
      /\ changed = [changed EXCEPT ![e] = changed[e]] /\ changed[e] \in [1..Limit -> Nat]
  BY <1>2, <1>3
<1>7. /\ accountRequest[h].n \in 1..Limit
      /\ accountRequest[h].op = "reset" =>
           accountRequest[h].code \in 1..accountSpent /\ accountRequest[h].code \in 1..Limit
  BY <1>1, <1>2
<1> QED
  BY <1>1, <1>2, <1>3, <1>4, <1>5, <1>6, <1>7

LEMMA AccForgets ==
  ASSUME AccInv, SideAssumption, NEW h \in Http,
         \/ Accounts!ForgotMails(h) \/ Accounts!ForgotSaves(h) \/ Accounts!ResetChanges(h)
         \/ Accounts!ResetDeletes(h)
  PROVE  AccInv'
<1> DEFINE old == accountRequest[h]
           e == old.email
           Step(at) == [old EXCEPT !.at = at]
<1>1. old.op \in Passwise
  BY DEF Passwise, Accounts!ForgotMails, Accounts!ForgotSaves, Accounts!ResetChanges,
     Accounts!ResetDeletes, Accounts!At
<1>2. /\ old \in AccRequests /\ AccFits(old) /\ e \in Emails
      /\ old.n \in 1..accountSpent /\ accountSpent \in 0..Limit /\ Limit \in Nat /\ old.n \in 1..Limit
      /\ old.op = "reset" => old.code \in 1..accountSpent /\ old.code \in 1..Limit
      /\ sent = [sent EXCEPT ![e] = sent[e]] /\ sent[e] \in 0..Limit /\ sent[e] <= accountSpent
      /\ reset = [reset EXCEPT ![e] = reset[e]] /\ reset[e] \in 0..Limit
      /\ changed = [changed EXCEPT ![e] = changed[e]] /\ changed[e] \in [1..Limit -> Nat]
      /\ \A n \in 1..Limit : changed[e][n] > 0 => n <= accountSpent
      /\ reset[e] # 0 => Accounts!Users # {}
      /\ users \in [Accounts!Users -> AccUsers] /\ over \subseteq 1..Limit
  BY <1>1, AccFound
<1>3. e \notin accountMet \cup accountBroken =>
        /\ AccPass(old)
        /\ sent[e] \in {0, reset[e]} \cup over \/ Accounts!At(h, "forgot", "save")
        /\ \A n \in 1..Limit : changed[e][n] < 2
        /\ reset[e] # 0 /\ changed[e][reset[e]] > 0 => old.op = "reset" /\ old.at = "delete"
  BY <1>1, AccFound
<1>4. \A at \in {"save", "delete"} :
        /\ Step(at) \in AccRequests /\ Step(at).op = old.op /\ Step(at).at = at
        /\ Step(at).email = e /\ Step(at).n = old.n /\ Step(at).code = old.code
        /\ Step(at).there = old.there
  BY <1>2 DEF AccRequests
<1>5. /\ AccFits(Accounts!Rest)' /\ Accounts!Rest \in AccRequests /\ Accounts!Rest.op = "rest"
      /\ Accounts!Rest.op # "forgot" /\ AccFits(Accounts!Rest)
  BY AccRest, AccRestFits DEF AccFits, AccStep, AccLooked, Codewise, Passwise
<1>6. CASE Accounts!ForgotMails(h)
  <2>1. PICK r \in AccRequests :
          /\ r = Step("save") /\ r.op = "forgot" /\ r.at = "save" /\ r.email = e /\ r.n = old.n
          /\ r.code = old.code /\ r.there = old.there
          /\ old.op = "forgot" /\ old.at = "letter"
    BY <1>2, <1>4, <1>6 DEF Accounts!ForgotMails, Accounts!At
  <2>2. /\ accountRequest' = [accountRequest EXCEPT ![h] = r]
        /\ sent' = [sent EXCEPT ![e] = old.n]
        /\ UNCHANGED <<users, linked, pending, reset, mailed, over, accountMet, accountBroken,
                       changed, googled, stopped, accountSpent>>
    BY <1>6, <2>1 DEF Accounts!ForgotMails, Accounts!Email, Accounts!Go, Accounts!stored
  <2>3. sent'[e] = old.n
    BY <1>2, <2>2 DEF AccInv, AccShapes
  <2> HIDE DEF Step, old, e
  <2>4. AccFits(r)'
    <3>1. AccStep(r)'
      BY <1>2, <2>1, <2>2 DEF AccFits, AccStep, AccLooked, Accounts!Users
    <3>2. AccPass(r)'
      <4>1. e \notin accountMet \cup accountBroken => changed[e][old.n] = 0
        BY <1>3, <2>1 DEF AccPass, e
      <4> QED
        BY <2>1, <2>2, <2>3, <4>1 DEF AccPass
    <3> QED
      BY <2>1, <3>1, <3>2 DEF AccFits, Codewise
  <2>5. /\ reset' = [reset EXCEPT ![e] = reset[e]]
        /\ changed' = [changed EXCEPT ![e] = changed[e]]
        /\ over \subseteq over' /\ over' \subseteq 1..Limit
        /\ users' \in [Accounts!Users -> AccUsers] /\ users' = users
        /\ old.n <= accountSpent /\ old.n \in 0..Limit
    BY <1>2, <2>2
  <2>6. e \notin accountMet \cup accountBroken =>
          /\ \A n \in 1..Limit : changed[e][n] < 2
          /\ ~(reset[e] # 0 /\ changed[e][reset[e]] > 0)
    BY <1>3, <2>1
  <2>7. AccPassStep(h, r, old.n, reset[e], changed[e])
    BY <1>1, <1>2, <2>1, <2>2, <2>5, <2>6 DEF old, e, AccPassStep
  <2> QED
    BY <2>4, <2>7, AccPasses
<1>7. CASE Accounts!ForgotSaves(h)
  <2>1. /\ accountRequest' = [accountRequest EXCEPT ![h] = Accounts!Rest]
        /\ reset' = [reset EXCEPT ![e] = old.n] /\ old.op = "forgot" /\ old.at = "save"
        /\ UNCHANGED <<users, linked, pending, sent, mailed, over, accountMet, accountBroken,
                       changed, googled, stopped, accountSpent>>
    BY <1>7 DEF Accounts!ForgotSaves, Accounts!Email, Accounts!End, Accounts!At,
       Accounts!history
  <2>2. Accounts!Users # {}
    BY <1>2, <2>1 DEF AccFits, AccStep
  <2>3. e \notin accountMet \cup accountBroken => sent[e] = old.n /\ changed[e][old.n] = 0
    BY <1>3, <2>1 DEF AccPass
  <2>4. /\ sent' = [sent EXCEPT ![e] = sent[e]]
        /\ changed' = [changed EXCEPT ![e] = changed[e]]
        /\ over \subseteq over' /\ over' \subseteq 1..Limit
        /\ users' \in [Accounts!Users -> AccUsers] /\ users' = users
        /\ old.n \in 0..Limit
    BY <1>2, <2>1
  <2>5. e \notin accountMet \cup accountBroken =>
          /\ \A n \in 1..Limit : changed[e][n] < 2
          /\ sent[e] \in {0, old.n} \cup over' /\ ~(changed[e][old.n] > 0)
    BY <1>3, <2>3
  <2>6. AccPassStep(h, Accounts!Rest, sent[e], old.n, changed[e])
    BY <1>1, <1>2, <1>5, <2>1, <2>2, <2>4, <2>5 DEF AccPassStep
  <2> QED
    BY <1>5, <2>6, AccPasses
<1>8. CASE Accounts!ResetChanges(h) /\ Accounts!Email(h) \in Accounts!Users
  <2> DEFINE times == [changed[e] EXCEPT ![old.code] = @ + 1]
  <2>1. PICK r \in AccRequests :
          /\ r = Step("delete") /\ r.op = "reset" /\ r.at = "delete" /\ r.email = e /\ r.n = old.n
          /\ r.code = old.code /\ r.there = old.there
          /\ old.op = "reset" /\ old.at = "change"
    BY <1>2, <1>4, <1>8 DEF Accounts!ResetChanges, Accounts!At
  <2>2. /\ accountRequest' = [accountRequest EXCEPT ![h] = r]
        /\ users' = [users EXCEPT ![e].password = old.n]
        /\ changed' = [changed EXCEPT ![e] = times]
        /\ UNCHANGED <<linked, pending, reset, mailed, sent, over, accountMet, accountBroken,
                       googled, stopped, accountSpent>>
    BY <1>8, <2>1 DEF Accounts!ResetChanges, Accounts!Email, Accounts!Go
  <2>3. /\ times \in [1..Limit -> Nat] /\ times[old.code] = changed[e][old.code] + 1
        /\ \A n \in (1..Limit) \ {old.code} : times[n] = changed[e][n]
    <3> DEFINE was == changed[e]
               c == old.code
    <3>1. c \in 1..Limit /\ was \in [1..Limit -> Nat] /\ times = [was EXCEPT ![c] = @ + 1]
      BY <1>2, <2>1
    <3> HIDE DEF was, c, times
    <3>2. /\ times \in [1..Limit -> Nat] /\ times[c] = was[c] + 1
          /\ \A n \in (1..Limit) \ {c} : times[n] = was[n]
      BY <3>1
    <3> QED
      BY <3>2 DEF was, c
  <2>4. e \notin accountMet \cup accountBroken =>
          /\ sent[e] = old.code /\ changed[e][old.code] = 0 /\ reset[e] \in {0, old.code}
    BY <1>3, <2>1 DEF AccPass
  <2>5. /\ users' \in [Accounts!Users -> AccUsers] /\ Accounts!Users' = Accounts!Users
        /\ \A d \in Accounts!Users : users'[d].there = users[d].there /\ users'[d].by = users[d].by
    <3>1. e \in Accounts!Users /\ users[e] \in AccUsers /\ old.n \in 0..Limit
      BY <1>2, <1>8 DEF Accounts!Email
    <3>2. /\ [users[e] EXCEPT !.password = old.n] \in AccUsers
          /\ [users[e] EXCEPT !.password = old.n].there = users[e].there
          /\ [users[e] EXCEPT !.password = old.n].by = users[e].by
      BY <3>1 DEF AccUsers
    <3>3. users' = [users EXCEPT ![e] = [users[e] EXCEPT !.password = old.n]]
      BY <2>2
    <3> QED
      BY <1>2, <3>1, <3>2, <3>3 DEF Accounts!Users
  <2> HIDE DEF Step, old, e, times
  <2>6. AccFits(r)'
    BY <1>2, <2>1, <2>2, <2>4, <2>5 DEF AccFits, AccStep, AccPass, AccLooked, Codewise,
       Passwise
  <2>7. \A n \in 1..Limit : times[n] > 0 => n <= accountSpent
    <3>1. /\ old.code \in 1..accountSpent /\ accountSpent \in Nat
          /\ \A n \in 1..Limit : changed[e][n] > 0 => n <= accountSpent
      BY <1>2, <2>1
    <3> QED
      BY <2>3, <3>1
  <2>8. e \notin accountMet \cup accountBroken =>
          /\ sent[e] \in {0, reset[e]} \cup over
          /\ \A n \in 1..Limit : times[n] < 2
          /\ reset[e] # 0 => r.code = reset[e]
    <3>1. ~Accounts!At(h, "forgot", "save")
      BY <2>1 DEF Accounts!At, old
    <3>2. e \notin accountMet \cup accountBroken =>
            /\ sent[e] \in {0, reset[e]} \cup over /\ r.code = old.code
            /\ reset[e] \in {0, old.code} /\ changed[e][old.code] = 0
            /\ \A n \in 1..Limit : changed[e][n] < 2
      BY <1>2, <1>3, <2>1, <2>4, <3>1
    <3>3. e \notin accountMet \cup accountBroken => \A n \in 1..Limit : times[n] < 2
      <4> SUFFICES ASSUME e \notin accountMet \cup accountBroken, NEW n \in 1..Limit
                   PROVE  times[n] < 2
        OBVIOUS
      <4>1. CASE n = old.code
        BY <2>3, <3>2, <4>1
      <4>2. CASE n # old.code
        BY <2>3, <3>2, <4>2
      <4> QED
        BY <4>1, <4>2
    <3> QED
      BY <3>2, <3>3
  <2>9. /\ sent' = [sent EXCEPT ![e] = sent[e]] /\ reset' = [reset EXCEPT ![e] = reset[e]]
        /\ over \subseteq over' /\ over' \subseteq 1..Limit
    BY <1>2, <2>2
  <2>10. AccPassStep(h, r, sent[e], reset[e], times)
    BY <1>1, <1>2, <2>1, <2>2, <2>3, <2>5, <2>7, <2>8, <2>9 DEF old, e, AccPassStep
  <2> QED
    BY <2>6, <2>10, AccPasses
<1>9. CASE Accounts!ResetChanges(h) /\ Accounts!Email(h) \notin Accounts!Users
  <2>1. /\ accountRequest' = [accountRequest EXCEPT ![h] = Accounts!Rest] /\ Accounts!Only
        /\ ~Accounts!At(h, "forgot", "save") /\ ~Accounts!At(h, "reset", "delete")
    BY <1>9 DEF Accounts!ResetChanges, Accounts!At, Accounts!End, Accounts!Only,
       Accounts!stored, Accounts!history
  <2> QED
    BY <1>5, <2>1, AccOnly
<1>10. CASE Accounts!ResetDeletes(h)
  <2>1. /\ accountRequest' = [accountRequest EXCEPT ![h] = Accounts!Rest]
        /\ reset' = [reset EXCEPT ![e] = 0] /\ old.op = "reset" /\ old.at = "delete"
        /\ over' = over \cup {old.code}
        /\ UNCHANGED <<users, linked, pending, sent, mailed, accountMet, accountBroken,
                       changed, googled, stopped, accountSpent>>
    BY <1>10 DEF Accounts!ResetDeletes, Accounts!Email, Accounts!End, Accounts!At,
       Accounts!None
  <2>2. e \notin accountMet \cup accountBroken => sent[e] = old.code
    BY <1>3, <2>1 DEF AccPass
  <2>3. over \subseteq over' /\ over' \subseteq 1..Limit /\ 0 \in 0..Limit
    BY <1>2, <2>1
  <2>4. /\ sent' = [sent EXCEPT ![e] = sent[e]]
        /\ changed' = [changed EXCEPT ![e] = changed[e]]
        /\ users' \in [Accounts!Users -> AccUsers] /\ users' = users
    BY <1>2, <2>1
  <2>5. AccPassStep(h, Accounts!Rest, sent[e], 0, changed[e])
    BY <1>1, <1>2, <1>3, <1>5, <2>1, <2>2, <2>3, <2>4 DEF AccPassStep
  <2> QED
    BY <1>5, <2>5, AccPasses
<1> QED
  BY <1>6, <1>7, <1>8, <1>9, <1>10

\* The sign-in with Google.
LEMMA AccGoogle ==
  ASSUME AccInv, SideAssumption, NEW h \in Http,
         \/ Accounts!GoogleFindsAccount(h) \/ Accounts!GoogleLinks(h)
         \/ Accounts!GoogleCreates(h) /\ Accounts!Email(h) \notin Accounts!Users
  PROVE  AccInv'
<1> DEFINE old == accountRequest[h]
<1>1. /\ old.op = "google" /\ ~Accounts!At(h, "forgot", "save")
      /\ ~Accounts!At(h, "reset", "delete")
      /\ UNCHANGED <<pending, reset, mailed, sent, over, accountMet, accountBroken, changed,
                     stopped, accountSpent>>
  BY DEF Accounts!GoogleFindsAccount, Accounts!GoogleLinks, Accounts!GoogleCreates,
     Accounts!At, Accounts!stored
<1>2. /\ AccFits(old) /\ old \in AccRequests /\ old.email = Google /\ old.email \in Emails
      /\ Accounts!Users \subseteq Emails /\ users \in [Accounts!Users -> AccUsers]
      /\ linked \in Accounts!Users \cup {Accounts!NoOne} /\ googled \in Nat /\ AccMade
      /\ Accounts!NoOne \notin Emails
  BY <1>1 DEF AccInv, AccShapes, AccFits, AccStep, SideAssumption
<1>3. CASE Accounts!GoogleFindsAccount(h) /\ linked = Accounts!NoOne
  <2>1. PICK r \in AccRequests :
          /\ r = [old EXCEPT !.at = "look"] /\ r.op = "google" /\ r.at = "look"
          /\ r.email = old.email /\ r.n = old.n /\ r.there = old.there /\ r.code = old.code
    <3>1. old \in AccRequests /\ old.op = "google"
      BY <1>1, <1>2
    <3> HIDE DEF old
    <3> DEFINE new == [old EXCEPT !.at = "look"]
    <3>2. /\ new \in AccRequests /\ new.op = "google" /\ new.at = "look"
          /\ new.email = old.email /\ new.n = old.n /\ new.there = old.there
          /\ new.code = old.code
      BY <3>1 DEF AccRequests
    <3> QED
      BY <3>2
  <2>2. accountRequest' = [accountRequest EXCEPT ![h] = r] /\ Accounts!Only
    BY <1>3, <2>1 DEF Accounts!GoogleFindsAccount, Accounts!Go, Accounts!Only,
       Accounts!stored, Accounts!history
  <2>3. AccFits(r)
    BY <1>1, <1>2, <2>1 DEF AccFits, AccStep, AccLooked, Codewise, Passwise
  <2> QED
    BY <1>1, <2>1, <2>2, <2>3, AccOnly
<1>4. CASE (Accounts!GoogleFindsAccount(h) /\ linked # Accounts!NoOne) \/ Accounts!GoogleLinks(h)
  <2>1. /\ Accounts!End(h) /\ UNCHANGED users /\ googled' \in {googled, googled + 1}
        /\ linked' \in Accounts!Users \cup {Accounts!NoOne}
        /\ linked' # Accounts!NoOne \/ (linked' = linked /\ googled' = googled)
    BY <1>2, <1>4 DEF Accounts!GoogleFindsAccount, Accounts!GoogleLinks, Accounts!SignedIn,
       Accounts!stored
  <2>2. Accounts!Users' = Accounts!Users
    BY <2>1 DEF Accounts!Users
  <2>3. AccMade'
    BY <1>1, <1>2, <2>1, <2>2 DEF AccMade
  <2> QED
    BY <1>1, <1>2, <2>1, <2>2, <2>3, AccEnds
<1>5. CASE Accounts!GoogleCreates(h) /\ Accounts!Email(h) \notin Accounts!Users
  <2>1. /\ Accounts!SaveUser(Accounts!Email(h), 0, old.op, old.there)
        /\ old.at = "register" /\ Accounts!End(h) /\ googled' = googled + 1
        /\ UNCHANGED linked /\ old.email \notin Accounts!Users
    BY <1>1, <1>5 DEF Accounts!GoogleCreates, Accounts!At, Accounts!None, Accounts!SignedIn,
       Accounts!Email
  <2>2. 0 \in 0..Limit
    BY DEF SideAssumption
  <2>3. /\ Accounts!Users' = Accounts!Users \cup {old.email}
        /\ Accounts!Users' \subseteq Emails /\ users' \in [Accounts!Users' -> AccUsers]
        /\ \A e \in Accounts!Users' : users'[e].by # "staff" => users'[e].there = {}
    BY <1>1, <2>1, <2>2, AccMakes
  <2>4. AccMade'
    BY <1>1, <1>2, <2>1, <2>3 DEF AccMade
  <2> QED
    BY <1>1, <1>2, <2>1, <2>3, <2>4, AccEnds
<1> QED
  BY <1>3, <1>4, <1>5

\* The process ends.
LEMMA AccStops ==
  ASSUME AccInv, SideAssumption, NEW why, why # "known", Accounts!Stop(why),
         accountSpent' \in {accountSpent, accountSpent + 1}, accountSpent' \in 0..Limit
  PROVE  AccInv'
<1>1. /\ accountRequest' = [h \in Http |-> Accounts!Rest]
      /\ accountBroken' = accountBroken \cup
           {Accounts!Email(h) : h \in {h \in Http : accountRequest[h].op # "rest"}}
      /\ stopped' = stopped \cup {why}
      /\ UNCHANGED <<users, linked, pending, reset, mailed, sent, over, accountMet, changed,
                     googled>>
  BY DEF Accounts!Stop, Accounts!stored
<1>2. Accounts!Rest \in AccRequests /\ Accounts!Rest.op = "rest" /\ accountSpent \in Nat
      /\ Accounts!Users' = Accounts!Users
  BY <1>1, AccRest DEF AccInv, AccShapes, Accounts!Users
<1>3. AccShapes' /\ AccMailed' /\ AccMade' /\ AccAlone'
  BY <1>1, <1>2 DEF AccInv, AccShapes, AccMailed, AccMade, AccAlone, Codewise, Passwise
<1>4. \A h \in Http : AccFits(accountRequest[h])'
  BY <1>1, <1>2, AccRest DEF AccFits, AccStep, AccLooked, Codewise, Passwise
<1>5. AccKept
  BY <1>1 DEF AccKept, Accounts!At, Accounts!Email
<1>6. AccSent'
  BY <1>1, <1>2, <1>5, AccSentKept DEF AccInv
<1> QED
  BY <1>3, <1>4, <1>6 DEF AccInv

LEMMA AccTaken ==
  ASSUME AccInv, SideAssumption, NEW h \in Http, Accounts!GoogleCreates(h),
         Accounts!Email(h) \in Accounts!Users
  PROVE  AccInv'
<1>1. /\ accountRequest[h].op = "google" /\ accountRequest[h].at = "register"
      /\ accountSpent' = accountSpent /\ accountSpent \in 0..Limit
      /\ AccStep(accountRequest[h])
  BY DEF Accounts!GoogleCreates, Accounts!At, AccInv, AccShapes, AccFits
<1>2. accountRequest[h].there = {}
  BY <1>1 DEF AccStep, AccLooked
<1>3. Accounts!Stop("raced")
  BY <1>2 DEF Accounts!GoogleCreates
<1> QED
  BY <1>1, <1>3, AccStops

\* A call throws.
LEMMA AccThrows ==
  ASSUME AccInv, SideAssumption, NEW h \in Http, Accounts!Throw(h)
  PROVE  AccInv'
<1> DEFINE old == accountRequest[h]
<1>1. /\ old.op # "rest" /\ accountSpent' = accountSpent + 1 /\ accountSpent' \in 0..Limit
      /\ accountSpent \in Nat /\ old \in AccRequests /\ AccFits(old) /\ old.n \in 1..accountSpent
  <2>1. old.op # "rest" /\ accountSpent' = accountSpent + 1 /\ accountSpent < Limit
    BY DEF Accounts!Throw, Accounts!Spend
  <2>2. accountSpent \in 0..Limit /\ Limit \in Nat /\ old \in AccRequests /\ AccFits(old)
    BY DEF AccInv, AccShapes, SideAssumption
  <2> QED
    BY <2>1, <2>2 DEF AccFits, AccStep
<1>2. CASE Accounts!Stop("trouble")
  BY <1>1, <1>2, AccStops
<1>3. CASE ~Accounts!Stop("trouble")
  <2>1. /\ \/ Accounts!Go(h, "undo") /\ old.op = "register" /\ old.at \in {"save", "letter"}
           \/ Accounts!End(h)
        /\ accountBroken' = accountBroken \cup {old.email}
        /\ UNCHANGED <<users, linked, pending, reset, mailed, sent, over, accountMet, changed,
                       googled, stopped>>
    BY <1>3 DEF Accounts!Throw, Accounts!Email, Accounts!stored
  <2>2. PICK r \in AccRequests :
          /\ accountRequest' = [accountRequest EXCEPT ![h] = r]
          /\ \/ r = Accounts!Rest
             \/ /\ r = [old EXCEPT !.at = "undo"] /\ r.op = old.op /\ r.at = "undo"
                /\ r.email = old.email /\ r.n = old.n /\ r.there = old.there
                /\ old.op = "register" /\ old.at \in {"save", "letter"}
    <3>1. CASE Accounts!End(h)
      BY <3>1, AccRest DEF Accounts!End
    <3>2. CASE Accounts!Go(h, "undo") /\ old.op = "register" /\ old.at \in {"save", "letter"}
      <4>1. old \in AccRequests
        BY <1>1
      <4>2. accountRequest' = [accountRequest EXCEPT ![h] = [old EXCEPT !.at = "undo"]]
        BY <3>2 DEF Accounts!Go
      <4>3. old.op = "register" /\ old.at \in {"save", "letter"}
        BY <3>2
      <4> HIDE DEF old
      <4> DEFINE new == [old EXCEPT !.at = "undo"]
      <4>4. /\ new \in AccRequests /\ new.op = old.op /\ new.at = "undo"
            /\ new.email = old.email /\ new.n = old.n /\ new.there = old.there
        BY <4>1 DEF AccRequests
      <4> QED
        BY <4>2, <4>3, <4>4
    <3> QED
      BY <2>1, <3>1, <3>2
  <2> HIDE DEF old
  <2>3. AccFits(r)'
    <3>1. CASE r = Accounts!Rest
      BY <3>1, AccRest DEF AccFits, AccStep, AccLooked, Codewise, Passwise
    <3>2. CASE r # Accounts!Rest
      BY <1>1, <2>1, <2>2, <3>2 DEF AccFits, AccStep, AccLooked, AccCode, Codewise, Passwise,
         Accounts!Users
    <3> QED
      BY <3>1, <3>2
  <2>4. /\ accountRequest' \in [Http -> AccRequests] /\ accountRequest'[h] = r
        /\ \A k \in Http \ {h} : accountRequest'[k] = accountRequest[k]
        /\ AccAlone'
    BY <2>1, <2>2, AccRest, AccGoes DEF old
  <2>5. \A k \in Http : AccFits(accountRequest[k])'
    <3>1. \A e \in Emails : pending'[e] = pending[e] /\ sent'[e] = sent[e]
                            /\ changed'[e] = changed[e] /\ reset'[e] = reset[e]
      BY <2>1
    <3>2. {} \in SUBSET Http /\ accountSpent' \in Nat /\ accountSpent <= accountSpent'
          /\ over \subseteq over' /\ Accounts!Users \subseteq Accounts!Users'
          /\ accountMet \subseteq accountMet' /\ accountBroken \subseteq accountBroken'
      BY <1>1, <2>1 DEF Accounts!Users
    <3>3. \A k \in Http : AccFits(accountRequest[k])' \/ accountRequest'[k] # accountRequest[k]
      BY <3>1, <3>2, AccOthers
    <3> QED
      BY <2>3, <2>4, <3>3
  <2>6. AccShapes' /\ AccMailed' /\ AccMade'
    BY <1>1, <2>1, <2>4 DEF AccInv, AccShapes, AccMailed, AccMade, Accounts!Users
  <2>7. AccKept
    BY <2>1, <2>4 DEF AccKept, Accounts!At, Accounts!Email, old
  <2>8. AccSent'
    BY <1>1, <2>1, <2>7, AccSentKept DEF AccInv
  <2> QED
    BY <2>4, <2>5, <2>6, <2>8 DEF AccInv
<1> QED
  BY <1>2, <1>3

LEMMA AccBegins ==
  ASSUME AccInv, SideAssumption, NEW h \in Http, Accounts!Enter(h)
  PROVE  AccInv'
<1>1. PICK op \in {"register", "resend", "verify", "claim", "staff", "forgot", "reset", "google"},
           at \in {"look", "get", "create", "account"}, e \in Emails, c \in 0..Limit :
        /\ Accounts!Begin(h, op, at, e, c)
        /\ op \in {"verify", "reset"} => at = "get" /\ c # 0
        /\ op = "reset" => sent[e] = c
        /\ op \in {"register", "claim", "forgot"} => at = "look"
        /\ op = "resend" => at = "get"
        /\ op = "google" => at = "account" /\ e = Google
  <2>1. /\ 0 \in 0..Limit /\ Google \in Emails
        /\ \A e \in Emails : mailed[e] \subseteq (0..Limit) \ {0} /\ sent[e] \in 0..Limit
    BY AccFields DEF AccInv, SideAssumption
  <2>2. CASE Accounts!Begin(h, "google", "account", Google, 0)
    BY <2>1, <2>2
  <2>3. CASE \E e \in Emails : \E c \in mailed[e] : Accounts!Begin(h, "verify", "get", e, c)
    BY <2>1, <2>3
  <2>4. CASE \E e \in Emails : sent[e] # 0 /\ Accounts!Begin(h, "reset", "get", e, sent[e])
    BY <2>1, <2>4
  <2>5. CASE \E e \in Emails : \/ Accounts!Begin(h, "register", "look", e, 0)
                               \/ Accounts!Begin(h, "resend", "get", e, 0)
                               \/ Accounts!Begin(h, "forgot", "look", e, 0)
                               \/ Accounts!Begin(h, "claim", "look", e, 0)
                               \/ Accounts!Begin(h, "staff", "create", e, 0)
    BY <2>1, <2>5
  <2> QED
    BY <2>2, <2>3, <2>4, <2>5 DEF Accounts!Enter, Accounts!None
<1> DEFINE new == [op |-> op, at |-> at, email |-> e, n |-> accountSpent + 1, code |-> c,
                   there |-> Accounts!Users]
<1>2. /\ accountRequest[h].op = "rest" /\ accountSpent' = accountSpent + 1
      /\ accountSpent' \in 0..Limit /\ accountSpent \in Nat
      /\ accountRequest' = [accountRequest EXCEPT ![h] = new]
      /\ UNCHANGED <<users, linked, pending, reset, mailed, sent, over, accountBroken,
                     changed, googled, stopped>>
  BY <1>1 DEF Accounts!Begin, Accounts!Spend, Accounts!stored, AccInv, AccShapes,
     SideAssumption
<1>3. /\ accountMet \subseteq accountMet'
      /\ \A k \in Http : /\ accountRequest[k].email = e
                         /\ \/ op \in Codewise /\ accountRequest[k].op \in Codewise
                            \/ op \in Passwise /\ accountRequest[k].op \in Passwise
                         => e \in accountMet'
  BY <1>1 DEF Accounts!Begin, Accounts!Alike, Codewise, Passwise
<1>4. PICK r \in AccRequests :
        /\ r = new /\ r.op = op /\ r.at = at /\ r.email = e /\ r.n = accountSpent + 1
        /\ r.code = c /\ r.there = Accounts!Users
  <2>1. Accounts!Users \subseteq Emails
    BY DEF AccInv, AccShapes
  <2>2. op \in {"register", "resend", "verify", "claim", "staff", "forgot", "reset", "google"}
        /\ at \in {"look", "get", "create", "account"} /\ e \in Emails /\ c \in 0..Limit
    BY <1>1
  <2>3. /\ new \in AccRequests /\ new.op = op /\ new.at = at /\ new.email = e
        /\ new.n = accountSpent + 1 /\ new.code = c /\ new.there = Accounts!Users
    BY <1>2, <2>1, <2>2 DEF AccRequests
  <2> QED
    BY <2>3
<1> HIDE DEF new
<1>5. /\ accountRequest' \in [Http -> AccRequests] /\ accountRequest'[h] = r
      /\ \A k \in Http \ {h} : accountRequest'[k] = accountRequest[k]
  BY <1>2, <1>4 DEF AccInv, AccShapes
<1>6. AccAlone'
  BY <1>3, <1>4, <1>5 DEF AccInv, AccAlone
<1>7. AccFits(r)'
  <2>1. AccStep(r)'
    BY <1>1, <1>2, <1>4 DEF AccStep, AccLooked, Accounts!Users, AccInv, AccSent
  <2>2. op \in Codewise => AccCode(r)'
    BY <1>1, <1>4 DEF AccCode, Codewise
  <2>3. op \in Passwise => AccPass(r)'
    <3>1. ~(changed[e][accountSpent + 1] > 0) /\ changed[e][accountSpent + 1] \in Nat
      BY <1>2, AccFields DEF AccInv, AccSent
    <3> QED
      BY <1>1, <1>2, <1>4, <3>1 DEF AccPass, Passwise
  <2> QED
    BY <1>4, <2>1, <2>2, <2>3 DEF AccFits
<1>8. \A k \in Http : AccFits(accountRequest[k])'
  <2>1. \A d \in Emails : pending'[d] = pending[d] /\ sent'[d] = sent[d]
                          /\ changed'[d] = changed[d] /\ reset'[d] = reset[d]
    BY <1>2
  <2>2. {} \in SUBSET Http /\ accountSpent' \in Nat /\ accountSpent <= accountSpent'
        /\ over \subseteq over' /\ Accounts!Users \subseteq Accounts!Users'
        /\ accountMet \subseteq accountMet' /\ accountBroken \subseteq accountBroken'
    BY <1>2, <1>3 DEF Accounts!Users
  <2>3. \A k \in Http : AccFits(accountRequest[k])' \/ accountRequest'[k] # accountRequest[k]
    BY <2>1, <2>2, AccOthers
  <2> QED
    BY <1>5, <1>7, <2>3
<1>9. AccShapes' /\ AccMade'
  BY <1>2, <1>5 DEF AccInv, AccShapes, AccMade, Accounts!Users
<1>10. AccMailed'
  BY <1>2, <1>3 DEF AccInv, AccMailed
<1>11. AccKept
  BY <1>2, <1>5 DEF AccKept, Accounts!At, Accounts!Email
<1>12. AccSent'
  BY <1>2, <1>3, <1>11, AccSentKept DEF AccInv
<1> QED
  BY <1>6, <1>8, <1>9, <1>10, <1>12 DEF AccInv

\* A code expires.
LEMMA AccExpires ==
  ASSUME AccInv, SideAssumption, NEW e \in Emails,
         Accounts!ExpirePending(e) \/ Accounts!ExpireReset(e)
  PROVE  AccInv'
<1>1. /\ accountSpent' = accountSpent + 1 /\ accountSpent' \in 0..Limit /\ accountSpent \in Nat
      /\ UNCHANGED <<users, linked, accountRequest, sent, mailed, accountMet, accountBroken,
                     changed, googled, stopped>>
  <2>1. accountSpent \in 0..Limit /\ Limit \in Nat
    BY DEF AccInv, AccShapes, SideAssumption
  <2>2. Accounts!Spend
    BY DEF Accounts!ExpirePending, Accounts!ExpireReset
  <2>3. accountSpent' = accountSpent + 1 /\ accountSpent < Limit
    BY <2>2 DEF Accounts!Spend
  <2>4. accountSpent' \in 0..Limit /\ accountSpent \in Nat
    BY <2>1, <2>3
  <2> QED
    BY <2>3, <2>4 DEF Accounts!ExpirePending, Accounts!ExpireReset
<1>2. /\ pending \in [Emails -> [code : 0..Limit, there : {{}}]]
      /\ reset \in [Emails -> 0..Limit] /\ pending[e].code \in 0..Limit /\ reset[e] \in 0..Limit
      /\ pending[e].code = 0 <=> pending[e] = Accounts!NoData
      /\ Accounts!NoData \in [code : 0..Limit, there : {{}}] /\ Accounts!NoData.code = 0
  <2>1. AccShapes /\ 0 \in 0..Limit
    BY DEF AccInv, SideAssumption
  <2>2. /\ Accounts!NoData \in [code : 0..Limit, there : {{}}] /\ Accounts!NoData.code = 0
    BY <2>1 DEF Accounts!NoData, Accounts!None
  <2>3. /\ pending[e].code \in 0..Limit /\ reset[e] \in 0..Limit
        /\ pending[e].code = 0 <=> pending[e] = Accounts!NoData
    BY <2>1, AccFields
  <2> QED
    BY <2>1, <2>2, <2>3 DEF AccShapes
<1>3. /\ over \subseteq over' /\ over' \subseteq 1..Limit
      /\ pending' \in [Emails -> [code : 0..Limit, there : {{}}]]
      /\ reset' \in [Emails -> 0..Limit]
      /\ \A d \in Emails :
           /\ pending'[d] = pending[d] \/ (pending'[d].code = 0 /\ pending[d].code \in over')
           /\ reset'[d] = reset[d] \/ (reset'[d] = 0 /\ reset[d] \in over')
  <2>1. over \subseteq 1..Limit /\ 0 \in 0..Limit
    BY DEF AccInv, AccShapes, SideAssumption
  <2>2. CASE Accounts!ExpirePending(e)
    <3>1. /\ pending[e].code # 0 /\ pending' = [pending EXCEPT ![e] = Accounts!NoData]
          /\ over' = over \cup {pending[e].code} /\ reset' = reset
      BY <1>2, <2>2 DEF Accounts!ExpirePending
    <3>2. /\ pending' \in [Emails -> [code : 0..Limit, there : {{}}]]
          /\ \A d \in Emails : pending'[d] = IF d = e THEN Accounts!NoData ELSE pending[d]
      BY <1>2, <3>1
    <3>3. pending[e].code \in 1..Limit
      BY <1>2, <3>1
    <3> QED
      BY <1>2, <2>1, <3>1, <3>2, <3>3
  <2>3. CASE Accounts!ExpireReset(e)
    <3>1. /\ reset[e] # 0 /\ reset' = [reset EXCEPT ![e] = 0]
          /\ over' = over \cup {reset[e]} /\ pending' = pending
      BY <2>3 DEF Accounts!ExpireReset, Accounts!None
    <3>2. /\ reset' \in [Emails -> 0..Limit]
          /\ \A d \in Emails : reset'[d] = IF d = e THEN 0 ELSE reset[d]
      BY <1>2, <2>1, <3>1
    <3>3. reset[e] \in 1..Limit
      BY <1>2, <3>1
    <3> QED
      BY <1>2, <2>1, <3>1, <3>2, <3>3
  <2> QED
    BY <2>2, <2>3
<1>4. \A k \in Http : AccFits(accountRequest[k])'
  <2>1. {} \in SUBSET Http /\ accountSpent' \in Nat /\ accountSpent <= accountSpent'
        /\ Accounts!Users \subseteq Accounts!Users'
        /\ accountMet \subseteq accountMet' /\ accountBroken \subseteq accountBroken'
        /\ \A d \in Emails : sent'[d] = sent[d] /\ changed'[d] = changed[d]
    BY <1>1 DEF Accounts!Users
  <2>2. \A k \in Http : AccFits(accountRequest[k])' \/ accountRequest'[k] # accountRequest[k]
    BY <1>3, <2>1, AccOthers
  <2> QED
    BY <1>1, <2>2
<1>5. AccShapes' /\ AccAlone' /\ AccMade'
  <2>1. \A d \in Emails : reset'[d] # 0 => reset[d] # 0
    BY <1>3
  <2> QED
    BY <1>1, <1>3, <2>1 DEF AccInv, AccShapes, AccMade, AccAlone, Accounts!Users
<1>6. AccMailed'
  BY <1>1, <1>3 DEF AccInv, AccMailed
<1>7. AccKept
  BY <1>1 DEF AccKept, Accounts!At, Accounts!Email
<1>8. AccSent'
  BY <1>1, <1>3, <1>7, AccSentKept DEF AccInv
<1> QED
  BY <1>4, <1>5, <1>6, <1>8 DEF AccInv

LEMMA AccRestarts ==
  ASSUME AccInv, SideAssumption, Accounts!Restart
  PROVE  AccInv'
<1>1. Accounts!Stop("restart") /\ accountSpent' = accountSpent + 1 /\ accountSpent' \in 0..Limit
  BY DEF Accounts!Restart, Accounts!Spend, AccInv, AccShapes, SideAssumption
<1> QED
  BY <1>1, AccStops

LEMMA AccProceeds ==
  ASSUME AccInv, SideAssumption, NEW h \in Http, Accounts!Proceed(h)
  PROVE  AccInv'
  BY AccLooks, AccRegisters, AccCreates, AccForgets, AccGoogle, AccTaken DEF Accounts!Proceed

LEMMA AccMoves == AccInv /\ SideAssumption /\ [Accounts!Next]_accountVars => AccInv'
<1> SUFFICES ASSUME AccInv, SideAssumption, [Accounts!Next]_accountVars
             PROVE  AccInv'
  OBVIOUS
<1>1. CASE Accounts!Next
  BY <1>1, AccBegins, AccProceeds, AccThrows, AccExpires, AccRestarts DEF Accounts!Next
<1>2. CASE UNCHANGED accountVars
  BY <1>2 DEF accountVars, AccInv, AccShapes, AccAlone, AccMailed, AccSent, AccSentAt, AccMade,
     AccFits, AccStep, AccCode, AccPass, Accounts!Users, Accounts!At, Accounts!Email
<1> QED
  BY <1>1, <1>2

LEMMA AccStarts == SideAssumption /\ Accounts!Init => AccInv
<1> SUFFICES ASSUME SideAssumption, Accounts!Init
             PROVE  AccInv
  OBVIOUS
<1>1. /\ Accounts!Users = {} /\ linked = Accounts!NoOne
      /\ pending = [e \in Emails |-> Accounts!NoData] /\ reset = [e \in Emails |-> 0]
      /\ accountRequest = [h \in Http |-> Accounts!Rest]
      /\ mailed = [e \in Emails |-> {}] /\ sent = [e \in Emails |-> 0]
      /\ over = {} /\ changed = [e \in Emails |-> [n \in 1..Limit |-> 0]]
      /\ googled = 0 /\ stopped = {} /\ accountSpent = 0
      /\ users = [e \in {} |-> Accounts!Rest]
  BY DEF Accounts!Init, Accounts!Users, Accounts!None
<1>2. /\ 0 \in 0..Limit /\ Accounts!NoData \in [code : 0..Limit, there : {{}}]
      /\ users \in [Accounts!Users -> AccUsers] /\ Accounts!Rest \in AccRequests
  BY <1>1, AccRest DEF SideAssumption, Accounts!NoData, Accounts!None
<1>3. AccShapes
  BY <1>1, <1>2 DEF AccShapes
<1>4. AccMailed /\ AccMade /\ AccSent
  BY <1>1 DEF AccMailed, AccMade, AccSent, AccSentAt
<1>5. AccAlone
  BY <1>1, AccRest DEF AccAlone, Codewise, Passwise
<1> QED
  BY <1>1, <1>3, <1>4, <1>5, AccRestFits DEF AccInv

LEMMA AccCounts == \A S : Accounts!Cardinality(S) = Cardinality(S)
  BY DEF Accounts!Cardinality, Cardinality

LEMMA AccPromises == AccInv /\ SideAssumption => Accounts!AccountsConsistent /\ Accounts!TypeOK
<1> SUFFICES ASSUME AccInv, SideAssumption
             PROVE  Accounts!AccountsConsistent /\ Accounts!TypeOK
  OBVIOUS
<1>1. Accounts!OneUserPerMailbox
  <2> SUFFICES ASSUME Cardinality(Accounts!Users) > 1
               PROVE  \E e \in Accounts!Users :
                        \/ users[e].by = "staff"
                        \/ \E f \in Accounts!Users \ {e} : users[e].there = {} /\ users[f].there = {}
    BY AccCounts DEF Accounts!OneUserPerMailbox
  <2>1. Cardinality({}) = 0 /\ \A e : Cardinality({e}) = 1
    BY FS_EmptySet, FS_Singleton
  <2>2. PICK e \in Accounts!Users, f \in Accounts!Users : e # f
    <3>1. Accounts!Users # {} /\ \A e : Accounts!Users # {e}
      <4>1. ~(0 > 1) /\ ~(1 > 1)
        OBVIOUS
      <4> QED
        BY <2>1, <4>1, Zenon
    <3>2. PICK e \in Accounts!Users : TRUE
      BY <3>1
    <3>3. PICK f \in Accounts!Users : e # f
      BY <3>1, <3>2
    <3> QED
      BY <3>3
  <2> QED
    BY <2>2 DEF AccInv, AccMade
<1>2. Accounts!RegistrationCodeInHand
  BY DEF AccInv, AccMailed, Accounts!RegistrationCodeInHand
<1>3. Accounts!ResetCodeInHand /\ Accounts!PasswordOnce
  BY DEF AccInv, AccSent, AccSentAt, Accounts!ResetCodeInHand, Accounts!PasswordOnce,
     Accounts!None
<1>4. Accounts!GoogleLinked /\ Accounts!StopExplained
  BY DEF AccInv, AccMade, AccShapes, Accounts!GoogleLinked, Accounts!StopExplained
<1>5. Accounts!TypeOK
  BY AccFields DEF AccInv, AccShapes, AccUsers, AccMade, Accounts!TypeOK, Accounts!None
<1> QED
  BY <1>1, <1>2, <1>3, <1>4, <1>5 DEF Accounts!AccountsConsistent

-----------------------------------------------------------------------------
(* Partners.                                                               *)

LEMMA PartNumbers == \A S : Partners!Cardinality(S) = Cardinality(S)
  BY DEF Partners!Cardinality, Cardinality

LEMMA PartRest ==
  ASSUME SideAssumption
  PROVE  /\ Partners!Rest \in PartRequests /\ Partners!Rest.op = "rest" /\ Partners!Rest.at = "rest"
         /\ Partners!Rest.user = Partners!None /\ Partners!Rest.code = Partners!None
         /\ Partners!Rest.id = 0
  BY DEF SideAssumption, Partners!Rest, Partners!None, PartRequests

LEMMA PartFields ==
  ASSUME PartShapes, SideAssumption
  PROVE  /\ \A h \in Http : /\ partnerRequest[h] \in PartRequests
                            /\ partnerRequest[h].id \in Nat /\ partnerRequest[h].sum \in Nat
                            /\ partnerRequest[h].user \in Travellers \cup {Partners!None}
                            /\ partnerRequest[h].code \in Codes \cup {Partners!None}
         /\ \A l \in Places : /\ link[l] \in [id : Nat, clicks : Nat,
                                              of : Travellers \cup {Partners!None}]
                              /\ link[l].id \in Nat /\ link[l].clicks \in Nat
                              /\ link[l].of \in Travellers \cup {Partners!None}
         /\ \A u \in Travellers : code[u] \in Codes \cup {Partners!None}
         /\ partnerSpent \in Nat /\ partnerSpent \in 0..(Limit + 1) /\ Limit \in Nat
         /\ Partners!None \notin Codes /\ Partners!None \notin Travellers
<1>1. \A h \in Http : partnerRequest[h] \in PartRequests
  BY DEF PartShapes
<1>2. \A l \in Places : link[l] \in [id : Nat, clicks : Nat, of : Travellers \cup {Partners!None}]
  BY DEF PartShapes
<1> QED
  BY <1>1, <1>2 DEF PartShapes, PartRequests, SideAssumption

\* Two sets that differ in one element at most.
LEMMA PartSets ==
  ASSUME NEW S, NEW T, NEW h, IsFiniteSet(S), S \ {h} = T \ {h}
  PROVE  /\ IsFiniteSet(T) /\ Cardinality(S) \in Nat /\ Cardinality(T) \in Nat
         /\ (h \in S <=> h \in T) => Cardinality(T) = Cardinality(S)
         /\ h \in S /\ h \notin T => Cardinality(T) = Cardinality(S) - 1
         /\ h \notin S /\ h \in T => Cardinality(T) = Cardinality(S) + 1
<1>1. Cardinality(S) \in Nat
  BY FS_CardinalityType
<1>2. CASE h \in S <=> h \in T
  <2>1. T = S
    BY <1>2
  <2> QED
    BY <1>1, <1>2, <2>1
<1>3. CASE h \in S /\ h \notin T
  <2>1. T = S \ {h}
    BY <1>3
  <2>2. IsFiniteSet(T) /\ Cardinality(T) = Cardinality(S) - 1
    BY <1>3, <2>1, FS_RemoveElement
  <2> QED
    BY <1>1, <1>3, <2>2, FS_CardinalityType
<1>4. CASE h \notin S /\ h \in T
  <2>1. T = S \cup {h}
    BY <1>4
  <2>2. IsFiniteSet(T) /\ Cardinality(T) = Cardinality(S) + 1
    BY <1>4, <2>1, FS_AddElement
  <2> QED
    BY <1>1, <1>4, <2>2, FS_CardinalityType
<1> QED
  BY <1>2, <1>3, <1>4

LEMMA PartFinite ==
  ASSUME SideAssumption
  PROVE  \A l : /\ IsFiniteSet(Visiting(l)) /\ IsFiniteSet(Counting(l))
                /\ Cardinality(Visiting(l)) \in Nat /\ Cardinality(Counting(l)) \in Nat
<1> TAKE l
<1>1. IsFiniteSet(Http) /\ Visiting(l) \in SUBSET Http /\ Counting(l) \in SUBSET Http
  BY DEF SideAssumption, Visiting, Counting
<1> QED
  BY <1>1, FS_Subset, FS_CardinalityType

\* The visits counted for a partner only grow where its links keep their counts.
LEMMA PartGrows ==
  ASSUME SideAssumption, NEW u,
         \A l \in Places : /\ u # Partners!None /\ link[l].of = u => link'[l].of = u
                           /\ \A n \in Nat : n <= link[l].clicks => n <= link'[l].clicks
  PROVE  ClicksOf(u) \in Nat /\ ClicksOf(u)' \in Nat /\ ClicksOf(u) <= ClicksOf(u)'
<1> DEFINE S == {c \in Places \X (1..(Limit + 1)) :
                   /\ c[1] \in {l \in Places : u # Partners!None => link[l].of = u}
                   /\ c[2] <= link[c[1]].clicks}
           T == {c \in Places \X (1..(Limit + 1)) :
                   /\ c[1] \in {l \in Places : u # Partners!None => link'[l].of = u}
                   /\ c[2] <= link'[c[1]].clicks}
           All == Places \X (1..(Limit + 1))
<1>1. ClicksOf(u) = Cardinality(S) /\ ClicksOf(u)' = Cardinality(T)
  BY PartNumbers DEF ClicksOf, Partners!Clicks, Partners!Links, Places
<1>2. IsFiniteSet(All)
  <2>1. IsFiniteSet(Codes) /\ IsFiniteSet(Sources) /\ Limit + 1 \in Int /\ 1 \in Int
    BY DEF SideAssumption
  <2>2. IsFiniteSet(Codes \X Sources) /\ IsFiniteSet(1..(Limit + 1))
    BY <2>1, FS_Product, FS_Interval
  <2> QED
    BY <2>2, FS_Product DEF Places
<1>3. T \in SUBSET All /\ S \in SUBSET T
  OBVIOUS
<1> HIDE DEF S, T, All
<1>4. IsFiniteSet(T) /\ IsFiniteSet(S) /\ Cardinality(S) <= Cardinality(T)
  BY <1>2, <1>3, FS_Subset
<1> QED
  BY <1>1, <1>4, FS_CardinalityType

LEMMA PartGoes ==
  ASSUME PartShapes, NEW h \in Http, NEW r \in PartRequests,
         partnerRequest' = [partnerRequest EXCEPT ![h] = r]
  PROVE  /\ partnerRequest' \in [Http -> PartRequests] /\ partnerRequest'[h] = r
         /\ \A k \in Http \ {h} : partnerRequest'[k] = partnerRequest[k]
  BY DEF PartShapes

\* What the others have found stays where a code is given for good and the
\* visits that are counted grow.
LEMMA PartOthers ==
  ASSUME PartInv, SideAssumption, NEW h,
         \A k \in Http \ {h} : partnerRequest'[k] = partnerRequest[k],
         \A u \in Travellers : code[u] # Partners!None => code'[u] = code[u],
         \A l \in Places : /\ \A u \in Travellers : link[l].of = u => link'[l].of = u
                           /\ \A n \in Nat : n <= link[l].clicks => n <= link'[l].clicks,
         unknown \subseteq unknown', \A x \in lost : x = <<"answer", h>> \/ x \in lost'
  PROVE  \A k \in Http \ {h} : PartFound(k)'
<1> TAKE k \in Http \ {h}
<1> DEFINE r == partnerRequest[k]
<1>1. /\ PartFound(k) /\ partnerRequest'[k] = r /\ r \in PartRequests
      /\ r.user \in Travellers \cup {Partners!None}
      /\ Partners!None \notin Codes /\ Partners!None \notin Travellers
  BY PartFields DEF PartInv
<1>2. \A c \in Codes : Partners!PartnersOf(c) # {} => Partners!PartnersOf(c)' # {}
  BY <1>1 DEF Partners!PartnersOf
<1>3. r.op = "stats" /\ r.at = "total" /\ r.code = Partners!None /\ <<"answer", k>> \notin lost' =>
        \A u \in {r.user} : r.sum <= ClicksOf(u)'
  <2> SUFFICES ASSUME r.op = "stats" /\ r.at = "total" /\ r.code = Partners!None,
                      <<"answer", k>> \notin lost'
               PROVE  \A u \in {r.user} : r.sum <= ClicksOf(u)'
    OBVIOUS
  <2> TAKE u \in {r.user}
  <2>1. <<"answer", k>> \notin lost
    OBVIOUS
  <2>2. r.sum <= ClicksOf(u) /\ r.sum \in Nat
    BY <1>1, <2>1, PartFields DEF PartFound, PartInv
  <2>3. ClicksOf(u) \in Nat /\ ClicksOf(u)' \in Nat /\ ClicksOf(u) <= ClicksOf(u)'
    BY <1>1, PartGrows
  <2> QED
    BY <2>2, <2>3
<1> HIDE DEF r
<1>4. partnerRequest'[k] = r
  BY <1>1
<1>5. PartFound(k) => PartFound(k)'
  BY <1>1, <1>2, <1>3 DEF PartFound, Partners!Place, r
<1> QED
  BY <1>1, <1>5

\* A step of a request that is about no visit, and leaves the links alone.
LEMMA PartStep ==
  ASSUME PartInv, SideAssumption, NEW h \in Http, NEW r \in PartRequests,
         partnerRequest' = [partnerRequest EXCEPT ![h] = r],
         UNCHANGED <<link, visits>>, ~short', role' \subseteq Travellers,
         code' \in [Travellers -> Codes \cup {Partners!None}],
         \A u \in Travellers : code[u] # Partners!None => code'[u] = code[u],
         unknown \subseteq unknown', \A x \in lost : x = <<"answer", h>> \/ x \in lost',
         partnerSpent' \in 0..(Limit + 1), partnerSpent <= partnerSpent',
         credit' = credit \/ /\ credit' \in [Credited -> [by : Travellers \cup {Partners!None},
                                  referrer : Codes \cup {Partners!None}, made : BOOLEAN]]
                             /\ Partners!ReferrerCredited',
         partnerRequest[h].op # "click", r.op # "click",
         r.op = "link" => \/ partnerRequest[h].op = "link" /\ r.id = partnerRequest[h].id
                          \/ r.id = partnerSpent + 1 /\ partnerSpent' = partnerSpent + 1,
         PartFound(h)',
         \A u \in role' :
           \/ u \in role /\ ~(partnerRequest[h].op = "partner" /\ partnerRequest[h].user = u)
           \/ r.op = "partner" /\ r.user = u
           \/ code'[u] # Partners!None \/ <<"partner", u>> \in lost'
  PROVE  PartInv'
<1>1. /\ PartShapes /\ PartIds /\ PartClicks /\ Partners!RoleHasPartner
      /\ Partners!LinkOfItsCode /\ Partners!ReferrerCredited
      /\ \A l \in Places : link[l] # Partners!NoLink => link[l].of \in Travellers
  BY DEF PartInv
<1>2. /\ partnerRequest' \in [Http -> PartRequests] /\ partnerRequest'[h] = r
      /\ \A k \in Http \ {h} : partnerRequest'[k] = partnerRequest[k]
  BY <1>1, PartGoes
<1>3. /\ partnerSpent \in Nat /\ Limit \in Nat /\ Partners!None \notin Codes
      /\ Partners!None \notin Travellers
      /\ \A l \in Places : link[l].id \in Nat /\ link[l].clicks \in Nat
  BY <1>1, PartFields
<1>4. PartShapes'
  BY <1>1, <1>2 DEF PartShapes
<1>5. PartIds'
  <2>1. /\ \A l \in Places : link[l] # Partners!NoLink =>
             /\ link[l].id \in 1..partnerSpent
             /\ \A m \in Places \ {l} : link[m].id # link[l].id
             /\ \A k \in Http : partnerRequest[k].op = "link" => partnerRequest[k].id # link[l].id
        /\ \A k \in Http : partnerRequest[k].op = "link" =>
             /\ partnerRequest[k].id \in 1..partnerSpent /\ visits[partnerRequest[k].id] = 0
             /\ \A j \in Http \ {k} : partnerRequest[j].op = "link" =>
                  partnerRequest[j].id # partnerRequest[k].id
        /\ \A id \in 1..(Limit + 1) : id > partnerSpent => visits[id] = 0
        /\ \A l \in Places : link[l].id = 0 => link[l] = Partners!NoLink
    BY <1>1 DEF PartIds
  <2>2. partnerSpent \in Nat /\ partnerSpent' \in Nat /\ Limit \in Nat
    BY <1>3
  <2>3. CASE r.op = "link" => partnerRequest[h].op = "link" /\ r.id = partnerRequest[h].id
    BY <1>2, <2>1, <2>2, <2>3 DEF PartIds
  <2>4. CASE r.op = "link" /\ r.id = partnerSpent + 1 /\ partnerSpent' = partnerSpent + 1
    <3>1. r.id \in 1..partnerSpent' /\ visits[r.id] = 0 /\ ~(r.id <= partnerSpent)
      BY <2>1, <2>2, <2>4
    <3> QED
      BY <1>2, <2>1, <2>2, <2>4, <3>1 DEF PartIds
  <2> QED
    BY <2>3, <2>4
<1>6. PartClicks'
  <2> SUFFICES ASSUME NEW l \in Places
               PROVE  /\ link[l].clicks + Cardinality(Visiting(l)') <= partnerSpent'
                      /\ link[l] # Partners!NoLink /\ <<"visit", l>> \notin lost' =>
                           link[l].clicks + Cardinality(Counting(l)') >= visits[link[l].id]
    BY DEF PartClicks
  <2>1. Visiting(l)' = Visiting(l)
    BY <1>2 DEF Visiting, Partners!Place
  <2>2. Counting(l)' = Counting(l)
    BY <1>2, <2>1 DEF Counting, Visiting
  <2>3. /\ link[l].clicks + Cardinality(Visiting(l)) <= partnerSpent
        /\ link[l] # Partners!NoLink /\ <<"visit", l>> \notin lost =>
             link[l].clicks + Cardinality(Counting(l)) >= visits[link[l].id]
    BY <1>1 DEF PartClicks
  <2>4. <<"visit", l>> \in lost => <<"visit", l>> \in lost'
    OBVIOUS
  <2>5. Cardinality(Visiting(l)) \in Nat
    BY PartFinite
  <2> QED
    BY <1>3, <2>1, <2>2, <2>3, <2>4, <2>5
<1>7. \A k \in Http : PartFound(k)'
  <2>1. \A l \in Places : /\ \A u \in Travellers : link[l].of = u => link'[l].of = u
                          /\ \A n \in Nat : n <= link[l].clicks => n <= link'[l].clicks
    OBVIOUS
  <2>2. \A k \in Http \ {h} : PartFound(k)'
    BY <1>2, <2>1, PartOthers
  <2> QED
    BY <2>2
<1>8. Partners!RoleHasPartner'
  <2> SUFFICES ASSUME NEW u \in role'
               PROVE  \/ code'[u] # Partners!None
                      \/ {<<"role", u>>, <<"partner", u>>} \cap lost' # {}
                      \/ \E k \in Http : partnerRequest'[k].op = "partner" /\ partnerRequest'[k].user = u
    BY DEF Partners!RoleHasPartner
  <2>1. CASE u \in role /\ ~(partnerRequest[h].op = "partner" /\ partnerRequest[h].user = u)
    <3>1. \/ code[u] # Partners!None
          \/ {<<"role", u>>, <<"partner", u>>} \cap lost # {}
          \/ \E k \in Http : partnerRequest[k].op = "partner" /\ partnerRequest[k].user = u
      BY <1>1, <2>1 DEF Partners!RoleHasPartner
    <3>2. /\ <<"partner", u>> \in lost => <<"partner", u>> \in lost'
          /\ <<"role", u>> \in lost => <<"role", u>> \in lost'
      OBVIOUS
    <3>3. {<<"role", u>>, <<"partner", u>>} \cap lost # {} =>
            {<<"role", u>>, <<"partner", u>>} \cap lost' # {}
      BY <3>2
    <3> QED
      BY <1>2, <2>1, <3>1, <3>3
  <2>2. <<"partner", u>> \in lost' => {<<"role", u>>, <<"partner", u>>} \cap lost' # {}
    OBVIOUS
  <2> QED
    BY <1>2, <2>1, <2>2
<1>9. Partners!LinkOfItsCode'
  BY <1>1, <1>3 DEF Partners!LinkOfItsCode, Partners!Links, Places
<1>10. Partners!ReferrerCredited'
  <2>1. CASE credit' = credit
    <3>1. \A c \in Credited : /\ credit[c].by \in Travellers \cup {Partners!None}
                              /\ credit[c].referrer \in Codes \cup {Partners!None}
      BY <1>1 DEF PartShapes
    <3> QED
      BY <1>1, <1>3, <2>1, <3>1 DEF Partners!ReferrerCredited, Credited
  <2> QED
    BY <2>1
<1> QED
  BY <1>1, <1>4, <1>5, <1>6, <1>7, <1>8, <1>9, <1>10 DEF PartInv

\* A request that is about no visit ends.
LEMMA PartEnds ==
  ASSUME PartInv, SideAssumption, NEW h \in Http, Partners!End(h),
         UNCHANGED <<role, link, visits>>, ~short',
         code' \in [Travellers -> Codes \cup {Partners!None}],
         \A u \in Travellers : code[u] # Partners!None => code'[u] = code[u],
         unknown \subseteq unknown', lost \subseteq lost',
         partnerSpent' \in 0..(Limit + 1), partnerSpent <= partnerSpent',
         credit' = credit \/ /\ credit' \in [Credited -> [by : Travellers \cup {Partners!None},
                                  referrer : Codes \cup {Partners!None}, made : BOOLEAN]]
                             /\ Partners!ReferrerCredited',
         partnerRequest[h].op # "click",
         partnerRequest[h].op = "partner" =>
           \/ code'[partnerRequest[h].user] # Partners!None
           \/ <<"partner", partnerRequest[h].user>> \in lost'
  PROVE  PartInv'
<1>1. PICK r \in PartRequests : r = Partners!Rest /\ r.op = "rest"
  BY PartRest
<1>2. partnerRequest' = [partnerRequest EXCEPT ![h] = r] /\ role \subseteq Travellers
  BY <1>1 DEF Partners!End, PartInv, PartShapes
<1>3. partnerRequest'[h] = r
  BY <1>2, PartGoes DEF PartInv
<1>4. PartFound(h)'
  BY <1>1, <1>3 DEF PartFound
<1> QED
  BY <1>1, <1>2, <1>4, PartStep

\* A request goes on to where it knows more, and changes nothing.
LEMMA PartOnly ==
  ASSUME PartInv, SideAssumption, NEW h \in Http, NEW r \in PartRequests,
         partnerRequest' = [partnerRequest EXCEPT ![h] = r], Partners!Only,
         partnerRequest[h].op # "click", r.op = partnerRequest[h].op,
         r.id = partnerRequest[h].id,
         r.op = "partner" => r.user = partnerRequest[h].user, PartFound(h)'
  PROVE  PartInv'
<1>1. UNCHANGED <<role, code, link, credit, visits, unknown, lost, short, partnerSpent>>
  BY DEF Partners!Only, Partners!stored, Partners!history
<1>2. /\ role' \subseteq Travellers /\ code' \in [Travellers -> Codes \cup {Partners!None}]
      /\ \A u \in Travellers : code[u] # Partners!None => code'[u] = code[u]
      /\ unknown \subseteq unknown' /\ \A x \in lost : x \in lost'
      /\ partnerSpent' \in 0..(Limit + 1) /\ partnerSpent <= partnerSpent' /\ ~short'
  BY <1>1, PartFields DEF PartInv, PartShapes
<1> QED
  BY <1>1, <1>2, PartStep

\* Becoming a partner.
LEMMA PartBecomes ==
  ASSUME PartInv, SideAssumption, NEW h \in Http,
         Partners!UpdateRole(h) \/ Partners!LookForPartner(h) \/ Partners!CreatePartner(h)
  PROVE  PartInv'
<1> DEFINE old == partnerRequest[h]
<1>1. /\ old.op = "partner" /\ old \in PartRequests /\ old.code \in Codes /\ old.user \in Travellers
      /\ partnerSpent \in 0..(Limit + 1) /\ partnerSpent <= partnerSpent
      /\ role \subseteq Travellers /\ code \in [Travellers -> Codes \cup {Partners!None}] /\ ~short
      /\ Partners!None \notin Codes /\ PartShapes
  <2>1. old.op = "partner" /\ PartFound(h)
    BY DEF PartInv, Partners!UpdateRole, Partners!LookForPartner, Partners!CreatePartner,
       Partners!At
  <2>2. old.code \in Codes /\ old.user \in Travellers
    BY <2>1 DEF PartFound
  <2> QED
    BY <2>1, <2>2, PartFields DEF PartInv, PartShapes
<1>2. PICK look \in PartRequests, make \in PartRequests :
        /\ look = [old EXCEPT !.at = "look"] /\ look.op = "partner" /\ look.user = old.user
        /\ look.code = old.code /\ look.id = old.id
        /\ make = [old EXCEPT !.at = "create"] /\ make.op = "partner" /\ make.user = old.user
        /\ make.code = old.code /\ make.id = old.id
  <2>1. old \in PartRequests /\ old.op = "partner"
    BY <1>1
  <2> HIDE DEF old
  <2> DEFINE a == [old EXCEPT !.at = "look"]
             b == [old EXCEPT !.at = "create"]
  <2>2. /\ a \in PartRequests /\ a.op = "partner" /\ a.user = old.user /\ a.code = old.code
        /\ a.id = old.id
        /\ b \in PartRequests /\ b.op = "partner" /\ b.user = old.user /\ b.code = old.code
        /\ b.id = old.id
    BY <2>1 DEF PartRequests
  <2> QED
    BY <2>2
<1>3. CASE Partners!UpdateRole(h)
  <2>1. /\ partnerRequest' = [partnerRequest EXCEPT ![h] = look]
        /\ role' \in {role \cup {old.user}, role \ {old.user}}
        /\ UNCHANGED <<code, link, credit, visits, unknown, lost, short, partnerSpent>>
    BY <1>2, <1>3 DEF Partners!UpdateRole, Partners!Go, Partners!history
  <2>2. partnerRequest'[h] = look
    BY <1>1, <2>1, PartGoes
  <2>3. PartFound(h)'
    BY <1>1, <1>2, <2>2 DEF PartFound
  <2> QED
    BY <1>1, <1>2, <2>1, <2>3, PartStep
<1>4. CASE Partners!LookForPartner(h) /\ code[old.user] = Partners!None
  <2>1. partnerRequest' = [partnerRequest EXCEPT ![h] = make] /\ Partners!Only
    BY <1>2, <1>4 DEF Partners!LookForPartner, Partners!Go
  <2>2. partnerRequest'[h] = make
    BY <1>1, <2>1, PartGoes
  <2>3. PartFound(h)'
    BY <1>1, <1>2, <2>2 DEF PartFound
  <2> QED
    BY <1>1, <1>2, <2>1, <2>3, PartOnly
<1>5. CASE Partners!LookForPartner(h) /\ code[old.user] # Partners!None
  <2>1. /\ Partners!End(h)
        /\ UNCHANGED <<role, code, link, credit, visits, unknown, lost, short, partnerSpent>>
    BY <1>5 DEF Partners!LookForPartner, Partners!Only, Partners!stored, Partners!history
  <2> QED
    BY <1>1, <1>5, <2>1, PartEnds
<1>6. CASE Partners!CreatePartner(h)
  <2>1. /\ Partners!End(h) /\ UNCHANGED <<role, link, credit, visits, unknown, short, partnerSpent>>
        /\ \/ code' = code /\ lost' = lost \cup {<<"partner", old.user>>}
           \/ /\ code[old.user] = Partners!None /\ code' = [code EXCEPT ![old.user] = old.code]
              /\ lost' = lost
    BY <1>6 DEF Partners!CreatePartner, Partners!Fail
  <2>2. /\ code' \in [Travellers -> Codes \cup {Partners!None}]
        /\ \A u \in Travellers : code[u] # Partners!None => code'[u] = code[u]
        /\ code'[old.user] # Partners!None \/ <<"partner", old.user>> \in lost'
    BY <1>1, <2>1
  <2> QED
    BY <1>1, <2>1, <2>2, PartEnds
<1> QED
  BY <1>3, <1>4, <1>5, <1>6

\* Looking for the partner of a link or a claim.
LEMMA PartLooks ==
  ASSUME PartInv, SideAssumption, NEW h \in Http,
         Partners!LookForLink(h) \/ Partners!LookUpReferrer(h)
  PROVE  PartInv'
<1> DEFINE old == partnerRequest[h]
<1>1. /\ old.op \in {"link", "claim", "assign"} /\ old \in PartRequests /\ Partners!Only
      /\ PartShapes /\ PartFound(h) /\ old.code \in Codes
      /\ partnerSpent \in 0..(Limit + 1) /\ partnerSpent <= partnerSpent
      /\ Partners!None \notin Travellers /\ Partners!None \notin Codes
  BY PartFields DEF PartInv, PartFound, Partners!LookForLink, Partners!LookUpReferrer, Partners!At
<1>2. CASE Partners!End(h)
  <2>1. UNCHANGED <<role, code, link, credit, visits, unknown, lost, short, partnerSpent>>
    BY <1>1 DEF Partners!Only, Partners!stored, Partners!history
  <2> QED
    BY <1>1, <1>2, <2>1, PartEnds DEF PartInv, PartShapes
<1>3. CASE Partners!LookForLink(h) /\ ~Partners!End(h)
  <2>1. /\ partnerRequest' = [partnerRequest EXCEPT ![h] = [old EXCEPT !.at = "create"]]
        /\ old.op = "link" /\ Partners!PartnersOf(old.code) # {}
    BY <1>3 DEF Partners!LookForLink, Partners!Go, Partners!At
  <2>2. PICK r \in PartRequests :
          /\ r = [old EXCEPT !.at = "create"] /\ r.op = "link" /\ r.at = "create"
          /\ r.code = old.code /\ r.source = old.source /\ r.id = old.id
    <3>1. old \in PartRequests /\ old.op = "link"
      BY <1>1, <2>1
    <3> HIDE DEF old
    <3> DEFINE a == [old EXCEPT !.at = "create"]
    <3>2. /\ a \in PartRequests /\ a.op = "link" /\ a.at = "create"
          /\ a.code = old.code /\ a.source = old.source /\ a.id = old.id
      BY <3>1 DEF PartRequests
    <3> QED
      BY <3>2
  <2>3. partnerRequest'[h] = r /\ code' = code
    BY <1>1, <2>1, <2>2, PartGoes DEF Partners!Only, Partners!stored
  <2>4. PartFound(h)'
    BY <1>1, <2>1, <2>2, <2>3 DEF PartFound, Partners!Place, Partners!PartnersOf
  <2> QED
    BY <1>1, <2>1, <2>2, <2>4, PartOnly
<1>4. CASE Partners!LookUpReferrer(h) /\ ~Partners!End(h)
  <2> DEFINE found == Partners!PartnersOf(old.code)
  <2>1. PICK u \in Travellers \cup {Partners!None} :
          /\ partnerRequest' = [partnerRequest EXCEPT ![h] = [old EXCEPT !.at = "save", !.user = u]]
          /\ IF found = {} THEN u = Partners!None ELSE u \in found
          /\ found = {} => old.op # "assign"
    <3>1. found # {} => (CHOOSE u \in found : TRUE) \in found
      OBVIOUS
    <3>2. found \subseteq Travellers
      BY DEF Partners!PartnersOf
    <3> HIDE DEF found
    <3>3. /\ found = {} => old.op # "assign"
          /\ partnerRequest' = [partnerRequest EXCEPT ![h].at = "save",
               ![h].user = IF found = {} THEN Partners!None ELSE CHOOSE u \in found : TRUE]
      BY <1>4 DEF Partners!LookUpReferrer, found
    <3> QED
      BY <3>1, <3>2, <3>3
  <2>2. PICK r \in PartRequests :
          /\ r = [old EXCEPT !.at = "save", !.user = u] /\ r.op = old.op /\ r.at = "save"
          /\ r.user = u /\ r.code = old.code /\ r.claim = old.claim /\ r.id = old.id
    <3>1. old \in PartRequests
      BY <1>1
    <3> HIDE DEF old
    <3> DEFINE a == [old EXCEPT !.at = "save", !.user = u]
    <3>2. /\ a \in PartRequests /\ a.op = old.op /\ a.at = "save" /\ a.user = u
          /\ a.code = old.code /\ a.claim = old.claim /\ a.id = old.id
      BY <2>1, <3>1 DEF PartRequests
    <3> QED
      BY <3>2
  <2>3. partnerRequest'[h] = r /\ code' = code /\ unknown' = unknown
    BY <1>1, <2>1, <2>2, PartGoes DEF Partners!Only, Partners!stored, Partners!history
  <2>4. /\ old.op \in {"claim", "assign"} /\ old.at = "partner" /\ old.claim \in Credited
        /\ found = {} /\ old.op = "claim" => old.claim \in unknown
        /\ u # Partners!None => code[u] = old.code
    BY <1>1, <1>4, <2>1 DEF PartFound, Partners!LookUpReferrer, Partners!PartnersOf
  <2>5. PartFound(h)'
    <3>1. IF u = Partners!None THEN old.op = "claim" /\ old.claim \in unknown
                               ELSE code[u] = old.code
      BY <1>1, <2>1, <2>4 DEF Partners!PartnersOf
    <3> QED
      BY <1>1, <2>2, <2>3, <2>4, <3>1 DEF PartFound
  <2> QED
    BY <1>1, <2>1, <2>2, <2>4, <2>5, PartOnly
<1> QED
  BY <1>2, <1>3, <1>4

\* A request begins that is about no visit.
LEMMA PartBegun ==
  ASSUME PartInv, SideAssumption, NEW h \in Http, NEW r \in PartRequests,
         partnerRequest[h] = Partners!Rest,
         partnerRequest' = [partnerRequest EXCEPT ![h] = r], Partners!Spend,
         UNCHANGED <<role, code, link, credit, visits, short>>,
         unknown \subseteq unknown', \A x \in lost : x = <<"answer", h>> \/ x \in lost',
         r.op \in {"partner", "link", "delete", "claim", "assign", "stats"},
         r.op \in {"partner", "link", "claim", "assign"} => r.code \in Codes,
         r.op = "partner" => r.user \in Travellers,
         r.op \in {"link", "delete"} => r.code \in Codes /\ r.source \in Sources,
         r.op \in {"claim", "assign"} => r.claim \in Credited /\ r.at = "partner",
         r.op = "link" => r.at = "look" /\ r.id = partnerSpent + 1,
         r.op = "claim" /\ Partners!PartnersOf(r.code) = {} => r.claim \in unknown',
         r.op = "stats" => r.at = "days" /\ (r.code = Partners!None => r.source = Partners!None)
  PROVE  PartInv'
<1>1. /\ partnerSpent \in 0..(Limit + 1) /\ Limit \in Nat /\ Partners!Rest.op = "rest"
      /\ PartShapes /\ role \subseteq Travellers /\ ~short
      /\ code \in [Travellers -> Codes \cup {Partners!None}]
  BY PartRest, PartFields DEF PartInv, PartShapes
<1>2. partnerSpent' = partnerSpent + 1 /\ partnerSpent < Limit + 1
  BY DEF Partners!Spend
<1>3. partnerSpent' \in 0..(Limit + 1) /\ partnerSpent <= partnerSpent'
  BY <1>1, <1>2
<1>4. partnerRequest'[h] = r
  BY <1>1, PartGoes
<1>5. PartFound(h)'
  BY <1>4 DEF PartFound, Partners!Place, Places, Partners!PartnersOf
<1> QED
  BY <1>1, <1>2, <1>3, <1>5, PartStep

LEMMA PartBegins ==
  ASSUME PartInv, SideAssumption, NEW h \in Http,
         \/ \E u \in Travellers, c \in Codes : Partners!BeginPartner(h, u, c)
         \/ \E l \in Places : \/ Partners!BeginLink(h, l[1], l[2]) \/ Partners!BeginDelete(h, l)
                              \/ Partners!BeginStats(h, Partners!None, l[1], l[2])
         \/ \E c \in Credited, f \in Codes : \/ Partners!BeginClaim(h, c, f)
                                             \/ Partners!BeginAssign(h, c, f)
         \/ \E u \in Travellers \cup {Partners!None} :
              Partners!BeginStats(h, u, Partners!None, Partners!None)
  PROVE  PartInv'
<1>1. /\ partnerSpent \in Nat /\ Partners!Rest \in PartRequests
      /\ \A l \in Places : link[l].id \in Nat
      /\ \A l \in Places : l[1] \in Codes /\ l[2] \in Sources
      /\ Partners!None \notin Codes
  BY PartRest, PartFields DEF PartInv, Places
<1>2. CASE \E u \in Travellers, c \in Codes : Partners!BeginPartner(h, u, c)
  <2>1. PICK u \in Travellers, c \in Codes : Partners!BeginPartner(h, u, c)
    BY <1>2
  <2> DEFINE r == [[Partners!Rest EXCEPT !.op = "partner", !.user = u, !.code = c] EXCEPT !.at = "role"]
  <2>2. /\ partnerRequest[h] = Partners!Rest
        /\ partnerRequest' = [partnerRequest EXCEPT ![h] = r] /\ Partners!Spend
        /\ UNCHANGED <<role, code, link, credit, visits, short, unknown, lost>>
    BY <2>1 DEF Partners!BeginPartner, Partners!Begin, Partners!stored, Partners!history
  <2>3. /\ r \in PartRequests /\ r.op = "partner" /\ r.user = u /\ r.code = c
    BY <1>1 DEF Partners!Rest, PartRequests
  <2> HIDE DEF r
  <2> QED
    BY <2>2, <2>3, PartBegun
<1>3. CASE \E l \in Places : Partners!BeginLink(h, l[1], l[2])
  <2>1. PICK l \in Places, n \in Nat : Partners!BeginLink(h, l[1], l[2]) /\ n = partnerSpent + 1
    BY <1>1, <1>3
  <2> DEFINE r == [[Partners!Rest EXCEPT !.op = "link", !.code = l[1], !.source = l[2],
                                     !.id = n] EXCEPT !.at = "look"]
  <2>2. /\ partnerRequest[h] = Partners!Rest
        /\ partnerRequest' = [partnerRequest EXCEPT ![h] = r] /\ Partners!Spend
        /\ UNCHANGED <<role, code, link, credit, visits, short, unknown, lost>>
    BY <2>1 DEF Partners!BeginLink, Partners!Begin, Partners!stored, Partners!history
  <2>3. /\ r \in PartRequests /\ r.op = "link" /\ r.at = "look" /\ r.code = l[1]
        /\ r.source = l[2] /\ r.id = n
    BY <1>1 DEF Partners!Rest, PartRequests
  <2> HIDE DEF r
  <2> QED
    BY <1>1, <2>1, <2>2, <2>3, PartBegun
<1>4. CASE \E l \in Places : Partners!BeginDelete(h, l)
  <2>1. PICK l \in Places : Partners!BeginDelete(h, l)
    BY <1>4
  <2> DEFINE r == [[Partners!Rest EXCEPT !.op = "delete", !.code = l[1], !.source = l[2],
                                     !.id = link[l].id] EXCEPT !.at = "delete"]
  <2>2. /\ partnerRequest[h] = Partners!Rest
        /\ partnerRequest' = [partnerRequest EXCEPT ![h] = r] /\ Partners!Spend
        /\ UNCHANGED <<role, code, link, credit, visits, short, unknown, lost>>
    BY <2>1 DEF Partners!BeginDelete, Partners!Begin, Partners!stored, Partners!history
  <2>3. r \in PartRequests /\ r.op = "delete" /\ r.code = l[1] /\ r.source = l[2]
    BY <1>1 DEF Partners!Rest, PartRequests
  <2> HIDE DEF r
  <2> QED
    BY <1>1, <2>2, <2>3, PartBegun
<1>5. CASE \E c \in Credited, f \in Codes :
             Partners!BeginClaim(h, c, f) \/ Partners!BeginAssign(h, c, f)
  <2>1. PICK c \in Credited, f \in Codes, op \in {"claim", "assign"} :
          /\ op = "claim" => Partners!BeginClaim(h, c, f)
          /\ op = "assign" => Partners!BeginAssign(h, c, f)
    BY <1>5
  <2> DEFINE r == [[Partners!Rest EXCEPT !.op = op, !.claim = c, !.code = f] EXCEPT !.at = "partner"]
  <2>2. /\ partnerRequest[h] = Partners!Rest
        /\ partnerRequest' = [partnerRequest EXCEPT ![h] = r] /\ Partners!Spend
        /\ UNCHANGED <<role, code, link, credit, visits, short, lost>>
        /\ unknown \subseteq unknown'
        /\ op = "claim" /\ Partners!PartnersOf(f) = {} => c \in unknown'
    BY <2>1 DEF Partners!BeginClaim, Partners!BeginAssign, Partners!Begin, Partners!stored, Partners!history
  <2>3. /\ r \in PartRequests /\ r.op = op /\ r.at = "partner" /\ r.code = f /\ r.claim = c
    BY <1>1 DEF Partners!Rest, PartRequests
  <2> HIDE DEF r
  <2> QED
    BY <2>1, <2>2, <2>3, PartBegun
<1>6. CASE \/ \E l \in Places : Partners!BeginStats(h, Partners!None, l[1], l[2])
           \/ \E u \in Travellers \cup {Partners!None} :
                Partners!BeginStats(h, u, Partners!None, Partners!None)
  <2>1. PICK u \in Travellers \cup {Partners!None}, c \in Codes \cup {Partners!None},
             s \in Sources \cup {Partners!None} :
          Partners!BeginStats(h, u, c, s) /\ (c = Partners!None => s = Partners!None)
    BY <1>1, <1>6
  <2> DEFINE r == [[Partners!Rest EXCEPT !.op = "stats", !.user = u, !.code = c, !.source = s]
              EXCEPT !.at = "days"]
  <2>2. /\ partnerRequest[h] = Partners!Rest
        /\ partnerRequest' = [partnerRequest EXCEPT ![h] = r] /\ Partners!Spend
        /\ UNCHANGED <<role, code, link, credit, visits, short, unknown>>
        /\ lost' = lost \ {<<"answer", h>>}
    BY <2>1 DEF Partners!BeginStats, Partners!Begin, Partners!stored
  <2>3. r \in PartRequests /\ r.op = "stats" /\ r.at = "days" /\ r.code = c /\ r.source = s
    BY <1>1 DEF Partners!Rest, PartRequests
  <2> HIDE DEF r
  <2> QED
    BY <2>1, <2>2, <2>3, PartBegun
<1> QED
  BY <1>2, <1>3, <1>4, <1>5, <1>6

\* Who is credited with a claim.
LEMMA PartSaves ==
  ASSUME PartInv, SideAssumption, NEW h \in Http, Partners!SaveReferrer(h)
  PROVE  PartInv'
<1> DEFINE old == partnerRequest[h]
           new == [by |-> old.user, referrer |-> old.code, made |-> TRUE]
<1>1. /\ old.op \in {"claim", "assign"} /\ old.at = "save" /\ Partners!End(h)
      /\ UNCHANGED <<role, code, link, visits, unknown, lost, short, partnerSpent>>
      /\ credit' = [credit EXCEPT ![old.claim] =
           IF old.op = "claim" \/ @.made THEN new ELSE @]
  BY DEF Partners!SaveReferrer, Partners!history
<1>2. /\ old.code \in Codes /\ old.claim \in Credited /\ old.user \in Travellers \cup {Partners!None}
      /\ IF old.user = Partners!None THEN old.claim \in unknown ELSE code[old.user] = old.code
  BY <1>1, PartFields DEF PartInv, PartFound
<1>3. new \in [by : Travellers \cup {Partners!None}, referrer : Codes \cup {Partners!None},
               made : BOOLEAN]
  BY <1>2
<1>4. /\ credit \in [Credited -> [by : Travellers \cup {Partners!None},
                                  referrer : Codes \cup {Partners!None}, made : BOOLEAN]]
      /\ code \in [Travellers -> Codes \cup {Partners!None}] /\ partnerSpent \in 0..(Limit + 1)
      /\ partnerSpent <= partnerSpent /\ ~short /\ Partners!ReferrerCredited
  BY PartFields DEF PartInv, PartShapes
<1>5. /\ credit' \in [Credited -> [by : Travellers \cup {Partners!None},
                                   referrer : Codes \cup {Partners!None}, made : BOOLEAN]]
      /\ \A c \in Credited : credit'[c] = credit[c] \/ (credit'[c] = new /\ c = old.claim)
  BY <1>1, <1>2, <1>3, <1>4
<1>6. new.by = old.user /\ new.referrer = old.code
  OBVIOUS
<1> HIDE DEF new, old
<1>7. Partners!ReferrerCredited'
  BY <1>1, <1>2, <1>4, <1>5, <1>6 DEF Partners!ReferrerCredited, Credited
<1> QED
  BY <1>1, <1>4, <1>5, <1>7, PartEnds DEF old

LEMMA PartUnassigns ==
  ASSUME PartInv, SideAssumption, NEW c \in Credited, Partners!Unassign(c)
  PROVE  PartInv'
<1>1. /\ partnerSpent' = partnerSpent + 1 /\ partnerSpent < Limit + 1
      /\ credit' = [credit EXCEPT ![c].by = Partners!None, ![c].referrer = Partners!None]
      /\ UNCHANGED <<role, code, link, partnerRequest, visits, unknown, lost, short>>
  BY DEF Partners!Unassign, Partners!Spend, Partners!history
<1>2. /\ partnerSpent \in 0..(Limit + 1) /\ Limit \in Nat /\ PartShapes
      /\ credit \in [Credited -> [by : Travellers \cup {Partners!None},
                                  referrer : Codes \cup {Partners!None}, made : BOOLEAN]]
  BY PartFields DEF PartInv, PartShapes
<1>3. /\ credit' \in [Credited -> [by : Travellers \cup {Partners!None},
                                   referrer : Codes \cup {Partners!None}, made : BOOLEAN]]
      /\ \A d \in Credited : credit'[d] = credit[d] \/ credit'[d].referrer = Partners!None
  BY <1>1, <1>2
<1>4. PartShapes'
  BY <1>1, <1>2, <1>3 DEF PartShapes
<1>5. Partners!ReferrerCredited'
  BY <1>1, <1>3 DEF PartInv, Partners!ReferrerCredited, Credited
<1>6. PartIds' /\ PartClicks'
  <2>1. \A l \in Places : /\ link[l].id \in Nat /\ link[l].clicks \in Nat
                          /\ Cardinality(Visiting(l)) \in Nat
    BY <1>2, PartFields, PartFinite
  <2>2. \A l \in Places : Visiting(l)' = Visiting(l) /\ Counting(l)' = Counting(l)
    BY <1>1 DEF Visiting, Counting, Partners!Place
  <2>3. PartIds'
    BY <1>1, <1>2, <2>1 DEF PartInv, PartIds
  <2>4. PartClicks'
    <3> SUFFICES ASSUME NEW l \in Places
                 PROVE  /\ link[l].clicks + Cardinality(Visiting(l)) <= partnerSpent'
                        /\ link[l] # Partners!NoLink /\ <<"visit", l>> \notin lost =>
                             link[l].clicks + Cardinality(Counting(l)) >= visits[link[l].id]
      BY <1>1, <2>2 DEF PartClicks
    <3>1. /\ link[l].clicks + Cardinality(Visiting(l)) <= partnerSpent
          /\ link[l] # Partners!NoLink /\ <<"visit", l>> \notin lost =>
               link[l].clicks + Cardinality(Counting(l)) >= visits[link[l].id]
      BY DEF PartInv, PartClicks
    <3> QED
      BY <1>1, <1>2, <2>1, <3>1
  <2> QED
    BY <2>3, <2>4
<1>7. \A h \in Http : PartFound(h)'
  <2> DEFINE nobody == {h \in Http : h \notin h}
  <2>1. nobody \notin Http
    OBVIOUS
  <2> HIDE DEF nobody
  <2>2. \A h \in Http \ {nobody} : PartFound(h)'
    BY <1>1, PartOthers
  <2> QED
    BY <2>1, <2>2
<1> QED
  BY <1>1, <1>4, <1>5, <1>6, <1>7 DEF PartInv, Partners!RoleHasPartner, Partners!LinkOfItsCode

\* An administrator gives or takes a role: what is noted of it is about the role
\* alone.
LEMMA PartEditsRole ==
  ASSUME PartInv, SideAssumption, NEW v \in Travellers, Partners!EditRole(v)
  PROVE  PartInv'
<1>1. /\ partnerSpent' = partnerSpent + 1 /\ partnerSpent < Limit + 1
      /\ \/ v \in role /\ role' = role \ {v} /\ lost' = lost \ {<<"role", v>>}
         \/ role' = role \cup {v} /\ lost' = lost \cup {<<"role", v>>}
      /\ UNCHANGED <<code, link, credit, partnerRequest, visits, unknown, short>>
  BY DEF Partners!EditRole, Partners!Spend
<1>2. /\ partnerSpent \in 0..(Limit + 1) /\ Limit \in Nat /\ PartShapes
      /\ role \subseteq Travellers
  BY PartFields DEF PartInv, PartShapes
<1>3. /\ \A l : <<"visit", l>> \in lost' <=> <<"visit", l>> \in lost
      /\ \A k : <<"answer", k>> \in lost' <=> <<"answer", k>> \in lost
      /\ \A u : <<"partner", u>> \in lost' <=> <<"partner", u>> \in lost
  <2>1. \A x : /\ <<"visit", x>> # <<"role", v>> /\ <<"answer", x>> # <<"role", v>>
               /\ <<"partner", x>> # <<"role", v>>
    OBVIOUS
  <2> QED
    BY <1>1, <2>1
<1>4. PartShapes'
  BY <1>1, <1>2 DEF PartShapes
<1>5. Partners!ReferrerCredited' /\ Partners!LinkOfItsCode'
  BY <1>1 DEF PartInv, Partners!ReferrerCredited, Partners!LinkOfItsCode
<1>6. PartIds' /\ PartClicks'
  <2>1. \A l \in Places : /\ link[l].id \in Nat /\ link[l].clicks \in Nat
                          /\ Cardinality(Visiting(l)) \in Nat
    BY <1>2, PartFields, PartFinite
  <2>2. \A l \in Places : Visiting(l)' = Visiting(l) /\ Counting(l)' = Counting(l)
    BY <1>1 DEF Visiting, Counting, Partners!Place
  <2>3. PartIds'
    BY <1>1, <1>2, <2>1 DEF PartInv, PartIds
  <2>4. PartClicks'
    <3> SUFFICES ASSUME NEW l \in Places
                 PROVE  /\ link[l].clicks + Cardinality(Visiting(l)) <= partnerSpent'
                        /\ link[l] # Partners!NoLink /\ <<"visit", l>> \notin lost =>
                             link[l].clicks + Cardinality(Counting(l)) >= visits[link[l].id]
      BY <1>1, <1>3, <2>2 DEF PartClicks
    <3>1. /\ link[l].clicks + Cardinality(Visiting(l)) <= partnerSpent
          /\ link[l] # Partners!NoLink /\ <<"visit", l>> \notin lost =>
               link[l].clicks + Cardinality(Counting(l)) >= visits[link[l].id]
      BY DEF PartInv, PartClicks
    <3> QED
      BY <1>1, <1>2, <2>1, <3>1
  <2> QED
    BY <2>3, <2>4
<1>7. \A h \in Http : PartFound(h)'
  <2> TAKE h \in Http
  <2>1. PartFound(h) /\ \A u : ClicksOf(u)' = ClicksOf(u)
    BY <1>1 DEF PartInv, ClicksOf, Partners!Clicks
  <2> QED
    BY <1>1, <1>3, <2>1 DEF PartFound, Partners!Place, Partners!PartnersOf
<1>8. Partners!RoleHasPartner'
  <2> SUFFICES ASSUME NEW u \in role'
               PROVE  \/ code[u] # Partners!None
                      \/ <<"role", u>> \in lost' \/ <<"partner", u>> \in lost'
                      \/ \E h \in Http : partnerRequest[h].op = "partner" /\ partnerRequest[h].user = u
    BY <1>1 DEF Partners!RoleHasPartner
  <2>1. CASE u = v
    BY <1>1, <2>1
  <2>2. CASE u # v
    <3>1. u \in role /\ <<"role", u>> # <<"role", v>>
      BY <1>1, <2>2
    <3>2. \/ code[u] # Partners!None
          \/ <<"role", u>> \in lost \/ <<"partner", u>> \in lost
          \/ \E h \in Http : partnerRequest[h].op = "partner" /\ partnerRequest[h].user = u
      BY <3>1 DEF PartInv, Partners!RoleHasPartner
    <3> QED
      BY <1>1, <1>3, <3>1, <3>2
  <2> QED
    BY <2>1, <2>2
<1> QED
  BY <1>1, <1>4, <1>5, <1>6, <1>7, <1>8 DEF PartInv

\* The statistics.
LEMMA PartClicksNat ==
  ASSUME SideAssumption, NEW S
  PROVE  Partners!Clicks(S) \in Nat
<1> DEFINE All == Places \X (1..(Limit + 1))
           T == {c \in All : c[1] \in S /\ c[2] <= link[c[1]].clicks}
<1>1. Partners!Clicks(S) = Cardinality(T)
  BY PartNumbers DEF Partners!Clicks, Partners!Links, Places
<1>2. IsFiniteSet(All)
  <2>1. IsFiniteSet(Codes) /\ IsFiniteSet(Sources) /\ Limit + 1 \in Int /\ 1 \in Int
    BY DEF SideAssumption
  <2>2. IsFiniteSet(Codes \X Sources) /\ IsFiniteSet(1..(Limit + 1))
    BY <2>1, FS_Product, FS_Interval
  <2> QED
    BY <2>2, FS_Product DEF Places
<1>3. T \in SUBSET All
  OBVIOUS
<1> HIDE DEF T, All
<1> QED
  BY <1>1, <1>2, <1>3, FS_Subset, FS_CardinalityType

LEMMA PartSums ==
  ASSUME PartInv, SideAssumption, NEW h \in Http, Partners!SumDays(h) \/ Partners!SumTotal(h)
  PROVE  PartInv'
<1> DEFINE old == partnerRequest[h]
<1>1. /\ old.op = "stats" /\ old \in PartRequests /\ PartFound(h) /\ PartShapes
      /\ partnerSpent \in 0..(Limit + 1) /\ partnerSpent <= partnerSpent /\ ~short
      /\ code \in [Travellers -> Codes \cup {Partners!None}]
      /\ ClicksOf(old.user) \in Nat /\ old.sum \in Nat
  BY PartFields, PartClicksNat
     DEF PartInv, PartShapes, Partners!SumDays, Partners!SumTotal, Partners!At, ClicksOf
<1>2. CASE Partners!SumDays(h)
  <2> DEFINE n == Partners!Clicks({l \in Partners!Links :
                    /\ old.user # Partners!None => link[l].of = old.user
                    /\ old.source # Partners!None => l[2] = old.source})
             r == [old EXCEPT !.at = "total", !.sum = n]
  <2>1. /\ partnerRequest' = [partnerRequest EXCEPT ![h] = r] /\ Partners!Only /\ n \in Nat
        /\ old.code = Partners!None => n = ClicksOf(old.user)
    <3>1. old.code = Partners!None => old.source = Partners!None
      BY <1>1 DEF PartFound
    <3>2. old.code = Partners!None => n = ClicksOf(old.user)
      BY <3>1 DEF ClicksOf, Partners!Links, Places
    <3> QED
      BY <1>2, <3>2, PartClicksNat DEF Partners!SumDays
  <2> HIDE DEF n
  <2>2. /\ r \in PartRequests /\ r.op = old.op /\ r.id = old.id /\ r.at = "total"
        /\ r.sum = n /\ r.code = old.code /\ r.user = old.user /\ r.source = old.source
    <3>1. old \in PartRequests /\ n \in Nat
      BY <1>1, <2>1
    <3> HIDE DEF old
    <3> QED
      BY <3>1 DEF PartRequests
  <2>3. PICK q : q = r /\ q \in PartRequests
    BY <2>2
  <2> HIDE DEF r
  <2>4. partnerRequest'[h] = q /\ link' = link /\ lost' = lost
    BY <1>1, <2>1, <2>3, PartGoes DEF Partners!Only, Partners!stored, Partners!history
  <2>5. \A u : ClicksOf(u)' = ClicksOf(u)
    BY <2>4 DEF ClicksOf, Partners!Clicks
  <2>6. PartFound(h)'
    BY <1>1, <2>1, <2>2, <2>3, <2>4, <2>5 DEF PartFound
  <2> QED
    BY <1>1, <2>1, <2>2, <2>3, <2>6, PartOnly
<1>3. CASE Partners!SumTotal(h)
  <2> DEFINE n == Partners!Clicks({l \in Partners!Links :
                    /\ old.user # Partners!None => link[l].of = old.user
                    /\ old.code # Partners!None => l = Partners!Place(h)})
  <2>1. old.code = Partners!None => n = ClicksOf(old.user)
    BY DEF ClicksOf, Partners!Links, Places
  <2>2. /\ Partners!End(h)
        /\ UNCHANGED <<role, code, link, credit, visits, unknown, lost, partnerSpent>>
        /\ short' = (short \/ /\ <<"answer", h>> \notin lost /\ old.code = Partners!None
                              /\ old.sum > n)
        /\ old.at = "total"
    BY <1>3 DEF Partners!SumTotal, Partners!stored, Partners!At
  <2> HIDE DEF n
  <2>3. ~short'
    <3>1. old.code = Partners!None /\ <<"answer", h>> \notin lost => old.sum <= ClicksOf(old.user)
      BY <1>1, <2>2 DEF PartFound
    <3>2. <<"answer", h>> \notin lost /\ old.code = Partners!None => ~(old.sum > n)
      BY <1>1, <2>1, <3>1
    <3> QED
      BY <1>1, <2>2, <3>2
  <2> QED
    BY <1>1, <2>2, <2>3, PartEnds
<1> QED
  BY <1>2, <1>3

\* A request that is about no visit ends with the links it changed.
LEMMA PartLinkStep ==
  ASSUME PartInv, SideAssumption, NEW h \in Http, Partners!End(h),
         UNCHANGED <<role, code, credit, visits, short, unknown, partnerSpent>>,
         partnerRequest[h].op \in {"link", "delete"}, lost \subseteq lost',
         link' \in [Places -> [id : Nat, clicks : Nat, of : Travellers \cup {Partners!None}]],
         \A l \in Places : \/ link'[l] = link[l] \/ link'[l] = Partners!NoLink
                           \/ /\ partnerRequest[h].op = "link" /\ l = Partners!Place(h)
                              /\ link[l] = Partners!NoLink /\ link'[l].clicks = 0
                              /\ link'[l].id = partnerRequest[h].id
                              /\ link'[l].of \in Partners!PartnersOf(l[1]),
         \A k \in Http \ {h} : PartFound(k)'
  PROVE  PartInv'
<1>1. /\ PartShapes /\ PartIds /\ PartClicks /\ Partners!RoleHasPartner
      /\ Partners!LinkOfItsCode /\ Partners!ReferrerCredited /\ ~short
      /\ \A l \in Places : link[l] # Partners!NoLink => link[l].of \in Travellers
  BY DEF PartInv
<1>2. PICK r \in PartRequests : r = Partners!Rest /\ r.op = "rest"
  BY PartRest
<1>3. /\ partnerRequest' \in [Http -> PartRequests] /\ partnerRequest'[h].op = "rest"
      /\ \A k \in Http \ {h} : partnerRequest'[k] = partnerRequest[k]
  BY <1>1, <1>2, PartGoes DEF Partners!End
<1>4. /\ partnerSpent \in Nat /\ Limit \in Nat /\ Partners!None \notin Codes
      /\ Partners!NoLink.id = 0 /\ Partners!NoLink.clicks = 0
      /\ \A l \in Places : /\ link[l].id \in Nat /\ link[l].clicks \in Nat
                           /\ Cardinality(Visiting(l)) \in Nat /\ Cardinality(Counting(l)) \in Nat
  BY <1>1, PartFields, PartFinite DEF Partners!NoLink
<1>5. PartShapes'
  BY <1>1, <1>3 DEF PartShapes
<1>6. PartIds'
  <2>1. /\ \A l \in Places : link[l].id = 0 \/
             /\ link[l].id \in 1..partnerSpent
             /\ \A m \in Places \ {l} : link[m].id # link[l].id
             /\ \A k \in Http : partnerRequest[k].op = "link" => partnerRequest[k].id # link[l].id
        /\ \A k \in Http : partnerRequest[k].op = "link" =>
             partnerRequest[k].id \in 1..partnerSpent /\ visits[partnerRequest[k].id] = 0
    BY <1>1, <1>4 DEF PartIds
  <2>2. \A l \in Places : \/ link'[l].id = link[l].id \/ link'[l].id = 0
                          \/ /\ partnerRequest[h].op = "link" /\ l = Partners!Place(h)
                             /\ link'[l].id = partnerRequest[h].id
    BY <1>4
  <2>3. \A l \in Places : link'[l].id = 0 => link'[l] = Partners!NoLink
    BY <1>1, <1>4, <2>1 DEF PartIds
  <2>4. \A l \in Places : link'[l].id = 0 \/
             /\ link'[l].id \in 1..partnerSpent
             /\ \A m \in Places \ {l} : link'[m].id # link'[l].id
             /\ \A k \in Http \ {h} : partnerRequest[k].op = "link" =>
                  partnerRequest[k].id # link'[l].id
    <3>1. \A k \in Http \ {h} : partnerRequest[k].op = "link" /\ partnerRequest[h].op = "link" =>
            partnerRequest[k].id # partnerRequest[h].id
      BY <1>1 DEF PartIds
    <3> QED
      BY <1>4, <2>1, <2>2, <3>1
  <2> QED
    BY <1>1, <1>3, <2>1, <2>3, <2>4 DEF PartIds
<1>7. PartClicks'
  <2> SUFFICES ASSUME NEW l \in Places
               PROVE  /\ link'[l].clicks + Cardinality(Visiting(l)') <= partnerSpent
                      /\ link'[l] # Partners!NoLink /\ <<"visit", l>> \notin lost' =>
                           link'[l].clicks + Cardinality(Counting(l)') >= visits[link'[l].id]
    BY DEF PartClicks
  <2>1. Visiting(l)' = Visiting(l)
    BY <1>3 DEF Visiting, Partners!Place
  <2>2. /\ link[l].clicks + Cardinality(Visiting(l)) <= partnerSpent
        /\ link[l] # Partners!NoLink /\ <<"visit", l>> \notin lost =>
             link[l].clicks + Cardinality(Counting(l)) >= visits[link[l].id]
    BY <1>1 DEF PartClicks
  <2>3. CASE link'[l] = link[l]
    <3>1. Counting(l)' = Counting(l)
      BY <1>3, <2>1, <2>3 DEF Counting, Visiting
    <3> QED
      BY <2>1, <2>2, <2>3, <3>1
  <2>4. CASE link'[l] = Partners!NoLink
    BY <1>4, <2>1, <2>2, <2>4
  <2>5. CASE /\ partnerRequest[h].op = "link" /\ link[l] = Partners!NoLink
             /\ link'[l].clicks = 0 /\ link'[l].id = partnerRequest[h].id
    <3>1. visits[link'[l].id] = 0
      BY <1>1, <2>5 DEF PartIds
    <3>2. Cardinality(Counting(l)') \in Nat
      <4>1. Counting(l)' \in SUBSET Http /\ IsFiniteSet(Http)
        BY DEF Counting, Visiting, SideAssumption
      <4> QED
        BY <4>1, FS_Subset, FS_CardinalityType
    <3> QED
      BY <1>4, <2>1, <2>2, <2>5, <3>1, <3>2
  <2> QED
    BY <2>3, <2>4, <2>5
<1>8. Partners!RoleHasPartner'
  <2> SUFFICES ASSUME NEW u \in role
               PROVE  \/ code[u] # Partners!None
                      \/ {<<"role", u>>, <<"partner", u>>} \cap lost' # {}
                      \/ \E k \in Http : partnerRequest'[k].op = "partner" /\ partnerRequest'[k].user = u
    BY DEF Partners!RoleHasPartner
  <2>1. \/ code[u] # Partners!None
        \/ {<<"role", u>>, <<"partner", u>>} \cap lost # {}
        \/ \E k \in Http : partnerRequest[k].op = "partner" /\ partnerRequest[k].user = u
    BY <1>1 DEF Partners!RoleHasPartner
  <2>2. {<<"role", u>>, <<"partner", u>>} \cap lost # {} =>
          {<<"role", u>>, <<"partner", u>>} \cap lost' # {}
    BY <1>1, <1>3
  <2> QED
    BY <1>1, <1>3, <2>1, <2>2
<1>9. /\ Partners!LinkOfItsCode' /\ ~short'
      /\ \A l \in Places : link'[l] # Partners!NoLink => link'[l].of \in Travellers
  BY <1>1 DEF Partners!LinkOfItsCode, Partners!Links, Places, Partners!PartnersOf
<1>10. Partners!ReferrerCredited'
  BY <1>1 DEF Partners!ReferrerCredited, Credited
<1>11. PartFound(h)'
  BY <1>3 DEF PartFound
<1> QED
  BY <1>5, <1>6, <1>7, <1>8, <1>9, <1>10, <1>11 DEF PartInv

LEMMA PartLinks ==
  ASSUME PartInv, SideAssumption, NEW h \in Http, Partners!CreateLink(h) \/ Partners!DeleteLink(h)
  PROVE  PartInv'
<1> DEFINE old == partnerRequest[h]
           p == Partners!Place(h)
<1>1. /\ PartShapes /\ PartFound(h) /\ old \in PartRequests /\ Partners!End(h)
      /\ UNCHANGED <<role, code, credit, visits, short, unknown, partnerSpent>>
      /\ lost \subseteq lost' /\ old.op \in {"link", "delete"} /\ p \in Places
      /\ \A k \in Http \ {h} : PartFound(k) /\ partnerRequest[k] \in PartRequests
      /\ link \in [Places -> [id : Nat, clicks : Nat, of : Travellers \cup {Partners!None}]]
      /\ \A l \in Places : link[l].id \in Nat /\ link[l].clicks \in Nat
      /\ Partners!None \notin Travellers
  BY PartFields DEF PartInv, PartShapes, PartFound, Partners!CreateLink, Partners!DeleteLink,
     Partners!At, Partners!history
<1>2. /\ Partners!NoLink \in [id : Nat, clicks : Nat, of : Travellers \cup {Partners!None}]
      /\ Partners!NoLink.of = Partners!None /\ Partners!NoLink.clicks = 0
  BY DEF Partners!NoLink
<1>3. PICK q \in PartRequests : q = Partners!Rest
  BY PartRest
<1>4. \A k \in Http \ {h} : partnerRequest'[k] = partnerRequest[k]
  BY <1>1, <1>3, PartGoes DEF Partners!End
<1> HIDE DEF p
<1>5. CASE Partners!CreateLink(h) /\ link[p] = Partners!NoLink
  <2>1. PICK u \in Partners!PartnersOf(p[1]) :
          link' = [link EXCEPT ![p] = [id |-> old.id, clicks |-> 0, of |-> u]]
    <3>1. Partners!PartnersOf(old.code) # {} /\ p[1] = old.code
      BY <1>1, <1>5 DEF PartFound, Partners!CreateLink, Partners!At, Partners!Place, p
    <3>2. (CHOOSE u \in Partners!PartnersOf(old.code) : TRUE) \in Partners!PartnersOf(old.code)
      BY <3>1
    <3>3. link' = [link EXCEPT ![p] = [id |-> old.id, clicks |-> 0,
             of |-> CHOOSE u \in Partners!PartnersOf(old.code) : TRUE]]
      BY <1>5 DEF Partners!CreateLink, p
    <3> QED
      BY <3>1, <3>2, <3>3
  <2>2. old.id \in Nat /\ old.op = "link" /\ lost' = lost /\ u \in Travellers
    BY <1>1, <1>5, <2>1, PartFields
       DEF Partners!CreateLink, Partners!At, Partners!history, Partners!PartnersOf
  <2> DEFINE new == [id |-> old.id, clicks |-> 0, of |-> u]
  <2>3. /\ new \in [id : Nat, clicks : Nat, of : Travellers \cup {Partners!None}]
        /\ new.id = old.id /\ new.clicks = 0 /\ new.of = u
    BY <2>2
  <2> HIDE DEF new
  <2>4. /\ link' \in [Places -> [id : Nat, clicks : Nat, of : Travellers \cup {Partners!None}]]
        /\ \A l \in Places : link'[l] = link[l] \/ (l = p /\ link'[l] = new)
    BY <1>1, <2>1, <2>3 DEF new
  <2>5. \A l \in Places : /\ \A x \in Travellers : link[l].of = x => link'[l].of = x
                          /\ \A n \in Nat : n <= link[l].clicks => n <= link'[l].clicks
    BY <1>1, <1>2, <1>5, <2>3, <2>4
  <2>6. \A k \in Http \ {h} : PartFound(k)'
    BY <1>1, <1>4, <2>5, PartOthers
  <2> QED
    BY <1>1, <1>5, <2>1, <2>2, <2>3, <2>4, <2>6, PartLinkStep DEF p
<1>6. CASE Partners!CreateLink(h) /\ link[p] # Partners!NoLink
  <2>1. link' = link
    BY <1>6 DEF Partners!CreateLink, p
  <2>2. \A k \in Http \ {h} : PartFound(k)'
    BY <1>1, <1>4, <2>1, PartOthers
  <2> QED
    BY <1>1, <2>1, <2>2, PartLinkStep
<1>7. CASE Partners!DeleteLink(h)
  <2>1. /\ link' = [link EXCEPT ![p] = IF @.id = old.id THEN Partners!NoLink ELSE @]
        /\ \A k \in Http : partnerRequest[k].op = "stats" => <<"answer", k>> \in lost'
    BY <1>7 DEF Partners!DeleteLink, p
  <2>2. /\ link' \in [Places -> [id : Nat, clicks : Nat, of : Travellers \cup {Partners!None}]]
        /\ \A l \in Places : link'[l] = link[l] \/ link'[l] = Partners!NoLink
    BY <1>1, <1>2, <2>1
  <2>3. \A k \in Http \ {h} : PartFound(k)'
    <3> TAKE k \in Http \ {h}
    <3>1. PartFound(k) /\ partnerRequest'[k] = partnerRequest[k] /\ code' = code /\ unknown' = unknown
      BY <1>1, <1>4
    <3>2. partnerRequest[k].op = "stats" => <<"answer", k>> \in lost'
      BY <2>1
    <3> QED
      BY <3>1, <3>2 DEF PartFound, Partners!Place, Partners!PartnersOf
  <2> QED
    BY <1>1, <2>2, <2>3, PartLinkStep
<1> QED
  BY <1>5, <1>6, <1>7

LEMMA PartSum ==
  ASSUME NEW x \in Nat, NEW y \in Nat, NEW v \in Nat, NEW w \in Nat, NEW i \in Nat, NEW j \in Nat,
         w + i = v + j
  PROVE  /\ \A e, f \in Nat : x + v <= e /\ y + j + e <= x + i + f => y + w <= f
         /\ \A a, b \in Nat : x + v >= a /\ y + j + a >= x + i + b => y + w >= b
  OBVIOUS

\* A step of a visit: what it counts, and what it no longer may.
LEMMA PartVisit ==
  ASSUME PartInv, SideAssumption, NEW h \in Http, NEW r \in PartRequests, NEW p \in Places,
         partnerRequest' = [partnerRequest EXCEPT ![h] = r],
         partnerRequest[h].op \in {"rest", "click"}, r.op \in {"rest", "click"},
         partnerRequest[h].op = "click" => Partners!Place(h) = p,
         r.op = "click" => <<r.code, r.source>> = p
  PROVE  /\ UNCHANGED <<role, code, credit, unknown, short>> /\ lost \subseteq lost'
         /\ link' \in [Places -> [id : Nat, clicks : Nat, of : Travellers \cup {Partners!None}]]
         /\ \A l \in Places : /\ link'[l].id = link[l].id /\ link'[l].of = link[l].of
                              /\ link[l].clicks <= link'[l].clicks
                              /\ l # p \/ link[l].id = 0 => link'[l] = link[l]
         /\ visits' \in [1..(Limit + 1) -> Nat]
         /\ \A id \in 1..(Limit + 1) : id # link[p].id => visits'[id] = visits[id]
         /\ partnerSpent' \in 0..(Limit + 1) /\ partnerSpent <= partnerSpent' /\ PartFound(h)'
         /\ \/ /\ partnerRequest[h].op = "click" /\ r.op = "click"
               /\ link'[p].clicks = link[p].clicks
            \/ /\ partnerRequest[h].op = "click" /\ r.op # "click"
               /\ link'[p].clicks <= link[p].clicks + 1
            \/ /\ partnerRequest[h].op # "click" /\ r.op = "click"
               /\ link'[p].clicks = link[p].clicks /\ partnerSpent' = partnerSpent + 1
         /\ \/ <<"visit", p>> \in lost' \/ link'[p] = Partners!NoLink
            \/ /\ partnerRequest[h].op = "click" => partnerRequest[h].at # "find"
               /\ partnerRequest[h].op = "click" => partnerRequest[h].id # link[p].id
               /\ visits' = visits
            \/ /\ r.op = "click" /\ (r.at = "find" \/ r.id = link[p].id)
               /\ \/ visits' = visits
                  \/ /\ partnerRequest[h].op # "click"
                     /\ visits'[link[p].id] = visits[link[p].id] + 1
            \/ link'[p].clicks = link[p].clicks + 1 /\ visits' = visits
         => PartInv'
<1>0. SUFFICES ASSUME /\ UNCHANGED <<role, code, credit, unknown, short>> /\ lost \subseteq lost'
                      /\ link' \in [Places -> [id : Nat, clicks : Nat, of : Travellers \cup {Partners!None}]]
                      /\ \A l \in Places : /\ link'[l].id = link[l].id /\ link'[l].of = link[l].of
                                           /\ link[l].clicks <= link'[l].clicks
                                           /\ l # p \/ link[l].id = 0 => link'[l] = link[l]
                      /\ visits' \in [1..(Limit + 1) -> Nat]
                      /\ \A id \in 1..(Limit + 1) : id # link[p].id => visits'[id] = visits[id]
                      /\ partnerSpent' \in 0..(Limit + 1) /\ partnerSpent <= partnerSpent' /\ PartFound(h)'
                      /\ \/ /\ partnerRequest[h].op = "click" /\ r.op = "click"
                            /\ link'[p].clicks = link[p].clicks
                         \/ /\ partnerRequest[h].op = "click" /\ r.op # "click"
                            /\ link'[p].clicks <= link[p].clicks + 1
                         \/ /\ partnerRequest[h].op # "click" /\ r.op = "click"
                            /\ link'[p].clicks = link[p].clicks /\ partnerSpent' = partnerSpent + 1
                      /\ \/ <<"visit", p>> \in lost' \/ link'[p] = Partners!NoLink
                         \/ /\ partnerRequest[h].op = "click" => partnerRequest[h].at # "find"
                            /\ partnerRequest[h].op = "click" => partnerRequest[h].id # link[p].id
                            /\ visits' = visits
                         \/ /\ r.op = "click" /\ (r.at = "find" \/ r.id = link[p].id)
                            /\ \/ visits' = visits
                               \/ /\ partnerRequest[h].op # "click"
                                  /\ visits'[link[p].id] = visits[link[p].id] + 1
                         \/ link'[p].clicks = link[p].clicks + 1 /\ visits' = visits
              PROVE  PartInv'
  OBVIOUS
<1> DEFINE old == partnerRequest[h]
<1>1. /\ PartShapes /\ PartIds /\ PartClicks /\ Partners!RoleHasPartner
      /\ Partners!LinkOfItsCode /\ Partners!ReferrerCredited /\ ~short
      /\ \A l \in Places : link[l] # Partners!NoLink => link[l].of \in Travellers
  BY DEF PartInv
<1>2. /\ partnerRequest' \in [Http -> PartRequests] /\ partnerRequest'[h] = r
      /\ \A k \in Http \ {h} : partnerRequest'[k] = partnerRequest[k]
  BY <1>1, PartGoes
<1>3. /\ partnerSpent \in Nat /\ Limit \in Nat /\ Partners!NoLink.id = 0
      /\ visits \in [1..(Limit + 1) -> Nat]
      /\ \A l \in Places : /\ link[l].id \in Nat /\ link[l].clicks \in Nat
                           /\ link[l].id = 0 <=> link[l] = Partners!NoLink
                           /\ link[l] # Partners!NoLink => link[l].id \in 1..partnerSpent
  <2>1. Partners!NoLink.id = 0
    BY DEF Partners!NoLink
  <2> QED
    BY <1>1, <2>1, PartFields DEF PartShapes, PartIds
<1>13. /\ link' \in [Places -> [id : Nat, clicks : Nat, of : Travellers \cup {Partners!None}]]
       /\ \A l \in Places : /\ link'[l].id = link[l].id /\ link'[l].of = link[l].of
                            /\ link[l].clicks <= link'[l].clicks
                            /\ l # p \/ link[l].id = 0 => link'[l] = link[l]
  BY <1>0
<1>14. /\ visits' \in [1..(Limit + 1) -> Nat] /\ partnerSpent' \in Nat
       /\ partnerSpent' \in 0..(Limit + 1) /\ partnerSpent <= partnerSpent'
       /\ \A id \in 1..(Limit + 1) : id # link[p].id => visits'[id] = visits[id]
  BY <1>0
<1>4. \A l \in Places : link'[l] = Partners!NoLink <=> link[l] = Partners!NoLink
  BY <1>3, <1>13
<1>5. PartShapes'
  BY <1>0, <1>1, <1>2 DEF PartShapes
<1>6. PartIds'
  <2>1. /\ \A l \in Places : link[l].id = 0 \/
             /\ link[l].id \in 1..partnerSpent
             /\ \A m \in Places \ {l} : link[m].id # link[l].id
             /\ \A k \in Http : partnerRequest[k].op = "link" => partnerRequest[k].id # link[l].id
        /\ \A k \in Http : partnerRequest[k].op = "link" =>
             /\ partnerRequest[k].id \in 1..partnerSpent /\ visits[partnerRequest[k].id] = 0
             /\ \A j \in Http \ {k} : partnerRequest[j].op = "link" =>
                  partnerRequest[j].id # partnerRequest[k].id
        /\ \A id \in 1..(Limit + 1) : id > partnerSpent => visits[id] = 0
    BY <1>1, <1>3 DEF PartIds
  <2>2. \A k \in Http : partnerRequest'[k].op = "link" => partnerRequest'[k] = partnerRequest[k]
    BY <1>2
  <2>3. 1..partnerSpent \subseteq 1..partnerSpent' /\ 1..partnerSpent \subseteq 1..(Limit + 1)
    BY <1>3, <1>14
  <2>4. \A k \in Http : partnerRequest[k].op = "link" =>
          /\ visits'[partnerRequest[k].id] = 0 /\ partnerRequest[k].id \in 1..partnerSpent'
    <3> TAKE k \in Http
    <3>1. partnerRequest[k].op = "link" => partnerRequest[k].id # link[p].id
      BY <1>3, <2>1
    <3> QED
      BY <1>14, <2>1, <2>3, <3>1
  <2>5. \A id \in 1..(Limit + 1) : id > partnerSpent' => visits'[id] = 0
    <3> TAKE id \in 1..(Limit + 1)
    <3>1. id > partnerSpent' => id > partnerSpent /\ id # link[p].id
      BY <1>3, <1>14, <2>1
    <3> QED
      BY <1>14, <2>1, <3>1
  <2>6. \A l \in Places : link'[l].id = 0 \/
          /\ link'[l].id \in 1..partnerSpent'
          /\ \A m \in Places \ {l} : link'[m].id # link'[l].id
          /\ \A k \in Http : partnerRequest'[k].op = "link" => partnerRequest'[k].id # link'[l].id
    BY <1>13, <2>1, <2>2, <2>3
  <2>7. \A l \in Places : link'[l].id = 0 <=> link'[l] = Partners!NoLink
    BY <1>3, <1>4, <1>13
  <2> QED
    BY <2>1, <2>2, <2>4, <2>5, <2>6, <2>7 DEF PartIds
<1>7. ASSUME NEW l \in Places \ {p}
      PROVE  /\ link'[l].clicks + Cardinality(Visiting(l)') <= partnerSpent'
             /\ link'[l] # Partners!NoLink /\ <<"visit", l>> \notin lost' =>
                  link'[l].clicks + Cardinality(Counting(l)') >= visits'[link'[l].id]
  <2>1. Visiting(l)' = Visiting(l)
    BY <1>2 DEF Visiting, Partners!Place
  <2>2. Counting(l)' = Counting(l)
    BY <1>2, <1>13, <2>1 DEF Counting, Visiting
  <2>3. /\ link[l].clicks + Cardinality(Visiting(l)) <= partnerSpent
        /\ link[l] # Partners!NoLink /\ <<"visit", l>> \notin lost =>
             link[l].clicks + Cardinality(Counting(l)) >= visits[link[l].id]
    BY <1>1 DEF PartClicks
  <2>4. link[l] # Partners!NoLink => visits'[link[l].id] = visits[link[l].id]
    <3>1. link[l] # Partners!NoLink =>
            link[l].id \in 1..partnerSpent /\ link[p].id # link[l].id
      BY <1>1 DEF PartIds
    <3>2. 1..partnerSpent \subseteq 1..(Limit + 1)
      BY <1>3, <1>14
    <3> QED
      BY <1>14, <3>1, <3>2
  <2>5. Cardinality(Visiting(l)) \in Nat
    BY PartFinite
  <2> QED
    <3>1. link'[l] = link[l] /\ lost \subseteq lost' /\ link[l].clicks \in Nat
      BY <1>0, <1>3, <1>13
    <3>2. link[l].clicks + Cardinality(Visiting(l)) <= partnerSpent'
      BY <1>3, <1>14, <2>3, <2>5, <3>1
    <3> QED
      BY <2>1, <2>2, <2>3, <2>4, <3>1, <3>2
<1>8. /\ link'[p].clicks + Cardinality(Visiting(p)') <= partnerSpent'
      /\ link'[p] # Partners!NoLink /\ <<"visit", p>> \notin lost' =>
           link'[p].clicks + Cardinality(Counting(p)') >= visits'[link'[p].id]
  <2>1. /\ Visiting(p)' \ {h} = Visiting(p) \ {h} /\ Counting(p)' \ {h} = Counting(p) \ {h}
        /\ h \in Visiting(p)' <=> r.op = "click"
        /\ h \in Visiting(p) <=> old.op = "click"
        /\ h \in Counting(p)' <=> (r.op = "click" /\ (r.at = "find" \/ r.id = link[p].id))
        /\ h \in Counting(p) <=> (old.op = "click" /\ (old.at = "find" \/ old.id = link[p].id))
    BY <1>2, <1>13 DEF Visiting, Counting, Partners!Place
  <2>2. PICK v, w, c, d :
          v = Cardinality(Visiting(p)) /\ w = Cardinality(Visiting(p)')
          /\ c = Cardinality(Counting(p)) /\ d = Cardinality(Counting(p)')
    OBVIOUS
  <2>3. IsFiniteSet(Visiting(p)) /\ IsFiniteSet(Counting(p))
    BY PartFinite
  <2>4. PICK i \in Nat, j \in Nat, m \in Nat, n \in Nat :
          /\ i = IF old.op = "click" THEN 1 ELSE 0
          /\ j = IF r.op = "click" THEN 1 ELSE 0
          /\ m = IF h \in Counting(p) THEN 1 ELSE 0
          /\ n = IF h \in Counting(p)' THEN 1 ELSE 0
    OBVIOUS
  <2>5. v \in Nat /\ w \in Nat /\ w + i = v + j
    <3>1. /\ v \in Nat /\ w \in Nat
          /\ (old.op = "click" <=> r.op = "click") => w = v
          /\ old.op = "click" /\ r.op # "click" => w = v - 1
          /\ old.op # "click" /\ r.op = "click" => w = v + 1
      BY <2>1, <2>2, <2>3, PartSets
    <3> QED
      BY <2>4, <3>1
  <2>10. c \in Nat /\ d \in Nat /\ d + m = c + n
    <3>1. /\ c \in Nat /\ d \in Nat
          /\ (h \in Counting(p) <=> h \in Counting(p)') => d = c
          /\ h \in Counting(p) /\ h \notin Counting(p)' => d = c - 1
          /\ h \notin Counting(p) /\ h \in Counting(p)' => d = c + 1
      BY <2>1, <2>2, <2>3, PartSets
    <3> QED
      BY <2>4, <3>1
  <2>6. /\ link[p].clicks + v <= partnerSpent
        /\ link[p] # Partners!NoLink /\ <<"visit", p>> \notin lost =>
             link[p].clicks + c >= visits[link[p].id]
    BY <1>1, <2>2 DEF PartClicks
  <2>7. PICK x \in Nat, y \in Nat, e \in Nat, f \in Nat :
          x = link[p].clicks /\ y = link'[p].clicks /\ e = partnerSpent /\ f = partnerSpent'
    BY <1>3, <1>13, <1>14
  <2>8. link'[p].clicks + w <= partnerSpent'
    <3>1. y + j + e <= x + i + f /\ x + v <= e
      <4>1. \/ (i = 1 /\ j = 1 /\ y = x) \/ (i = 1 /\ j = 0 /\ y <= x + 1)
            \/ (i = 0 /\ j = 1 /\ y = x /\ f = e + 1)
        BY <1>0, <2>4, <2>7
      <4>2. e <= f /\ x + v <= e
        BY <1>14, <2>6, <2>7
      <4> QED
        BY <4>1, <4>2
    <3>2. y + w <= f
      BY <2>5, <3>1, PartSum
    <3> QED
      BY <2>7, <3>2
  <2>9. ASSUME link'[p] # Partners!NoLink, <<"visit", p>> \notin lost'
        PROVE  link'[p].clicks + d >= visits'[link'[p].id]
    <3>1. /\ link[p].id \in 1..(Limit + 1) /\ link'[p].id = link[p].id
          /\ x + c >= visits[link[p].id]
      BY <1>0, <1>3, <1>4, <1>13, <2>6, <2>7, <2>9
    <3>2. PICK a \in Nat, b \in Nat : a = visits[link[p].id] /\ b = visits'[link[p].id]
      BY <1>3, <1>14, <3>1
    <3>3. y + n + a >= x + m + b
      <4>1. \/ (m = 0 /\ a = b) \/ (n = 1 /\ a = b) \/ (n = 1 /\ m = 0 /\ b = a + 1)
            \/ (y = x + 1 /\ a = b)
        BY <1>0, <2>1, <2>4, <2>7, <2>9, <3>2
      <4>2. x <= y /\ m <= 1 /\ n <= 1
        BY <1>13, <2>4, <2>7
      <4> QED
        BY <4>1, <4>2
    <3>4. x + c >= a
      BY <3>1, <3>2
    <3>5. \A k, l \in Nat : x + c >= k /\ y + n + k >= x + m + l => y + d >= l
      BY <2>10, PartSum
    <3>6. y + d >= b
      BY <3>3, <3>4, <3>5
    <3> QED
      BY <2>7, <3>1, <3>2, <3>6
  <2> QED
    BY <2>2, <2>8, <2>9
<1>9. PartClicks'
  BY <1>7, <1>8 DEF PartClicks
<1>10. \A k \in Http : PartFound(k)'
  <2>1. \A l \in Places : /\ \A u \in Travellers : link[l].of = u => link'[l].of = u
                          /\ \A n \in Nat : n <= link[l].clicks => n <= link'[l].clicks
    <3>1. \A l \in Places : link[l].clicks \in Nat /\ link'[l].clicks \in Nat
      BY <1>3, <1>13
    <3> QED
      BY <1>13, <3>1
  <2>2. \A k \in Http \ {h} : PartFound(k)'
    BY <1>0, <1>2, <2>1, PartOthers
  <2> QED
    BY <1>0, <2>2
<1>11. Partners!RoleHasPartner'
  <2> SUFFICES ASSUME NEW u \in role
               PROVE  \/ code[u] # Partners!None
                      \/ {<<"role", u>>, <<"partner", u>>} \cap lost' # {}
                      \/ \E k \in Http : partnerRequest'[k].op = "partner" /\ partnerRequest'[k].user = u
    BY <1>0 DEF Partners!RoleHasPartner
  <2>1. \/ code[u] # Partners!None
        \/ {<<"role", u>>, <<"partner", u>>} \cap lost # {}
        \/ \E k \in Http : partnerRequest[k].op = "partner" /\ partnerRequest[k].user = u
    BY <1>1 DEF Partners!RoleHasPartner
  <2>2. {<<"role", u>>, <<"partner", u>>} \cap lost # {} =>
          {<<"role", u>>, <<"partner", u>>} \cap lost' # {}
    BY <1>0, <1>1, <1>2
  <2> QED
    BY <1>0, <1>1, <1>2, <2>1, <2>2
<1>12. /\ Partners!LinkOfItsCode' /\ ~short' /\ Partners!ReferrerCredited'
       /\ \A l \in Places : link'[l] # Partners!NoLink => link'[l].of \in Travellers
  BY <1>0, <1>1, <1>4, <1>13 DEF Partners!LinkOfItsCode, Partners!Links, Places, Partners!ReferrerCredited, Credited
<1> QED
  BY <1>5, <1>6, <1>9, <1>10, <1>11, <1>12 DEF PartInv

LEMMA PartClickBegins ==
  ASSUME PartInv, SideAssumption, NEW h \in Http, NEW p \in Places, Partners!BeginClick(h, p)
  PROVE  PartInv'
<1> DEFINE r == [[Partners!Rest EXCEPT !.op = "click", !.code = p[1], !.source = p[2]]
                   EXCEPT !.at = "find"]
<1>1. /\ partnerRequest[h] = Partners!Rest /\ Partners!Spend
      /\ partnerRequest' = [partnerRequest EXCEPT ![h] = r]
      /\ UNCHANGED <<role, code, link, credit, short, unknown, lost>>
      /\ visits' = [id \in 1..(Limit + 1) |-> visits[id] + IF id = link[p].id THEN 1 ELSE 0]
  BY DEF Partners!BeginClick, Partners!Begin, Partners!stored
<1>2. /\ Partners!Rest \in PartRequests /\ Partners!Rest.op = "rest" /\ PartShapes
      /\ p[1] \in Codes /\ p[2] \in Sources /\ p = <<p[1], p[2]>>
      /\ visits \in [1..(Limit + 1) -> Nat]
      /\ link \in [Places -> [id : Nat, clicks : Nat, of : Travellers \cup {Partners!None}]]
  BY PartRest DEF PartInv, PartShapes, Places
<1>3. /\ r \in PartRequests /\ r.op = "click" /\ r.at = "find"
      /\ <<r.code, r.source>> = p
  BY <1>2 DEF Partners!Rest, PartRequests
<1> HIDE DEF r
<1>4. PICK q \in PartRequests : q = r
  BY <1>3
<1>5. partnerRequest'[h] = q
  BY <1>1, <1>2, <1>4, PartGoes
<1>6. PartFound(h)'
  BY <1>3, <1>4, <1>5 DEF PartFound, Partners!Place
<1>7. /\ partnerSpent \in Nat /\ partnerSpent' = partnerSpent + 1
      /\ partnerSpent' \in 0..(Limit + 1) /\ partnerSpent <= partnerSpent'
      /\ link[p].clicks \in Nat /\ \A l \in Places : link[l].clicks <= link[l].clicks
  BY <1>1, <1>2, PartFields DEF Partners!Spend
<1>8. /\ visits' \in [1..(Limit + 1) -> Nat]
      /\ \A id \in 1..(Limit + 1) : id # link[p].id => visits'[id] = visits[id]
  BY <1>1, <1>2
<1>9. link[p] = Partners!NoLink \/ visits'[link[p].id] = visits[link[p].id] + 1
  <2>1. link[p] # Partners!NoLink => link[p].id \in 1..(Limit + 1)
    BY <1>7 DEF PartInv, PartIds
  <2> QED
    BY <1>1, <1>2, <1>7, <2>1
<1>10. /\ r.op = "click" /\ (r.at = "find" \/ r.id = link[p].id)
       /\ partnerRequest[h].op # "click" /\ link' = link /\ lost' = lost
  BY <1>1, <1>2, <1>3
<1> QED
  BY <1>1, <1>2, <1>3, <1>6, <1>7, <1>8, <1>9, <1>10, PartVisit

LEMMA PartClickGoes ==
  ASSUME PartInv, SideAssumption, NEW h \in Http,
         \/ Partners!FindLink(h) \/ Partners!CountClick(h)
         \/ Partners!Throw(h) /\ partnerRequest[h].op = "click"
  PROVE  PartInv'
<1> DEFINE old == partnerRequest[h]
           p == Partners!Place(h)
<1>1. /\ old.op = "click" /\ old \in PartRequests /\ PartFound(h) /\ PartShapes /\ p \in Places
      /\ UNCHANGED <<role, code, credit, short, unknown, visits>>
      /\ visits \in [1..(Limit + 1) -> Nat]
      /\ link \in [Places -> [id : Nat, clicks : Nat, of : Travellers \cup {Partners!None}]]
      /\ link[p].id \in Nat /\ link[p].clicks \in Nat /\ \A l \in Places : link[l].clicks \in Nat
      /\ link[p].id = 0 <=> link[p] = Partners!NoLink
      /\ partnerSpent \in 0..(Limit + 1) /\ partnerSpent <= partnerSpent
  <2>1. Partners!NoLink.id = 0
    BY DEF Partners!NoLink
  <2>2. old.op = "click" /\ UNCHANGED <<role, code, credit, short, unknown, visits>>
    BY DEF Partners!FindLink, Partners!CountClick, Partners!Throw, Partners!At, Partners!Only,
       Partners!stored, Partners!history, Partners!Fail
  <2>3. PartFound(h) /\ p \in Places
    BY <2>2 DEF PartInv, PartFound
  <2> QED
    BY <2>1, <2>2, <2>3, PartFields DEF PartInv, PartShapes, PartIds
<1>2. PICK q \in PartRequests : q = Partners!Rest /\ q.op = "rest"
  BY PartRest
<1> HIDE DEF p
<1>3. CASE Partners!End(h)
  <2>1. partnerRequest' = [partnerRequest EXCEPT ![h] = q]
    BY <1>2, <1>3 DEF Partners!End
  <2>2. partnerRequest'[h] = q
    BY <1>1, <2>1, PartGoes
  <2>3. PartFound(h)'
    BY <1>2, <2>2 DEF PartFound
  <2>5. CASE Partners!FindLink(h)
    <3>1. /\ link' = link /\ lost' = lost /\ partnerSpent' = partnerSpent
          /\ link[p] = Partners!NoLink
      <4>1. link[p] # Partners!NoLink =>
              partnerRequest' = [partnerRequest EXCEPT ![h].at = "count", ![h].id = link[p].id]
        BY <2>5 DEF Partners!FindLink, p
      <4> DEFINE r == [old EXCEPT !.at = "count", !.id = link[p].id]
      <4>2. r.op = "click" /\ r \in PartRequests
        <5>1. old \in PartRequests /\ old.op = "click" /\ link[p].id \in Nat
          BY <1>1
        <5> HIDE DEF old
        <5> QED
          BY <5>1 DEF PartRequests
      <4>3. link[p] # Partners!NoLink => partnerRequest' = [partnerRequest EXCEPT ![h] = r]
        BY <4>1
      <4> HIDE DEF r
      <4>4. link[p] = Partners!NoLink
        BY <1>1, <1>2, <2>2, <4>2, <4>3, PartGoes
      <4> QED
        BY <2>5, <4>4 DEF Partners!FindLink, Partners!Only, Partners!stored, Partners!history
    <3>2. link[p].clicks <= link[p].clicks + 1 /\ \A l \in Places : link[l].clicks <= link[l].clicks
      BY <1>1
    <3> QED
      BY <1>1, <1>2, <2>1, <2>3, <3>1, <3>2, PartVisit DEF p
  <2>6. CASE Partners!CountClick(h)
    <3>1. PICK n \in {link[p].clicks, link[p].clicks + 1} :
            /\ link' = [link EXCEPT ![p] = [link[p] EXCEPT !.clicks = n]]
            /\ link[p].id = old.id <=> n = link[p].clicks + 1
            /\ lost' = lost /\ partnerSpent' = partnerSpent /\ old.at = "count" /\ old.id # 0
      <4>1. link' = [link EXCEPT ![p].clicks = IF link[p].id = old.id THEN @ + 1 ELSE @]
        BY <2>6 DEF Partners!CountClick, p
      <4>2. lost' = lost /\ partnerSpent' = partnerSpent /\ old.at = "count" /\ old.id # 0
        BY <1>1, <2>6 DEF Partners!CountClick, Partners!history, Partners!At, PartFound
      <4>3. link[p].clicks \in Nat /\ link[p].clicks # link[p].clicks + 1
        BY <1>1
      <4>4. CASE link[p].id = old.id
        BY <4>1, <4>2, <4>3, <4>4
      <4>5. CASE link[p].id # old.id
        BY <4>1, <4>2, <4>3, <4>5
      <4> QED
        BY <4>4, <4>5
    <3> DEFINE new == [link[p] EXCEPT !.clicks = n]
    <3>2. /\ new \in [id : Nat, clicks : Nat, of : Travellers \cup {Partners!None}]
          /\ new.id = link[p].id /\ new.of = link[p].of /\ new.clicks = n
          /\ n = link[p].clicks => new = link[p]
      <4>1. link[p] \in [id : Nat, clicks : Nat, of : Travellers \cup {Partners!None}]
        BY <1>1
      <4>2. n \in Nat
        BY <1>1
      <4> QED
        BY <4>1, <4>2
    <3> HIDE DEF new
    <3>3. /\ link' \in [Places -> [id : Nat, clicks : Nat, of : Travellers \cup {Partners!None}]]
          /\ link'[p] = new /\ \A l \in Places : l # p => link'[l] = link[l]
      BY <1>1, <3>1, <3>2 DEF new
    <3>4. /\ \A l \in Places : /\ link'[l].id = link[l].id /\ link'[l].of = link[l].of
                               /\ link[l].clicks <= link'[l].clicks
                               /\ l # p \/ link[l].id = 0 => link'[l] = link[l]
          /\ link'[p].clicks <= link[p].clicks + 1
          /\ link[p].id = old.id => link'[p].clicks = link[p].clicks + 1
      BY <1>1, <3>1, <3>2, <3>3
    <3> QED
      BY <1>1, <1>2, <2>1, <2>3, <3>1, <3>3, <3>4, PartVisit DEF p
  <2>7. CASE Partners!Throw(h)
    <3>1. /\ link' = link /\ lost' = lost \cup {<<"visit", p>>}
          /\ partnerSpent' = partnerSpent + 1 /\ partnerSpent < Limit + 1
      BY <1>1, <2>7
         DEF Partners!Throw, Partners!Fail, Partners!Spend, Partners!stored, p
    <3>2. /\ partnerSpent' \in 0..(Limit + 1) /\ partnerSpent <= partnerSpent'
          /\ link[p].clicks <= link[p].clicks + 1 /\ \A l \in Places : link[l].clicks <= link[l].clicks
      BY <1>1, <3>1, PartFields
    <3> QED
      BY <1>1, <1>2, <2>1, <2>3, <3>1, <3>2, PartVisit DEF p
  <2> QED
    BY <1>1, <2>5, <2>6, <2>7
<1>4. CASE Partners!FindLink(h) /\ ~Partners!End(h)
  <2> DEFINE r == [old EXCEPT !.at = "count", !.id = link[p].id]
  <2>1. /\ partnerRequest' = [partnerRequest EXCEPT ![h] = r] /\ link[p] # Partners!NoLink
        /\ old.at = "find" /\ link' = link /\ lost' = lost /\ partnerSpent' = partnerSpent
    BY <1>4 DEF Partners!FindLink, Partners!At, Partners!Only, Partners!stored, Partners!history, p
  <2>2. /\ r \in PartRequests /\ r.op = "click" /\ r.at = "count" /\ r.id = link[p].id
        /\ r.code = old.code /\ r.source = old.source
    <3>1. old \in PartRequests /\ old.op = "click" /\ link[p].id \in Nat
      BY <1>1
    <3> HIDE DEF old
    <3> QED
      BY <3>1 DEF PartRequests
  <2>3. PICK k \in PartRequests : k = r
    BY <2>2
  <2> HIDE DEF r
  <2>4. partnerRequest'[h] = k
    BY <1>1, <2>1, <2>3, PartGoes
  <2>5. <<r.code, r.source>> = p
    BY <2>2 DEF Partners!Place, p
  <2>6. PartFound(h)'
    BY <1>1, <2>1, <2>2, <2>3, <2>4, <2>5 DEF PartFound, Partners!Place
  <2>7. \A l \in Places : link[l].clicks <= link[l].clicks
    BY <1>1
  <2> QED
    BY <1>1, <2>1, <2>2, <2>5, <2>6, <2>7, PartVisit DEF p
<1>5. Partners!CountClick(h) \/ Partners!Throw(h) => Partners!End(h)
  BY DEF Partners!CountClick, Partners!Throw, Partners!Fail
<1> QED
  BY <1>3, <1>4, <1>5

LEMMA PartThrows ==
  ASSUME PartInv, SideAssumption, NEW h \in Http, Partners!Throw(h),
         partnerRequest[h].op # "click"
  PROVE  PartInv'
<1>1. /\ UNCHANGED <<role, code, link, credit, visits, unknown, short>> /\ Partners!End(h)
      /\ lost' = lost \cup {<<"partner", partnerRequest[h].user>>}
      /\ partnerSpent' = partnerSpent + 1 /\ partnerSpent < Limit + 1
  BY DEF Partners!Throw, Partners!Fail, Partners!Spend, Partners!stored
<1>2. /\ partnerSpent' \in 0..(Limit + 1) /\ partnerSpent <= partnerSpent' /\ ~short
      /\ code \in [Travellers -> Codes \cup {Partners!None}]
  BY <1>1, PartFields DEF PartInv, PartShapes
<1> QED
  BY <1>1, <1>2, PartEnds

LEMMA PartMoves == PartInv /\ SideAssumption /\ [Partners!Next]_partnerVars => PartInv'
<1> SUFFICES ASSUME PartInv, SideAssumption, [Partners!Next]_partnerVars
             PROVE  PartInv'
  OBVIOUS
<1>1. ASSUME NEW h \in Http, Partners!Enter(h)
      PROVE  PartInv'
  BY <1>1, PartBegins, PartClickBegins DEF Partners!Enter, Partners!Links, Places, Credited
<1>2. ASSUME NEW h \in Http, Partners!Proceed(h) \/ Partners!Throw(h)
      PROVE  PartInv'
  BY <1>2, PartBecomes, PartLooks, PartLinks, PartClickGoes, PartSaves, PartSums, PartThrows
     DEF Partners!Proceed
<1>3. ASSUME NEW c \in Credited, Partners!Unassign(c)
      PROVE  PartInv'
  BY <1>3, PartUnassigns
<1>5. ASSUME NEW u \in Travellers, Partners!EditRole(u)
      PROVE  PartInv'
  BY <1>5, PartEditsRole
<1>4. CASE UNCHANGED partnerVars
  <2>1. UNCHANGED <<role, code, link, credit, partnerRequest, visits, unknown, lost, short, partnerSpent>>
    BY <1>4 DEF partnerVars
  <2>2. PartShapes'
    BY <2>1 DEF PartInv, PartShapes
  <2>3. PartIds'
    BY <2>1 DEF PartInv, PartIds
  <2>4. PartClicks'
    <3>1. \A l : Visiting(l)' = Visiting(l) /\ Counting(l)' = Counting(l)
      BY <2>1 DEF Visiting, Counting, Partners!Place
    <3> QED
      BY <2>1, <3>1 DEF PartInv, PartClicks
  <2>5. \A h \in Http : PartFound(h)'
    <3> TAKE h \in Http
    <3>1. PartFound(h) /\ \A u : ClicksOf(u)' = ClicksOf(u)
      BY <2>1 DEF PartInv, ClicksOf, Partners!Clicks
    <3> QED
      BY <2>1, <3>1 DEF PartFound, Partners!Place, Partners!PartnersOf
  <2> QED
    BY <2>1, <2>2, <2>3, <2>4, <2>5
       DEF PartInv, Partners!RoleHasPartner, Partners!LinkOfItsCode, Partners!ReferrerCredited
<1> QED
  BY <1>1, <1>2, <1>3, <1>4, <1>5 DEF Partners!Next, Credited

LEMMA PartStarts == SideAssumption /\ Partners!Init => PartInv
<1> SUFFICES ASSUME SideAssumption, Partners!Init
             PROVE  PartInv
  OBVIOUS
<1>1. /\ role = {} /\ code = [u \in Travellers |-> Partners!None]
      /\ link = [l \in Places |-> Partners!NoLink]
      /\ credit = [c \in Credited |-> Partners!NotMade]
      /\ partnerRequest = [h \in Http |-> Partners!Rest]
      /\ visits = [id \in 1..(Limit + 1) |-> 0]
      /\ unknown = {} /\ lost = {} /\ short = FALSE /\ partnerSpent = 0
  BY DEF Partners!Init, Partners!Links, Places, Credited
<1>2. /\ Partners!NoLink \in [id : Nat, clicks : Nat, of : Travellers \cup {Partners!None}]
      /\ Partners!NoLink.id = 0 /\ Partners!NoLink.clicks = 0
      /\ Partners!NotMade \in [by : Travellers \cup {Partners!None},
                               referrer : Codes \cup {Partners!None}, made : BOOLEAN]
      /\ Partners!NotMade.made = FALSE
      /\ Partners!Rest \in PartRequests /\ Partners!Rest.op = "rest" /\ Limit \in Nat
  BY PartRest DEF Partners!NoLink, Partners!NotMade, SideAssumption
<1>3. PartShapes
  BY <1>1, <1>2 DEF PartShapes
<1>4. \A l \in Places : link[l] = Partners!NoLink /\ link[l].clicks = 0 /\ link[l].id = 0
  BY <1>1, <1>2
<1>5. \A h \in Http : partnerRequest[h].op = "rest"
  BY <1>1, <1>2
<1>6. PartIds
  BY <1>1, <1>4, <1>5 DEF PartIds
<1>7. PartClicks
  <2> SUFFICES ASSUME NEW l \in Places
               PROVE  link[l].clicks + Cardinality(Visiting(l)) <= partnerSpent
    BY <1>4 DEF PartClicks
  <2>1. Visiting(l) = {}
    BY <1>5 DEF Visiting
  <2> QED
    BY <1>1, <1>4, <2>1, FS_EmptySet
<1>8. \A h \in Http : PartFound(h)
  BY <1>5 DEF PartFound
<1>9. Partners!RoleHasPartner /\ Partners!LinkOfItsCode /\ Partners!ReferrerCredited
  BY <1>1, <1>2, <1>4 DEF Partners!RoleHasPartner, Partners!LinkOfItsCode, Partners!ReferrerCredited,
     Partners!Links, Places, Credited
<1> QED
  BY <1>1, <1>3, <1>4, <1>6, <1>7, <1>8, <1>9 DEF PartInv

LEMMA PartPromises == PartInv /\ SideAssumption => Partners!CreditsConsistent /\ Partners!TypeOK
<1> SUFFICES ASSUME PartInv, SideAssumption
             PROVE  Partners!CreditsConsistent /\ Partners!TypeOK
  OBVIOUS
<1>1. Partners!VisitsCounted
  <2> SUFFICES ASSUME NEW l \in Places, link[l] # Partners!NoLink, <<"visit", l>> \notin lost
               PROVE  link[l].clicks + Cardinality(Visiting(l)) >= visits[link[l].id]
    BY PartNumbers DEF Partners!VisitsCounted, Partners!Links, Places, Visiting
  <2>1. IsFiniteSet(Visiting(l)) /\ Counting(l) \in SUBSET Visiting(l)
    BY PartFinite DEF Counting
  <2>2. Cardinality(Counting(l)) <= Cardinality(Visiting(l))
    BY <2>1, FS_Subset
  <2>3. /\ link[l].clicks \in Nat /\ link[l].id \in 1..(Limit + 1)
        /\ visits \in [1..(Limit + 1) -> Nat]
        /\ Cardinality(Counting(l)) \in Nat /\ Cardinality(Visiting(l)) \in Nat
    BY PartFields, PartFinite DEF PartInv, PartShapes, PartIds
  <2>4. link[l].clicks + Cardinality(Counting(l)) >= visits[link[l].id]
    BY DEF PartInv, PartClicks
  <2>5. PICK a \in Nat, c \in Nat, d \in Nat, v \in Nat :
          /\ a = link[l].clicks /\ v = visits[link[l].id]
          /\ c = Cardinality(Counting(l)) /\ d = Cardinality(Visiting(l))
    BY <2>3
  <2>6. a + d >= v
    BY <2>2, <2>4, <2>5
  <2> QED
    BY <2>5, <2>6
<1>2. Partners!TypeOK
  <2>1. \A l \in Places : link[l].id \in 0..(Limit + 1) /\ link[l].clicks \in 0..(Limit + 1)
    <3> TAKE l \in Places
    <3>1. /\ link[l].clicks + Cardinality(Visiting(l)) <= partnerSpent
          /\ link[l].id = 0 \/ link[l].id \in 1..partnerSpent
      <4>1. Partners!NoLink.id = 0
        BY DEF Partners!NoLink
      <4> QED
        BY <4>1 DEF PartInv, PartClicks, PartIds
    <3>2. /\ link[l].clicks \in Nat /\ Cardinality(Visiting(l)) \in Nat
          /\ partnerSpent \in 0..(Limit + 1) /\ Limit \in Nat
      BY PartFields, PartFinite DEF PartInv
    <3> QED
      BY <3>1, <3>2
  <2>2. \A c \in Credited : credit[c].by \in Travellers \cup {Partners!None}
    BY DEF PartInv, PartShapes
  <2> QED
    BY <2>1, <2>2, PartFields
       DEF PartInv, PartShapes, Partners!TypeOK, Partners!Links, Places, Credited
<1> QED
  BY <1>1, <1>2 DEF PartInv, Partners!CreditsConsistent, Partners!TotalsCoverDays

-----------------------------------------------------------------------------
(* Every step of the run is one of the component that moves.               *)

LEMMA AccountsMove ==
  ASSUME [Next]_vars, moving = "accounts"
  PROVE  moving' = "accounts" /\ [Accounts!Next]_accountVars
  BY DEF vars, accountVars, Next, MoveAccounts, MoveDiscrepancies, MoveAssignments,
     MoveLinks, MoveViews, MovePartners, MoveLetters, MoveCompensation, MovePayments,
     MoveAirports

LEMMA AccInvariant == Spec => [](moving = "accounts" => AccInv)
<1> DEFINE Inv == moving = "accounts" => AccInv
<1>1. Init => Inv
  BY AccStarts, SideAssumption DEF Init
<1>2. Inv /\ [Next]_vars => Inv'
  BY AccountsMove, AccMoves, SideAssumption DEF Next, vars, MoveAccounts,
     MoveDiscrepancies, MoveAssignments, MoveLinks, MoveViews, MovePartners, MoveLetters,
     MoveCompensation, MovePayments, MoveAirports
<1> QED
  BY <1>1, <1>2, PTL DEF Spec

LEMMA PartnersMove ==
  ASSUME [Next]_vars, moving = "partners"
  PROVE  moving' = "partners" /\ [Partners!Next]_partnerVars
  BY DEF vars, partnerVars, Next, MoveAccounts, MoveDiscrepancies, MoveAssignments,
     MoveLinks, MoveViews, MovePartners, MoveLetters, MoveCompensation, MovePayments,
     MoveAirports

LEMMA PartInvariant == Spec => [](moving = "partners" => PartInv)
<1> DEFINE Inv == moving = "partners" => PartInv
<1>1. Init => Inv
  BY PartStarts, SideAssumption DEF Init
<1>2. Inv /\ [Next]_vars => Inv'
  BY PartnersMove, PartMoves, SideAssumption DEF Next, vars, MoveAccounts,
     MoveDiscrepancies, MoveAssignments, MoveLinks, MoveViews, MovePartners, MoveLetters,
     MoveCompensation, MovePayments, MoveAirports
<1> QED
  BY <1>1, <1>2, PTL DEF Spec

\* A mailbox has one user unless an administrator or a request that began when
\* there was none made another; a code in the hands of a customer is good until
\* it is used, withdrawn or runs out and changes one password, unless requests
\* about it met or failed; whoever has the role of a partner is one, unless an
\* administrator edited the role by itself or the request that gave it is in
\* progress or failed, and a partner is credited with the claims and visits of
\* its links (auth.controller.ts, auth.service.ts, user.controller.ts,
\* user.service.ts, partner.service.ts, referral-links.service.ts).
THEOREM SpecAccountsConsistent == Spec => []AccountsConsistent
<1>1. /\ moving = "accounts" => AccInv
      /\ moving = "partners" => PartInv
      => AccountsConsistent
  BY AccPromises, PartPromises, SideAssumption DEF AccountsConsistent
<1> QED
  BY <1>1, AccInvariant, PartInvariant, PTL
-----------------------------------------------------------------------------
(* Types.                                                                  *)

LEMMA AsgTypedInit == ASSUME Assignments!Init PROVE AsgTyped
  BY SideAssumption DEF Assignments!Init, Assignments!Passengers, AsgTyped

\* Nobody writes data but with a number of its own, and nobody makes the customer
\* a minor.
LEMMA AsgTypedSteps ==
  ASSUME AsgInv, AsgTyped, [Assignments!Next]_(Assignments!vars)
  PROVE  AsgTyped'
<1> DEFINE Fresh == assignmentSpent < Limit - 1 /\ assignmentSpent' = assignmentSpent + 1
           Kept == person' = person /\ flight' = flight
<1>1. /\ assignmentSpent \in Nat /\ flight \in Nat /\ Limit \in Int
      /\ person \in [Assignments!Passengers -> AsgPeople]
      /\ \A p \in Assignments!Passengers : person[p] \in AsgPeople /\ person[p].name \in Nat
  BY SideAssumption DEF AsgInv, AsgShapes, AsgPeople
<1>2. ASSUME Kept, Fresh \/ assignmentSpent' = assignmentSpent
      PROVE  AsgTyped'
  BY <1>1, <1>2 DEF AsgTyped
<1>3. ASSUME NEW h \in Http, NEW edit \in {"customer", "details", "passenger"},
             NEW q \in Assignments!Passengers, Assignments!BeginEdit(h, edit, q)
      PROVE  AsgTyped'
  <2>1. /\ Fresh
        /\ \/ flight' = assignmentSpent + 1 /\ person' = person
           \/ person' = [person EXCEPT ![q].name = assignmentSpent + 1] /\ flight' = flight
    BY <1>3 DEF Assignments!BeginEdit, Assignments!Spend
  <2>2. CASE flight' = assignmentSpent + 1 /\ person' = person
    BY <1>1, <2>1, <2>2 DEF AsgTyped
  <2>3. CASE person' = [person EXCEPT ![q].name = assignmentSpent + 1] /\ flight' = flight
    <3>1. \A p \in Assignments!Passengers :
            /\ person'[p].minor = person[p].minor
            /\ person'[p].name \in {person[p].name, assignmentSpent + 1}
      BY <1>1, <2>3 DEF AsgPeople
    <3>2. Customer \in Assignments!Passengers
      BY DEF Assignments!Passengers
    <3> QED
      BY <1>1, <2>1, <2>3, <3>1, <3>2 DEF AsgTyped
  <2> QED
    BY <2>1, <2>2, <2>3
<1>4. ASSUME NEW q \in Others, Assignments!MakeMinor(q)
      PROVE  AsgTyped'
  <2>1. Fresh /\ flight' = flight /\ person' = [person EXCEPT ![q].minor = TRUE]
    BY <1>4 DEF Assignments!MakeMinor, Assignments!Spend
  <2>2. /\ q # Customer /\ Customer \in Assignments!Passengers
        /\ q \in Assignments!Passengers
    BY SideAssumption DEF Assignments!Passengers
  <2>3. /\ person'[Customer].minor = person[Customer].minor
        /\ \A p \in Assignments!Passengers : person'[p].name = person[p].name
    BY <1>1, <2>1, <2>2 DEF AsgPeople
  <2>4. ~person'[Customer].minor
    BY <2>3 DEF AsgTyped
  <2>5. /\ assignmentSpent' <= Limit - 1 /\ flight' <= assignmentSpent'
        /\ \A p \in Assignments!Passengers : person'[p].name <= assignmentSpent'
    BY <1>1, <2>1, <2>3 DEF AsgTyped
  <2> QED
    BY <2>4, <2>5 DEF AsgTyped
<1>5. ASSUME Assignments!FlightMoves PROVE AsgTyped'
  BY <1>1, <1>5 DEF Assignments!FlightMoves, Assignments!Spend, AsgTyped
<1>6. ASSUME UNCHANGED Assignments!vars PROVE AsgTyped'
  BY <1>2, <1>6 DEF Assignments!vars
<1>7. ASSUME NEW h \in Http,
             \/ Assignments!Proceed(h) \/ Assignments!Throw(h)
             \/ \E p \in Assignments!Passengers : Assignments!BeginSign(h, p)
      PROVE  AsgTyped'
  <2>1. CASE Assignments!Proceed(h)
    BY <1>2, <2>1
       DEF Assignments!Proceed, Assignments!SignReadsPassenger,
           Assignments!SignReadsClaim, Assignments!Enqueue, Assignments!EditReads,
           Assignments!Pick, Assignments!Removes, Assignments!Saves
  <2>2. CASE Assignments!Throw(h)
    BY <1>2, <2>2 DEF Assignments!Throw, Assignments!Spend
  <2>3. CASE \E p \in Assignments!Passengers : Assignments!BeginSign(h, p)
    BY <1>2, <2>3 DEF Assignments!BeginSign, Assignments!Spend
  <2> QED
    BY <1>7, <2>1, <2>2, <2>3
<1>8. ASSUME \/ Assignments!Generate \/ Assignments!GenerateFails
             \/ \E d \in DOMAIN assignments :
                  \/ Assignments!RemoveAssignment(d)
                  \/ \E type \in Assignments!Types : Assignments!Retype(d, type)
                  \/ \E p \in Assignments!Passengers : Assignments!Reassign(d, p)
             \/ Assignments!Restart
      PROVE  AsgTyped'
  BY <1>2, <1>8
     DEF Assignments!Generate, Assignments!GenerateFails, Assignments!RemoveAssignment,
         Assignments!Retype, Assignments!Reassign, Assignments!EditDocument,
         Assignments!Restart, Assignments!Spend
<1>9. Others \subseteq Assignments!Passengers /\ Customer \in Assignments!Passengers
  BY DEF Assignments!Passengers
<1> QED
  BY <1>3, <1>4, <1>5, <1>6, <1>7, <1>8, <1>9 DEF Assignments!Next

LEMMA AsgTypes ==
  ASSUME AsgInv, AsgTyped
  PROVE  Assignments!TypeOK
<1>1. \A d \in DOMAIN assignments :
        /\ assignments[d].passenger \in Assignments!Passengers
        /\ assignments[d].layout \in Assignments!Layouts
        /\ assignments[d].type \in Assignments!Types
        /\ \/ assignments[d].layout = "parental" => person[assignments[d].passenger].minor
           \/ Assignments!StaffEdited(d)
  BY AsgFields DEF AsgInv, AsgDocs, AsgDocsFit, DocStays, Assignments!StaffEdited
<1>2. /\ \A p \in Assignments!Passengers : person[p].name \in Nat
      /\ flight \in Nat /\ assignmentSpent \in Nat /\ Limit \in Int
  BY SideAssumption DEF AsgInv, AsgShapes, AsgPeople
<1> QED
  BY <1>1, <1>2 DEF AsgTyped, Assignments!TypeOK

LEMMA LetTypedInit == ASSUME Letters!Init PROVE LetTyped
  BY DEF Letters!Init, Letters!Mails, LetTyped

LEMMA LetTypedDeletes ==
  ASSUME LetInv, LetTyped, NEW c \in Old, Letters!Delete(c)
  PROVE  LetTyped'
<1>1. mail' = [m \in Letters!Mails |-> IF m \in Letters!FiledUnder(c)
                                       THEN [mail[m] EXCEPT !.row = "gone", !.file = FALSE]
                                       ELSE mail[m]]
  BY DEF Letters!Delete
<1>2. \A m \in Letters!Mails : mail[m] \in LetMails
  BY LetFields DEF LetInv
<1>3. ASSUME NEW m \in Letters!Mails
      PROVE  mail'[m].file => mail'[m].row = "there"
  <2>1. CASE m \in Letters!FiledUnder(c)
    BY <1>1, <1>2, <2>1 DEF LetMails
  <2>2. CASE m \notin Letters!FiledUnder(c)
    BY <1>1, <2>2 DEF LetTyped
  <2> QED
    BY <2>1, <2>2
<1>4. Letters!Mails' = Letters!Mails
  BY <1>1 DEF Letters!Mails
<1> QED
  BY <1>3, <1>4 DEF LetTyped

\* A file is stored behind its row and goes with it.
LEMMA LetTypedSteps ==
  ASSUME LetInv, LetTyped, [Letters!Next]_(Letters!vars)
  PROVE  LetTyped'
<1>1. /\ mail \in Seq(LetMails) /\ Letters!Mails = 1..Len(mail) /\ Len(mail) \in Nat
      /\ \A m \in Letters!Mails : mail[m] \in LetMails
  BY LetFields DEF LetInv, LetShapes
<1>2. ASSUME NEW thread, NEW kind, NEW c, Letters!Posted(thread, kind, c)
      PROVE  LetTyped'
  <2> DEFINE new == [thread |-> IF thread = 0 THEN Len(mail) + 1 ELSE thread,
                     kind |-> kind, chosen |-> c, row |-> "none",
                     claim |-> Letters!None, file |-> FALSE]
  <2>1. mail' = Append(mail, new) /\ ~new.file
    BY <1>2 DEF Letters!Posted
  <2> HIDE DEF new
  <2>2. /\ DOMAIN mail' = 1..(Len(mail) + 1)
        /\ \A m \in 1..(Len(mail) + 1) :
             mail'[m] = IF m = Len(mail) + 1 THEN new ELSE mail[m]
    BY <1>1, <2>1
  <2>3. \A m \in 1..(Len(mail) + 1) : m = Len(mail) + 1 \/ m \in Letters!Mails
    BY <1>1
  <2> QED
    BY <2>1, <2>2, <2>3 DEF LetTyped, Letters!Mails
<1>3. ASSUME mail' = mail PROVE LetTyped'
  BY <1>3 DEF LetTyped, Letters!Mails
<1>4. ASSUME NEW h \in Http, Letters!SavesRow(h) \/ Letters!SavesFile(h) \/ Letters!Moves(h)
      PROVE  LetTyped'
  <2>1. \/ mail' = mail
        \/ \E c : mail' = [mail EXCEPT ![Letters!Mail(h)].row = "there",
                                       ![Letters!Mail(h)].claim = c]
        \/ /\ mail[Letters!Mail(h)].row = "there"
           /\ mail' = [mail EXCEPT ![Letters!Mail(h)].file = TRUE]
        \/ \E c : mail' = [mail EXCEPT ![Letters!Mail(h)].claim = c]
    BY <1>4 DEF Letters!SavesRow, Letters!SavesFile, Letters!Moves
  <2>2. DOMAIN mail' = DOMAIN mail
    BY <2>1
  <2>3. ASSUME NEW m \in Letters!Mails, mail'[m].file
        PROVE  mail'[m].row = "there"
    <3>1. mail[m] \in [thread : Nat, kind : {"INBOX", "SENT", "NOTICE"},
                       chosen : Old \cup {Letters!None},
                       row : {"none", "there", "gone"},
                       claim : Old \cup {Letters!None}, file : BOOLEAN]
      BY <1>1 DEF LetMails
    <3>2. mail[m].file => mail[m].row = "there"
      BY DEF LetTyped
    <3>3. CASE m # Letters!Mail(h) \/ mail' = mail
      BY <1>1, <2>1, <2>3, <3>2, <3>3 DEF Letters!Mails
    <3>4. CASE m = Letters!Mail(h)
      <4>1. CASE \E c : mail' = [mail EXCEPT ![Letters!Mail(h)].row = "there",
                                             ![Letters!Mail(h)].claim = c]
        BY <1>1, <3>1, <3>4, <4>1
      <4>2. CASE /\ mail[Letters!Mail(h)].row = "there"
                 /\ mail' = [mail EXCEPT ![Letters!Mail(h)].file = TRUE]
        BY <1>1, <3>1, <3>4, <4>2
      <4>3. CASE \E c : mail' = [mail EXCEPT ![Letters!Mail(h)].claim = c]
        BY <1>1, <2>3, <3>1, <3>2, <3>4, <4>3
      <4> QED
        BY <2>1, <3>3, <4>1, <4>2, <4>3
    <3> QED
      BY <3>3, <3>4
  <2> QED
    BY <2>2, <2>3 DEF LetTyped, Letters!Mails
<1>5. ASSUME NEW c \in Old, Letters!Delete(c)
      PROVE  LetTyped'
  BY <1>5, LetTypedDeletes
<1>6. ASSUME NEW h \in Http, Letters!LetterSends(h) \/ Letters!NoticeSends(h)
      PROVE  LetTyped'
  BY <1>2, <1>6 DEF Letters!LetterSends, Letters!NoticeSends
<1>7. ASSUME NEW thread, Letters!Writes(thread)
      PROVE  LetTyped'
  BY <1>2, <1>7 DEF Letters!Writes
<1>8. ASSUME NEW h \in Http,
             \/ Letters!LetterLooks(h) \/ Letters!NoticeLost(h)
             \/ Letters!LooksInThread(h) \/ Letters!LooksForAddress(h)
             \/ Letters!SavesNews(h) \/ Letters!FetchesFile(h) \/ Letters!Throw(h)
             \/ \E c, reply : Letters!BeginLetter(h, reply, c)
             \/ \E c : Letters!BeginNotice(h, c)
             \/ \E m, c : Letters!BeginAnswer(h, m) \/ Letters!BeginMove(h, m, c)
      PROVE  LetTyped'
  BY <1>3, <1>8
     DEF Letters!LetterLooks, Letters!NoticeLost, Letters!LooksInThread,
         Letters!LooksForAddress, Letters!SavesNews, Letters!FetchesFile, Letters!Throw,
         Letters!BeginLetter, Letters!BeginNotice, Letters!BeginAnswer,
         Letters!BeginMove, Letters!Only
<1>9. ASSUME UNCHANGED Letters!vars \/ \E c \in Old : Letters!Archive(c)
      PROVE  LetTyped'
  BY <1>3, <1>9 DEF Letters!vars, Letters!Archive
<1> QED
  BY <1>4, <1>5, <1>6, <1>7, <1>8, <1>9 DEF Letters!Next, Letters!Proceed

LEMMA LetTypes ==
  ASSUME LetInv, LetTyped
  PROVE  Letters!TypeOK
<1>1. \A m \in Letters!Mails : /\ mail[m].row \in {"none", "there", "gone"}
                               /\ mail[m].claim \in Old \cup {Letters!None}
  BY LetFields DEF LetInv, LetMails
<1>2. \A c \in Old : filed[c] \in {"there", "archived", "gone"}
  BY DEF LetInv, LetShapes
<1> QED
  BY <1>1, <1>2 DEF LetInv, LetThreads, LetTyped, Letters!TypeOK

LEMMA PayTypedInit == ASSUME Payments!Init PROVE PayTyped
<1>1. \A p \in Payments!Passengers : AtLetter(p) = {}
  BY DEF Payments!Init, AtLetter, Payments!At, Payments!Rest
<1>2. Cardinality({}) = 0
  BY FS_EmptySet
<1>3. \A p \in Payments!Passengers : failures[p] = 0 /\ letters[p] = 0 /\ unsent[p] = 0
  BY DEF Payments!Init
<1>4. paymentSpent = 0 /\ paymentMet = {} /\ paymentBroken = {} /\ Limit - 1 \in Nat
  BY SideAssumption DEF Payments!Init
<1> QED
  BY <1>1, <1>2, <1>3, <1>4 DEF PayTyped

LEMMA PayNumbers ==
  ASSUME PayInv, PayTyped
  PROVE  /\ paymentSpent \in Nat /\ Limit \in Int
         /\ \A p \in Payments!Passengers :
              /\ letters[p] \in Nat /\ unsent[p] \in Nat /\ failures[p] \in Nat
              /\ IsFiniteSet(AtLetter(p)) /\ Cardinality(AtLetter(p)) \in Nat
  BY PayFields, FS_CardinalityType, SideAssumption
     DEF PayInv, PayLetters, PayLettersOf, PayTyped

\* What of a passenger is in order when no request about a failure begins.
LEMMA PayNoMore ==
  ASSUME PayInv, PayTyped, NEW p \in Payments!Passengers,
         AtLetter(p)' \subseteq AtLetter(p), paymentSpent' \in Nat,
         paymentSpent' >= paymentSpent, failures'[p] = failures[p],
         letters'[p] + unsent'[p] = letters[p] + unsent[p]
  PROVE  /\ failures'[p] <= paymentSpent'
         /\ letters'[p] + unsent'[p] + Cardinality(AtLetter(p)') <= failures'[p]
<1>1. /\ IsFiniteSet(AtLetter(p)') /\ Cardinality(AtLetter(p)') \in Nat
      /\ Cardinality(AtLetter(p)') <= Cardinality(AtLetter(p))
  BY PayNumbers, FS_Subset, FS_CardinalityType
<1>2. /\ failures[p] <= paymentSpent
      /\ letters[p] + unsent[p] + Cardinality(AtLetter(p)) <= failures[p]
  BY DEF PayTyped
<1> QED
  BY <1>1, <1>2, PayNumbers

\* The passengers at the letter, when one request goes on.
LEMMA PayAtLetter ==
  ASSUME NEW h \in Http, NEW p,
         \A k \in Http \ {h} : paymentRequest'[k] = paymentRequest[k]
  PROVE  /\ AtLetter(p)' \subseteq AtLetter(p) \cup {h}
         /\ paymentRequest'[h].at # "letter" => AtLetter(p)' = AtLetter(p) \ {h}
         /\ paymentRequest'[h].of # p => AtLetter(p)' \subseteq AtLetter(p)
<1>1. \A k \in Http \ {h} : k \in AtLetter(p)' <=> k \in AtLetter(p)
  <2> TAKE k \in Http \ {h}
  <2>1. paymentRequest'[k] = paymentRequest[k]
    OBVIOUS
  <2> QED
    BY <2>1 DEF AtLetter, Payments!At, Payments!Of
<1>2. AtLetter(p) \subseteq Http /\ AtLetter(p)' \subseteq Http
  BY DEF AtLetter
<1>3. paymentRequest'[h].at # "letter" \/ paymentRequest'[h].of # p => h \notin AtLetter(p)'
  BY DEF AtLetter, Payments!At, Payments!Of
<1> QED
  BY <1>1, <1>2, <1>3

LEMMA PayTypedBegins ==
  ASSUME PayInv, PayTyped, NEW h \in Http, NEW q \in Payments!Passengers,
         \/ \E to \in Payments!Payments : Payments!BeginPayment(h, q, to)
         \/ \E to \in Payments!Statuses : Payments!BeginStatus(h, q, to)
  PROVE  PayTyped'
<1> DEFINE Begins(r) ==
             /\ paymentRequest[h].op = "rest" /\ Payments!Spend
             /\ paymentRequest' = [paymentRequest EXCEPT ![h] = r] /\ r.of = q
             /\ UNCHANGED <<letters, unsent, paymentBroken>>
             /\ paymentMet' \in {paymentMet, paymentMet \cup {q}}
             /\ \/ r.at # "letter" /\ failures' = failures
                \/ failures' = [failures EXCEPT ![q] = failures[q] + 1]
<1>1. PICK new \in PayRequests : Begins(new)
  <2>1. ASSUME NEW to \in Payments!Payments, Payments!BeginPayment(h, q, to)
        PROVE  \E r \in PayRequests : Begins(r)
    <3> DEFINE new == [op |-> "payment", at |-> IF to = "FAILED" THEN "letter" ELSE "payment",
                       of |-> q, to |-> to]
    <3>1. new \in PayRequests /\ new.of = q /\ (to # "FAILED" => new.at # "letter")
      BY DEF PayRequests
    <3>2. /\ paymentRequest[h].op = "rest" /\ Payments!Spend
          /\ paymentRequest' = [paymentRequest EXCEPT ![h] = new]
          /\ UNCHANGED <<letters, unsent, paymentBroken>>
          /\ IF to = "FAILED" THEN failures' = [failures EXCEPT ![q] = failures[q] + 1]
                              ELSE failures' = failures
      BY <2>1 DEF Payments!BeginPayment, Payments!rows
    <3>3. paymentMet' \in {paymentMet, paymentMet \cup {q}}
      BY <2>1 DEF Payments!BeginPayment, Payments!Meets
    <3> HIDE DEF new
    <3> QED
      BY <3>1, <3>2, <3>3
  <2>2. ASSUME NEW to \in Payments!Statuses, Payments!BeginStatus(h, q, to)
        PROVE  \E r \in PayRequests : Begins(r)
    <3> DEFINE new == [op |-> "status", at |-> "base", of |-> q, to |-> to]
    <3>1. new \in PayRequests /\ new.of = q /\ new.at # "letter"
      BY DEF PayRequests
    <3>2. /\ paymentRequest[h].op = "rest" /\ Payments!Spend
          /\ paymentRequest' = [paymentRequest EXCEPT ![h] = new]
          /\ UNCHANGED <<letters, unsent, paymentBroken, failures>>
      BY <2>2 DEF Payments!BeginStatus, Payments!rows
    <3>3. paymentMet' \in {paymentMet, paymentMet \cup {q}}
      BY <2>2 DEF Payments!BeginStatus, Payments!Meets
    <3> HIDE DEF new
    <3> QED
      BY <3>1, <3>2, <3>3
  <2> QED
    BY <2>1, <2>2
<1>2. /\ paymentRequest'[h] = new
      /\ \A k \in Http \ {h} : paymentRequest'[k] = paymentRequest[k]
  BY <1>1, PayGoes
<1>3. /\ paymentSpent' = paymentSpent + 1 /\ paymentSpent' \in 0..(Limit - 1)
      /\ paymentSpent' \in Nat /\ paymentSpent' >= paymentSpent
  BY <1>1, PayNumbers DEF Payments!Spend
<1>4. /\ failures' \in [Payments!Passengers -> Nat]
      /\ \A p \in Payments!Passengers \ {q} : failures'[p] = failures[p]
      /\ failures'[q] \in {failures[q], failures[q] + 1}
      /\ new.at = "letter" => failures'[q] = failures[q] + 1
  <2>1. failures \in [Payments!Passengers -> Nat]
    BY DEF PayInv, PayShapes
  <2> QED
    BY <1>1, <2>1
<1>5. h \notin AtLetter(q)
  BY <1>1, PayFields DEF PayInv, PaySteps, AtLetter, Payments!At
<1>6. ASSUME NEW p \in Payments!Passengers
      PROVE  /\ failures'[p] <= paymentSpent'
             /\ letters'[p] + unsent'[p] + Cardinality(AtLetter(p)') <= failures'[p]
  <2>1. CASE p # q
    <3>1. AtLetter(p)' \subseteq AtLetter(p)
      BY <1>1, <1>2, <2>1, PayAtLetter
    <3> QED
      BY <1>1, <1>3, <1>4, <2>1, <3>1, PayNoMore
  <2>2. CASE p = q
    <3>1. /\ failures[q] <= paymentSpent
          /\ letters[q] + unsent[q] + Cardinality(AtLetter(q)) <= failures[q]
      BY DEF PayTyped
    <3>2. AtLetter(q)' = AtLetter(q) \/ (AtLetter(q)' \subseteq AtLetter(q) \cup {h}
                                         /\ new.at = "letter")
      BY <1>2, <1>5, PayAtLetter
    <3>3. CASE AtLetter(q)' = AtLetter(q)
      BY <1>1, <1>3, <1>4, <2>2, <3>1, <3>3, PayNumbers
    <3>4. CASE AtLetter(q)' \subseteq AtLetter(q) \cup {h} /\ new.at = "letter"
      <4>1. /\ IsFiniteSet(AtLetter(q) \cup {h})
            /\ Cardinality(AtLetter(q) \cup {h}) = Cardinality(AtLetter(q)) + 1
        BY <1>5, PayNumbers, FS_AddElement
      <4>2. /\ Cardinality(AtLetter(q)') <= Cardinality(AtLetter(q)) + 1
            /\ Cardinality(AtLetter(q)') \in Nat
        BY <3>4, <4>1, FS_Subset, FS_CardinalityType
      <4> QED
        BY <1>1, <1>3, <1>4, <2>2, <3>1, <3>4, <4>2, PayNumbers
    <3> QED
      BY <3>2, <3>3, <3>4
  <2> QED
    BY <2>1, <2>2
<1>7. paymentMet' \subseteq Payments!Passengers /\ paymentBroken' \subseteq Payments!Passengers
  BY <1>1 DEF PayTyped
<1> QED
  BY <1>3, <1>6, <1>7 DEF PayTyped

LEMMA PayTypedLetters ==
  ASSUME PayInv, PayTyped, NEW h \in Http,
         Payments!SendsLetter(h) \/ Payments!LosesLetter(h)
  PROVE  PayTyped'
<1>1. PICK q \in Payments!Passengers : q = Payments!Of(h)
  BY PayFields
<1>2. /\ Payments!At(h, "letter") /\ Payments!Go(h, "base")
      /\ UNCHANGED <<failures, paymentMet, paymentBroken, paymentSpent>>
      /\ \/ letters' = [letters EXCEPT ![q] = letters[q] + 1] /\ unsent' = unsent
         \/ unsent' = [unsent EXCEPT ![q] = unsent[q] + 1] /\ letters' = letters
  BY <1>1 DEF Payments!SendsLetter, Payments!LosesLetter, Payments!rows,
      Payments!history
<1>3. /\ paymentRequest'[h].at = "base"
      /\ \A k \in Http \ {h} : paymentRequest'[k] = paymentRequest[k]
  BY <1>2, PayGo
<1>4. /\ \A p \in Payments!Passengers \ {q} : letters'[p] = letters[p] /\ unsent'[p] = unsent[p]
      /\ letters'[q] + unsent'[q] = letters[q] + unsent[q] + 1
  <2>1. /\ letters \in [Payments!Passengers -> Nat]
        /\ unsent \in [Payments!Passengers -> Nat]
    BY DEF PayInv, PayShapes
  <2> QED
    BY <1>2, <2>1
<1>5. \A p \in Payments!Passengers : AtLetter(p)' = AtLetter(p) \ {h}
  BY <1>3, PayAtLetter
<1>6. ASSUME NEW p \in Payments!Passengers
      PROVE  /\ failures'[p] <= paymentSpent'
             /\ letters'[p] + unsent'[p] + Cardinality(AtLetter(p)') <= failures'[p]
  <2>1. CASE p # q
    <3>1. AtLetter(p)' \subseteq AtLetter(p)
      BY <1>5
    <3> QED
      BY <1>2, <1>4, <2>1, <3>1, PayNoMore, PayNumbers
  <2>2. CASE p = q
    <3>1. h \in AtLetter(q)
      BY <1>1, <1>2 DEF AtLetter
    <3>2. Cardinality(AtLetter(q)') = Cardinality(AtLetter(q)) - 1
      BY <1>5, <3>1, PayNumbers, FS_RemoveElement
    <3>3. /\ failures[q] <= paymentSpent
          /\ letters[q] + unsent[q] + Cardinality(AtLetter(q)) <= failures[q]
      BY DEF PayTyped
    <3> QED
      BY <1>2, <1>4, <2>2, <3>2, <3>3, PayNumbers
  <2> QED
    BY <2>1, <2>2
<1> QED
  BY <1>2, <1>6 DEF PayTyped

\* The other steps send no letter and begin none.
LEMMA PayTypedOthers ==
  ASSUME PayInv, PayTyped, UNCHANGED <<letters, unsent, failures, paymentMet>>,
         paymentSpent' \in 0..(Limit - 1), paymentSpent' >= paymentSpent,
         paymentBroken' \subseteq Payments!Passengers,
         \A h \in Http : \/ paymentRequest'[h] = paymentRequest[h]
                         \/ paymentRequest'[h].at # "letter"
  PROVE  PayTyped'
<1>1. ASSUME NEW p \in Payments!Passengers
      PROVE  AtLetter(p)' \subseteq AtLetter(p)
  BY DEF AtLetter, Payments!At, Payments!Of
<1>2. paymentSpent' \in Nat
  BY PayNumbers
<1>3. ASSUME NEW p \in Payments!Passengers
      PROVE  /\ failures'[p] <= paymentSpent'
             /\ letters'[p] + unsent'[p] + Cardinality(AtLetter(p)') <= failures'[p]
  BY <1>1, <1>2, PayNoMore
<1> QED
  BY <1>3 DEF PayTyped

LEMMA PayTypedSteps ==
  ASSUME PayInv, PayTyped, [Payments!Next]_(Payments!vars)
  PROVE  PayTyped'
<1>1. /\ paymentSpent \in 0..(Limit - 1) /\ paymentSpent >= paymentSpent
      /\ paymentBroken \subseteq Payments!Passengers
      /\ paymentSpent \in Nat /\ Limit \in Int
      /\ \A h \in Http : Payments!Of(h) \in Payments!Passengers
  BY PayNumbers, PayFields DEF PayTyped
<1>2. ASSUME NEW h \in Http,
             \/ Payments!ReadsBase(h) \/ Payments!WritesStatus(h)
             \/ Payments!NotesOfCustomer(h) \/ Payments!NotesOfOther(h)
             \/ Payments!Fails(h)
      PROVE  PayTyped'
  <2>1. /\ \/ \E step \in {"status", "payment"} : Payments!Go(h, step)
           \/ Payments!End(h)
        /\ UNCHANGED <<letters, unsent, failures, paymentMet, paymentSpent>>
        /\ paymentBroken' \in {paymentBroken, paymentBroken \cup {Payments!Of(h)}}
    BY <1>2 DEF Payments!ReadsBase, Payments!WritesStatus, Payments!NotesOfCustomer,
       Payments!NotesOfOther, Payments!Notes, Payments!Fails, Payments!After,
       Payments!rows, Payments!history
  <2>2. \A k \in Http : \/ paymentRequest'[k] = paymentRequest[k]
                        \/ paymentRequest'[k].at # "letter"
    BY <2>1, PayGo, PayEnd, PayFields
  <2> QED
    BY <1>1, <2>1, <2>2, PayTypedOthers
<1>3. ASSUME Payments!DeleteClaim \/ UNCHANGED Payments!vars
      PROVE  PayTyped'
  <2>1. /\ UNCHANGED <<letters, unsent, failures, paymentMet, paymentBroken,
                       paymentRequest>>
        /\ paymentSpent' \in 0..(Limit - 1) /\ paymentSpent' >= paymentSpent
    BY <1>1, <1>3 DEF Payments!DeleteClaim, Payments!vars, Payments!history, Payments!Spend
  <2> QED
    BY <1>1, <2>1, PayTypedOthers
<1>4. ASSUME Payments!Stop
      PROVE  PayTyped'
  <2>1. /\ UNCHANGED <<letters, unsent, failures, paymentMet>>
        /\ paymentSpent' \in 0..(Limit - 1) /\ paymentSpent' >= paymentSpent
        /\ paymentBroken' = paymentBroken \cup
             {Payments!Of(h) : h \in {k \in Http : paymentRequest[k].op # "rest"}}
        /\ paymentRequest' = [h \in Http |-> Payments!Rest]
    BY <1>1, <1>4 DEF Payments!Stop, Payments!rows, Payments!Spend
  <2>2. paymentBroken' \subseteq Payments!Passengers
    BY <1>1, <2>1
  <2>3. \A k \in Http : paymentRequest'[k].at # "letter"
    BY <2>1, PayFields
  <2> QED
    BY <2>1, <2>2, <2>3, PayTypedOthers
<1> QED
  BY <1>2, <1>3, <1>4, PayTypedBegins, PayTypedLetters DEF Payments!Next

LEMMA PayTypes ==
  ASSUME PayInv, PayTyped
  PROVE  Payments!TypeOK
<1>1. \A p \in Payments!Passengers :
        /\ failures[p] \in 0..(Limit - 1) /\ letters[p] \in 0..(Limit - 1)
        /\ unsent[p] \in 0..(Limit - 1)
  BY PayNumbers DEF PayTyped
<1> QED
  BY <1>1 DEF PayInv, PayShapes, PayTyped, Payments!TypeOK

LEMMA AirTypedSteps ==
  ASSUME AirTyped, [Index!Next]_(Index!vars)
  PROVE  AirTyped'
<1>1. ASSUME \/ indexSpent' = indexSpent
             \/ indexSpent < Limit - 1 /\ indexSpent' = indexSpent + 1
      PROVE  AirTyped'
  BY <1>1, SideAssumption DEF AirTyped
<1>2. ASSUME \/ UNCHANGED Index!vars
             \/ Index!Start \/ Index!Counts \/ Index!CountFails \/ Index!Looks
             \/ Index!Deletes \/ Index!Creates \/ Index!ReadsTable
      PROVE  AirTyped'
  BY <1>1, <1>2
     DEF Index!vars, Index!Start, Index!Counts, Index!CountFails, Index!Looks,
         Index!Deletes, Index!Creates, Index!ReadsTable, Index!Spend
<1>3. ASSUME \/ Index!Stop \/ Index!Arrives \/ Index!Truncate \/ Index!Copy
             \/ \E h \in Http : \/ Index!Searches(h) \/ Index!Keeps(h)
                                \/ \E q \in Index!Queries : Index!Ask(h, q)
             \/ \E q \in Index!Queries : Index!Expires(q)
      PROVE  AirTyped'
  BY <1>1, <1>3
     DEF Index!Stop, Index!Arrives, Index!Truncate, Index!Copy, Index!Searches,
         Index!Keeps, Index!Ask, Index!Expires, Index!Spend, Index!history
<1>4. ASSUME Index!FillsIndex
      PROVE  AirTyped'
  BY <1>1, <1>4 DEF Index!FillsIndex, Index!Spend
<1> QED
  BY <1>2, <1>3, <1>4 DEF Index!Next

LEMMA AirTypes ==
  ASSUME AirInv, AirTyped
  PROVE  Index!TypeOK
<1>1. (CHOOSE q \in Index!Queries : TRUE) \in Index!Queries
  BY SideAssumption DEF Index!Queries
<1>2. AirSearches = [at : {"rest", "search", "keep"}, query : Index!Queries,
                     found : SUBSET Index!Table, whole : BOOLEAN]
  BY <1>1 DEF AirSearches
<1> QED
  BY <1>2 DEF AirInv, AirShapes, AirTyped, Index!TypeOK

LEMMA WorthTypedSteps ==
  ASSUME WorthTyped, [Compensation!Next]_(Compensation!vars)
  PROVE  WorthTyped'
<1>1. \A f \in Compensation!Facts : f # Compensation!NoFacts
  BY DEF Compensation!Facts, Compensation!NoFacts
<1> QED
  BY <1>1 DEF WorthTyped, Compensation!Next, Compensation!Ask, Compensation!vars

\* An amount is one of the three, whole or halved, with or without the deduction.
LEMMA WorthTypes ==
  ASSUME WorthInv, WorthTyped
  PROVE  Compensation!TypeOK
<1>1. CASE facts = Compensation!NoFacts
  BY <1>1 DEF WorthInv, WorthTyped, Compensation!TypeOK
<1>2. CASE facts # Compensation!NoFacts
  <2>1. facts \in Compensation!Facts /\ answer = Compensation!Worth(facts)
    BY <1>2 DEF WorthInv
  <2>2. CASE facts.distance = 0
    BY <2>1, <2>2 DEF Compensation!Worth, Compensation!TypeOK
  <2>3. CASE facts.distance # 0
    <3>1. answer \in {0, 75, 125, 150, 200, 250, 300, 350, 400, 550, 600}
      BY <2>1, <2>3, WorthValues
    <3> QED
      BY <2>1, <3>1 DEF Compensation!TypeOK
  <2> QED
    BY <2>2, <2>3
<1> QED
  BY <1>1, <1>2

LEMMA ViewTypes ==
  ASSUME ViewInv
  PROVE  Views!TypeOK
<1>1. \A c \in Claims : claim[c].status \in Views!Statuses
  BY ViewFields DEF ViewInv, ViewRows
<1>2. reader.role \in Views!Roles /\ clashed \subseteq Claims
  BY DEF ViewInv, ViewShapes, ViewReaders
<1> QED
  BY <1>1, <1>2 DEF ViewInv, ViewTimes, Views!TypeOK

LEMMA TypedInvariant == Spec => []Typed
<1> DEFINE Inv == /\ moving = "assignments" => AsgInv
                  /\ moving = "letters" => LetInv
                  /\ moving = "payments" => PayInv
<1>1. Init => Typed
  <2>1. Compensation!Init => WorthTyped
    BY DEF Compensation!Init, WorthTyped
  <2>2. Index!Init => AirTyped
    BY SideAssumption DEF Index!Init, AirTyped
  <2> QED
    BY <2>1, <2>2, AsgTypedInit, LetTypedInit, PayTypedInit DEF Init, Typed
<1>2. Inv /\ Typed /\ [Next]_vars => Typed'
  <2> SUFFICES ASSUME Inv, Typed, [Next]_vars
               PROVE  Typed'
    OBVIOUS
  <2>1. moving' = moving
    BY DEF Next, vars, MoveAccounts, MoveDiscrepancies, MoveAssignments, MoveLinks,
       MoveViews, MovePartners, MoveLetters, MoveCompensation, MovePayments, MoveAirports
  <2>2. moving = "assignments" => AsgTyped'
    BY AsgMoves, AsgTypedSteps DEF Typed
  <2>3. moving = "letters" => LetTyped'
    BY LetStepsMove, LetTypedSteps DEF Typed
  <2>4. moving = "payments" => PayTyped'
    BY PayMoves, PayTypedSteps DEF Typed
  <2>5. moving = "airports" => AirTyped'
    BY AirMoves, AirTypedSteps DEF Typed
  <2>6. moving = "compensation" => WorthTyped'
    BY WorthMoves, WorthTypedSteps DEF Typed
  <2> QED
    BY <2>1, <2>2, <2>3, <2>4, <2>5, <2>6 DEF Typed
<1>3. Spec => []Inv
  BY AsgInvariant, LetInvariant, PayInvariant, PTL
<1> QED
  BY <1>1, <1>2, <1>3, PTL DEF Spec

\* For any constants, every variable of the ten components has the shape the code
\* gives it, with what its values say of one another: an assignment a parent has
\* signed is one of a minor and a discrepancy is about documents of its types
\* unless staff edited the document, a file is stored of a mail that has a row, no reset
\* code is kept before there is a user, letters about a payment are no more than
\* the limit of events, and a visitor is told one of eleven amounts
\* (document-assignment.service.ts, email.service.ts, auth.service.ts,
\* customer.controller.ts, claim.service.ts).
THEOREM SpecTypesOK == Spec => []TypesOK
<1>1. /\ moving = "accounts" => AccInv
      /\ moving = "discrepancies" => HubInv
      /\ moving = "assignments" => AsgInv
      /\ moving = "links" => LinkInv
      /\ moving = "views" => ViewInv
      /\ moving = "partners" => PartInv
      /\ moving = "letters" => LetInv
      /\ moving = "compensation" => WorthInv
      /\ moving = "payments" => PayInv
      /\ moving = "airports" => AirInv
      /\ Typed
      => TypesOK
  BY SideAssumption, AccPromises, HubPromises, LinkPromises, PartPromises, AsgTypes,
     ViewTypes, LetTypes, WorthTypes, PayTypes, AirTypes DEF Typed, TypesOK
<1> QED
  BY <1>1, AccInvariant, HubInvariant, AsgInvariant, LinksInvariant, ViewInvariant,
     PartInvariant, LetInvariant, WorthInvariant, PayInvariant, AirInvariant,
     TypedInvariant, PTL
===============================================================================
