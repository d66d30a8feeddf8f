-------------------------- MODULE CommissionLedger --------------------------
(***************************************************************************)
(* What the referral programme promises a partner, without the queues, the *)
(* retries and the handlers: a claim earns its partner one commission, the *)
(* commission raises the balance and the lifetime earnings by the same     *)
(* amount, and a payout takes from the balance only.                       *)
(***************************************************************************)
EXTENDS Integers

CONSTANTS
  Claims,      \* claims that may earn a commission
  Partners,    \* partners of the referral programme
  NoPartner,   \* "the referrer code belongs to nobody"
  ReferredBy,  \* the partner behind a claim's referrer code
  Amounts      \* amounts of money that can be credited or paid out

VARIABLES
  rewarded,    \* claims whose commission has been credited
  balance,     \* what a partner can still be paid
  earned       \* what a partner has been credited in total

ledger == <<rewarded, balance, earned>>

LedgerInit ==
  /\ rewarded = {}
  /\ balance = [p \in Partners |-> 0]
  /\ earned = [p \in Partners |-> 0]

Credit(c, amount) ==
  /\ c \notin rewarded
  /\ ReferredBy[c] # NoPartner
  /\ rewarded' = rewarded \cup {c}
  /\ balance' = [balance EXCEPT ![ReferredBy[c]] = @ + amount]
  /\ earned' = [earned EXCEPT ![ReferredBy[c]] = @ + amount]

PayOut(p, amount) ==
  /\ balance' = [balance EXCEPT ![p] = @ - amount]
  /\ UNCHANGED <<rewarded, earned>>

LedgerNext ==
  \/ \E c \in Claims, amount \in Amounts : Credit(c, amount)
  \/ \E p \in Partners, amount \in Amounts : PayOut(p, amount)

LedgerSpec == LedgerInit /\ [][LedgerNext]_ledger
=============================================================================
