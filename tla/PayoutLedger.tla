--------------------------- MODULE PayoutLedger ---------------------------
(***************************************************************************)
(* What the payouts of one master account promise, whoever writes them:    *)
(* one payout is live at a time, it is committed only if the account's     *)
(* profit share covers it together with everything paid before, and its    *)
(* end is final.                                                           *)
(***************************************************************************)
EXTENDS Naturals, FiniteSetsExt

CONSTANTS
  None,      \* the amount of a payout nobody has requested
  Payouts,   \* identifiers of payouts
  Amounts    \* amounts a payout can have

VARIABLES
  phase,     \* of each payout
  amount,    \* of each payout
  peak       \* the largest profit share the account has had

vars == <<phase, amount, peak>>

Live == {"open", "committed"}

Total(S) == MapThenSumSet(LAMBDA p : amount[p], S)

Paid == {p \in Payouts : phase[p] = "paid"}

Init ==
  /\ phase = [p \in Payouts |-> "none"]
  /\ amount = [p \in Payouts |-> None]
  /\ peak \in Nat

Open(p) ==
  /\ phase[p] = "none"
  /\ \A q \in Payouts : phase[q] \notin Live
  /\ phase' = [phase EXCEPT ![p] = "open"]
  /\ \E a \in Amounts : amount' = [amount EXCEPT ![p] = a]
  /\ UNCHANGED peak

Commit(p) ==
  /\ phase[p] = "open"
  /\ Total(Paid \cup {p}) <= peak
  /\ phase' = [phase EXCEPT ![p] = "committed"]
  /\ UNCHANGED <<amount, peak>>

Pay(p) ==
  /\ phase[p] = "committed"
  /\ phase' = [phase EXCEPT ![p] = "paid"]
  /\ UNCHANGED <<amount, peak>>

Void(p) ==
  /\ phase[p] \in Live
  /\ phase' = [phase EXCEPT ![p] = "void"]
  /\ UNCHANGED <<amount, peak>>

Raise ==
  /\ peak' \in Nat
  /\ peak' > peak
  /\ UNCHANGED <<phase, amount>>

Next ==
  \/ \E p \in Payouts : Open(p) \/ Commit(p) \/ Pay(p) \/ Void(p)
  \/ Raise

Spec == Init /\ [][Next]_vars
=============================================================================
