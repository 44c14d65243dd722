------------------------------ MODULE MCPayout ------------------------------
(* Bounded instances of Payout: two payouts compete for the share of one.   *)
EXTENDS Payout, TLC

Symmetry == Permutations(Payouts) \cup Permutations(Calls) \cup Permutations(Keys)
=============================================================================
