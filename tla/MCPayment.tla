----------------------------- MODULE MCPayment -----------------------------
(* Bounded instances of Payment.                                            *)
EXTENDS Payment, TLC
=============================================================================
