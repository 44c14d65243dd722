------------------------------ MODULE MCAccess ------------------------------
(* Bounded instances of Access.                                             *)
EXTENDS Access, TLC
=============================================================================
