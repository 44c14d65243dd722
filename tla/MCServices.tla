----------------------------- MODULE MCServices -----------------------------
(***************************************************************************)
(* Bounded instances of the services around an account that share neither  *)
(* state nor steps: the payment of a challenge, the password of its Trader *)
(* account, the support cases of its owner, the snapshots of its valuation,*)
(* the repair of its trading days and the customer record of its owner.  A *)
(* behaviour is one of one service; interleaving them would multiply the   *)
(* states and show nothing.                                                *)
(***************************************************************************)
EXTENDS Payment, CredentialVault, SupportDesk, SnapshotPipeline, TradingDays,
        CustomerIdentity, TLC

(* A closing deal and an opening one on one day, an opening on the next.   *)
DealsOfTwoDays ==
  {[number |-> 1, day |-> 1, opens |-> FALSE],
   [number |-> 2, day |-> 1, opens |-> TRUE],
   [number |-> 3, day |-> 2, opens |-> TRUE]}

(* The count is right to begin with, or it was missed and one deal is yet   *)
(* to come.                                                                *)
MissedCount ==
  Cardinality(Deals \ stored) = 1 /\ count.days = 0 /\ count.last = 0

VARIABLE service   \* the service a behaviour is about

servicesVars ==
  <<service, paymentVars, vaultVars, deskVars, snapshotVars, daysVars,
    identityVars>>

ServicesInit ==
  /\ service \in {"payment", "credential", "support", "snapshot", "days", "identity"}
  /\ PaymentInit
  /\ service # "payment" => payment.provider = CHOOSE p \in Providers : TRUE
  /\ VaultInit
  /\ DeskInit
  /\ SnapshotInit
  /\ DaysInit
  /\ CountFollowsRows \/ MissedCount
  /\ \A d, e \in Days : rows[d] = Untraced /\ rows[e] = Untraced => d = e
  /\ service = "days" <=> stored # {}   \* a past to repair
  /\ service # "days" => rows = [d \in Days |-> Missing]
  /\ IdentityInit
  /\ address = CHOOSE a \in Addresses : TRUE   \* the addresses are alike
  /\ service # "identity" => \A g \in Goods : goods[g].email = NoAddress

ServicesNext ==
  /\ UNCHANGED service
  /\ \/ /\ service = "payment"
        /\ PaymentNext
        /\ UNCHANGED <<vaultVars, deskVars, snapshotVars, daysVars, identityVars>>
     \/ /\ service = "credential"
        /\ VaultNext
        /\ UNCHANGED <<paymentVars, deskVars, snapshotVars, daysVars, identityVars>>
     \/ /\ service = "support"
        /\ DeskNext
        /\ UNCHANGED <<paymentVars, vaultVars, snapshotVars, daysVars, identityVars>>
     \/ /\ service = "snapshot"
        /\ SnapshotNext
        /\ UNCHANGED <<paymentVars, vaultVars, deskVars, daysVars, identityVars>>
     \/ /\ service = "days"
        /\ DaysNext
        /\ UNCHANGED <<paymentVars, vaultVars, deskVars, snapshotVars, identityVars>>
     \/ /\ service = "identity"
        /\ IdentityNext
        /\ UNCHANGED <<paymentVars, vaultVars, deskVars, snapshotVars, daysVars>>

(* Before its first step nothing of the payment service is enabled that    *)
(* fairness speaks of: the other services are not asked for its steps.     *)
ServicesSpec == ServicesInit /\ [][ServicesNext]_servicesVars /\ PaymentFairness

(* Each service keeps its state within its type.                           *)
ServicesTypeOK ==
  /\ PaymentTypeOK /\ VaultTypeOK /\ DeskTypeOK
  /\ SnapshotTypeOK /\ DaysTypeOK /\ IdentityTypeOK
=============================================================================
