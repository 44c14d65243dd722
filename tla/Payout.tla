------------------------------- MODULE Payout -------------------------------
(***************************************************************************)
(* The payouts of one master account: requests of the customer, actions of *)
(* the admins, execution at Sunpay and Sunpay's webhooks, all served by    *)
(* concurrent HTTP calls that read a payout, await something, and write    *)
(* with a condition on the status alone.                                   *)
(*                                                                         *)
(* A call is a record: the step it is at and what it has read.  Between    *)
(* two steps the other calls, trading, Sunpay and crashes take theirs.     *)
(*                                                                         *)
(* Abstracted: money is a small number and the profit share is one of      *)
(* them, so splits, quotes and currencies are not seen; trading goes on,   *)
(* so a call may read any share, and a lease is chosen as ended or not     *)
(* where it is read; the calendar of buildPayoutCycle is the number of the *)
(* cycle reached, 0 for none; an account that is not active, a wrong       *)
(* receipt or transfer reference is a call that never comes; read-only     *)
(* routes, the destination and the audit rows are left out.                *)
(***************************************************************************)
EXTENDS Naturals, FiniteSetsExt

CONSTANTS
  None,
  Payouts,         \* identifiers of payouts
  Keys,            \* idempotency keys the customer sends
  Calls,           \* HTTP calls that can be in flight together
  Entitlements,    \* profit shares trading can lead to
  LastCycle,       \* bound on the payout cycles
  OnDemand,        \* whether the account is paid on demand, not once a cycle
  AutomaticReady,  \* whether Sunpay execution is switched on
  MaxFaults        \* bound on crashes, lost answers and failed requests

ASSUME PayoutAssumption ==
  /\ IsFiniteSet(Payouts)
  /\ Entitlements \subseteq Nat
  /\ LastCycle \in Nat
  /\ OnDemand \in BOOLEAN
  /\ AutomaticReady \in BOOLEAN
  /\ MaxFaults \in Nat

VARIABLES
  payout,   \* PayoutRequest documents
  peak,     \* the largest profit share a call has read (history)
  cycle,    \* the payout cycle reached
  remote,   \* payouts at Sunpay
  notified, \* whether Sunpay's report of the final status was acknowledged
  event,    \* ProviderWebhookEvent documents, one provider event per payout
  calls,    \* calls in flight
  faults    \* faults so far

vars == <<payout, peak, cycle, remote, notified, event, calls, faults>>
account == <<peak, cycle>>
provider == <<remote, notified>>

ActiveStatuses == {"REQUESTED", "REVIEWING", "APPROVED", "PROCESSING", "SENT"}
FinalStatuses == {"PAID", "FAILED", "REJECTED", "CANCELLED"}
PayoutStatus == ActiveStatuses \cup FinalStatuses

Amounts == UNION {1..s : s \in Entitlements}

(* "manual" stands for every provider that is not Sunpay.                  *)
Providers == {None, "sunpay", "manual"}

PayoutDoc ==
  [status    : PayoutStatus \cup {None},
   amount    : Amounts \cup {None},
   cycle     : 0..LastCycle,
   activeKey : BOOLEAN,
   key       : Keys \cup {None},
   provider  : Providers,
   source    : {None, "ADMIN_VERIFIED", "PROVIDER_VERIFIED"}]

NoPayout ==
  [status |-> None, amount |-> None, cycle |-> 0, activeKey |-> FALSE,
   key |-> None, provider |-> None, source |-> None]

(* Sunpay's statuses; SHORT is a success that paid out less than the quote. *)
RemoteStatus == {"PENDING", "SUCCESS", "SHORT", "FAILED"}
RemoteFinal == RemoteStatus \ {"PENDING"}

EventStatus == {"RECEIVED", "PROCESSING", "PROCESSED", "FAILED"}

WebhookEvent ==
  [status : EventStatus \cup {None}, reported : RemoteStatus \cup {None}]

NoEvent == [status |-> None, reported |-> None]

Steps ==
  {"idle", "ledger", "insert", "approve", "apply", "execute", "submit",
   "submitted", "reconcile", "fetch", "settle", "requeue", "claim",
   "processed", "failed"}

Actions ==
  {"START_REVIEW", "APPROVE", "MARK_PROCESSING", "MARK_SENT", "MARK_PAID",
   "REJECT", "FAIL", "CANCEL"}

Call ==
  [at      : Steps,
   p       : Payouts \cup {None},
   key     : Keys \cup {None},
   share   : Entitlements \cup {0},       \* of the account as read
   amount  : Amounts \cup {None},          \* of the payout as read or requested
   cycle   : 0..LastCycle,
   remote  : RemoteStatus \cup {None},    \* Sunpay's answer or report
   requeue : BOOLEAN,                     \* decided from the event as read
   webhook : BOOLEAN]                     \* the call processes a webhook

Idle ==
  [at |-> "idle", p |-> None, key |-> None, share |-> 0,
   amount |-> None, cycle |-> 0,
   remote |-> None, requeue |-> FALSE, webhook |-> FALSE]

ASSUME NoneIsNoPayoutData ==
  /\ None \notin Payouts
  /\ None \notin Keys
  /\ None \notin Amounts
  /\ None \notin PayoutStatus
  /\ None \notin RemoteStatus
  /\ None \notin EventStatus
  /\ None \notin {"sunpay", "manual"}
  /\ None \notin {"ADMIN_VERIFIED", "PROVIDER_VERIFIED"}

PayoutTypeOK ==
  /\ payout \in [Payouts -> PayoutDoc]
  /\ peak \in Entitlements \cup {0}
  /\ cycle \in 0..LastCycle
  /\ remote \in [Payouts -> RemoteStatus \cup {None}]
  /\ notified \in [Payouts -> BOOLEAN]
  /\ event \in [Payouts -> WebhookEvent]
  /\ calls \in [Calls -> Call]
  /\ faults \in 0..MaxFaults

Init ==
  /\ payout = [p \in Payouts |-> NoPayout]
  /\ peak = 0
  /\ cycle = 0
  /\ remote = [p \in Payouts |-> None]
  /\ notified = [p \in Payouts |-> FALSE]
  /\ event = [p \in Payouts |-> NoEvent]
  /\ calls = [c \in Calls |-> Idle]
  /\ faults = 0

-----------------------------------------------------------------------------
(* Calls.                                                                  *)

At(c, step) == calls[c].at = step
Go(c, call) == calls' = [calls EXCEPT ![c] = call]
Move(c, step) == Go(c, [calls[c] EXCEPT !.at = step])
Return(c) == Go(c, Idle)

Fault ==
  /\ faults < MaxFaults
  /\ faults' = faults + 1

(* A webhook records how the reconciliation it called has ended.           *)
Succeed(c) == IF calls[c].webhook THEN Move(c, "processed") ELSE Return(c)
Fail(c) == IF calls[c].webhook THEN Move(c, "failed") ELSE Return(c)

Exists(p) == payout[p].status # None
With(status) == {p \in Payouts : payout[p].status \in status}
Total(S) == MapThenSumSet(LAMBDA p : payout[p].amount, S)

-----------------------------------------------------------------------------
(* The customer's requests.                                                *)

(* Trading goes on, so a call may read any profit share.                   *)
ReadShare(s) ==
  /\ s \in Entitlements
  /\ peak' = IF s > peak THEN s ELSE peak

(* No payout has the key yet; the account, which is active, is read.       *)
Request(c, k) ==
  /\ At(c, "idle")
  /\ \A p \in Payouts : payout[p].key # k
  /\ \E s \in Entitlements :
       /\ ReadShare(s)
       /\ Go(c, [Idle EXCEPT !.at = "ledger", !.key = k, !.share = s])
  /\ UNCHANGED <<payout, cycle, provider, event, faults>>

(* What summarizePayoutLedger leaves of the share to be requested.         *)
Reserved == With(ActiveStatuses)
PaidOut == With({"PAID"})
Available(share) ==
  LET spent == Total(PaidOut) + Total(Reserved)
  IN IF spent <= share THEN share - spent ELSE 0

MayRequest(share, now) ==
  /\ now > 0
  /\ Reserved = {}
  /\ OnDemand \/ \A p \in PaidOut : payout[p].cycle # now
  /\ Available(share) > 0

(* Between the reads time passes, and the calendar only goes forward.       *)
ReachableCycles == cycle..LastCycle

RequestableAmounts(share) == 1..Available(share)

(* The payouts are read, in the cycle that has been reached by then.       *)
ReadLedger(c) ==
  /\ At(c, "ledger")
  /\ \E now \in ReachableCycles :
       /\ cycle' = now
       /\ \/ /\ MayRequest(calls[c].share, now)
             /\ \E a \in RequestableAmounts(calls[c].share) :
                  Go(c, [Idle EXCEPT !.at = "insert", !.key = calls[c].key,
                                     !.amount = a, !.cycle = now])
          \/ ~MayRequest(calls[c].share, now) /\ Return(c)
  /\ UNCHANGED <<payout, peak, provider, event, faults>>

(* Faulty: the index on the active payout is missing.                      *)
UniqueKeyOnly(c) == \A p \in Payouts : payout[p].key # calls[c].key

(* The unique indexes on the account's active payout and on the key.       *)
Unique(c) ==
  \A p \in Payouts : ~payout[p].activeKey /\ payout[p].key # calls[c].key

(* A request that violates an index answers with the payout that has its   *)
(* key, or with a conflict.                                                *)
Insert(c) ==
  /\ At(c, "insert")
  /\ \/ /\ Unique(c)
        /\ \E p \in Payouts :
             /\ ~Exists(p)
             /\ payout' = [payout EXCEPT ![p] =
                             [NoPayout EXCEPT !.status = "REQUESTED",
                                              !.amount = calls[c].amount,
                                              !.cycle = calls[c].cycle,
                                              !.activeKey = TRUE,
                                              !.key = calls[c].key]]
     \/ ~Unique(c) /\ UNCHANGED payout
  /\ Return(c)
  /\ UNCHANGED <<account, provider, event, faults>>

-----------------------------------------------------------------------------
(* The admins' actions.                                                    *)

From(action) ==
  CASE action \in {"REJECT", "CANCEL", "APPROVE"} -> {"REQUESTED", "REVIEWING"}
    [] action = "START_REVIEW"    -> {"REQUESTED"}
    [] action = "MARK_PROCESSING" -> {"APPROVED"}
    [] action = "MARK_SENT"       -> {"PROCESSING"}
    [] action = "MARK_PAID"       -> {"SENT"}
    [] action = "FAIL"            -> {"APPROVED", "PROCESSING", "SENT"}

To(action) ==
  CASE action = "START_REVIEW"    -> "REVIEWING"
    [] action = "APPROVE"         -> "APPROVED"
    [] action = "MARK_PROCESSING" -> "PROCESSING"
    [] action = "MARK_SENT"       -> "SENT"
    [] action = "MARK_PAID"       -> "PAID"
    [] action = "REJECT"          -> "REJECTED"
    [] action = "FAIL"            -> "FAILED"
    [] action = "CANCEL"          -> "CANCELLED"

Terminal(action) == To(action) \in FinalStatuses

(* What the action sets; the input of any action may name the provider.    *)
(* Sending needs a transfer reference and paying an exact verified         *)
(* receipt, which are the admin's to give.                                 *)
Applied(doc, action, named) ==
  [doc EXCEPT
     !.status = To(action),
     !.activeKey = IF Terminal(action) THEN FALSE ELSE @,
     !.provider = IF named # None THEN named ELSE @,
     !.source = IF action = "MARK_PAID" THEN "ADMIN_VERIFIED" ELSE @]

(* The payout is read, checked, and updated where its status is still one  *)
(* the action starts from: one step, as nothing else that was read is used.*)
Act(p, action) ==
  /\ action # "APPROVE"
  /\ payout[p].status \in From(action)
  /\ \E named \in Providers :
       payout' = [payout EXCEPT ![p] = Applied(@, action, named)]
  /\ UNCHANGED <<account, provider, event, calls, faults>>

(* Automatic execution is implemented, configured and declared ready.      *)
MayExecute == AutomaticReady

(* An approval reads the payout and the account, then what was paid, and   *)
(* then writes.                                                            *)
StartApproval(c, p) ==
  /\ At(c, "idle")
  /\ payout[p].status \in From("APPROVE")
  /\ \E s \in Entitlements :
       /\ ReadShare(s)
       /\ Go(c, [Idle EXCEPT !.at = "approve", !.p = p, !.share = s,
                             !.amount = payout[p].amount])
  /\ UNCHANGED <<payout, cycle, provider, event, faults>>

(* Faulty: what was paid before is forgotten.                              *)
CoveredAlone(c) == calls[c].amount <= calls[c].share

Covered(c) == Total(PaidOut) + calls[c].amount <= calls[c].share

ReadPaid(c) ==
  /\ At(c, "approve")
  /\ \/ Covered(c) /\ Go(c, [Idle EXCEPT !.at = "apply", !.p = calls[c].p])
     \/ ~Covered(c) /\ Return(c)
  /\ UNCHANGED <<payout, account, provider, event, faults>>

Approve(c) ==
  /\ At(c, "apply")
  /\ LET p == calls[c].p
         holds == payout[p].status \in From("APPROVE")
     IN \/ /\ holds
           /\ \E named \in Providers :
                payout' = [payout EXCEPT ![p] = Applied(@, "APPROVE", named)]
           /\ IF MayExecute
              THEN Go(c, [Idle EXCEPT !.at = "execute", !.p = p])
              ELSE Return(c)
        \/ ~holds /\ Return(c) /\ UNCHANGED payout
  /\ UNCHANGED <<account, provider, event, faults>>

-----------------------------------------------------------------------------
(* Execution at Sunpay.                                                    *)

(* By what a call that executes reads: reconcile, submit, or nothing.      *)
Execution(c, p, doc) ==
  CASE doc.status \in {"PROCESSING", "SENT"} /\ doc.provider = "sunpay" ->
         Go(c, [Idle EXCEPT !.at = "reconcile", !.p = p])
    [] doc.status = "APPROVED" -> Go(c, [Idle EXCEPT !.at = "submit", !.p = p])
    [] OTHER -> Return(c)

Execute(c) ==
  /\ At(c, "execute")
  /\ Execution(c, calls[c].p, payout[calls[c].p])
  /\ UNCHANGED <<payout, account, provider, event, faults>>

(* The admins' route that retries an execution.                            *)
RetryExecution(c, p) ==
  /\ At(c, "idle")
  /\ MayExecute
  /\ payout[p].status \in {"APPROVED", "PROCESSING", "SENT"}
  /\ Execution(c, p, payout[p])
  /\ UNCHANGED <<payout, account, provider, event, faults>>

AtSunpay(doc) == [doc EXCEPT !.provider = "sunpay"]

(* The failed attempt is noted on a payout that is still approved.         *)
NoteFailure(c) ==
  /\ payout' = [payout EXCEPT ![calls[c].p] =
                  IF @.status = "APPROVED" THEN AtSunpay(@) ELSE @]
  /\ Return(c)

(* Sunpay refuses an id it has.                                            *)
CreatedAtSunpay(p) ==
  /\ remote[p] = None
  /\ remote' = [remote EXCEPT ![p] = "PENDING"]

(* The payout is created, or created without an answer, or refused, as it  *)
(* is for want of balance.                                                 *)
Submit(c) ==
  /\ At(c, "submit")
  /\ \/ CreatedAtSunpay(calls[c].p) /\ Move(c, "submitted") /\ UNCHANGED <<payout, faults>>
     \/ CreatedAtSunpay(calls[c].p) /\ Fault /\ NoteFailure(c)
     \/ NoteFailure(c) /\ UNCHANGED <<remote, faults>>
  /\ UNCHANGED <<account, notified, event>>

Submitted(c) ==
  /\ At(c, "submitted")
  /\ LET p == calls[c].p IN
     \/ /\ payout[p].status = "APPROVED"
        /\ payout' = [payout EXCEPT ![p] =
                        [AtSunpay(@) EXCEPT !.status = "PROCESSING"]]
        /\ Move(c, "reconcile")
     \/ /\ payout[p].status # "APPROVED"
        /\ Return(c)
        /\ UNCHANGED payout
  /\ UNCHANGED <<account, provider, event, faults>>

-----------------------------------------------------------------------------
(* Reconciliation with Sunpay's status of the payout.                      *)

StartReconciliation(c) ==
  /\ At(c, "reconcile")
  /\ LET doc == payout[calls[c].p] IN
     \/ doc.status \in FinalStatuses /\ Succeed(c)
     \/ doc.status \in ActiveStatuses /\ doc.provider = "manual" /\ Fail(c)
     \/ doc.status \in ActiveStatuses /\ doc.provider # "manual" /\ Move(c, "fetch")
  /\ UNCHANGED <<payout, account, provider, event, faults>>

(* The admins' route that verifies a payout's status.                      *)
VerifyStatus(c, p) ==
  /\ At(c, "idle")
  /\ payout[p].status \in ActiveStatuses
  /\ payout[p].provider # "manual"
  /\ Go(c, [Idle EXCEPT !.at = "fetch", !.p = p])
  /\ UNCHANGED <<payout, account, provider, event, faults>>

(* The customer's page verifies a payout that is under way at Sunpay.      *)
OpenPage(c, p) ==
  /\ payout[p].provider = "sunpay"
  /\ payout[p].status \in {"PROCESSING", "SENT"}
  /\ VerifyStatus(c, p)

(* A failed request assigns the payout to Sunpay, whatever its status.     *)
FetchStatus(c) ==
  /\ At(c, "fetch")
  /\ LET p == calls[c].p IN
     \/ /\ remote[p] # None
        /\ Go(c, [calls[c] EXCEPT !.at = "settle", !.remote = remote[p]])
        /\ UNCHANGED <<payout, faults>>
     \/ /\ IF remote[p] = None THEN UNCHANGED faults ELSE Fault
        /\ payout' = [payout EXCEPT ![p] = AtSunpay(@)]
        /\ Fail(c)
  /\ UNCHANGED <<account, provider, event>>

(* Faulty: Sunpay's word for the status is saved as it is.                 *)
SettledVerbatim(doc, status) == [AtSunpay(doc) EXCEPT !.status = status]

(* Faulty: any success pays the payout.                                    *)
AnyReceipt(status) == status \in {"SUCCESS", "SHORT"}

(* Only a success that delivered the whole quoted amount pays the payout.  *)
ExactReceipt(status) == status = "SUCCESS"

Settled(doc, status) ==
  [AtSunpay(doc) EXCEPT
     !.status = CASE ExactReceipt(status) -> "PAID"
                  [] status = "FAILED"    -> "FAILED"
                  [] OTHER                -> "PROCESSING",
     !.activeKey = IF ExactReceipt(status) \/ status = "FAILED" THEN FALSE ELSE @,
     !.source = IF ExactReceipt(status) THEN "PROVIDER_VERIFIED" ELSE @]

(* Faulty: a payout whose submission was never confirmed is not settled.   *)
SettleConfirmed(doc) == doc.status \in {"PROCESSING", "SENT"}

(* Faulty: the answer is applied to whatever the payout has become.        *)
SettleAlways(doc) == TRUE

SettleHolds(doc) == doc.status \in {"APPROVED", "PROCESSING", "SENT"}

Settle(c) ==
  /\ At(c, "settle")
  /\ payout' = [payout EXCEPT ![calls[c].p] =
                  IF SettleHolds(@) THEN Settled(@, calls[c].remote) ELSE @]
  /\ Succeed(c)
  /\ UNCHANGED <<account, provider, event, faults>>

-----------------------------------------------------------------------------
(* Sunpay's webhooks.                                                      *)

(* The registration is answered with 200 and processed afterwards.         *)
Acknowledge(c, p, reported) ==
  /\ notified' = [notified EXCEPT ![p] = @ \/ reported \in RemoteFinal]
  /\ Go(c, [Idle EXCEPT !.at = "claim", !.p = p])
  /\ UNCHANGED remote

(* A lease of two minutes is on an event that is being processed; a call   *)
(* may come before or after its end.                                       *)
ShouldRequeue(before, reported, leaseEnded) ==
  \/ before.reported # reported
  \/ before.status = "FAILED"
  \/ before.status = "PROCESSING" /\ leaseEnded

(* A delivery reports the present status or, late, the pending one. The    *)
(* event is stored, or read if it is known.                                *)
Deliver(c, p, reported) ==
  /\ At(c, "idle")
  /\ remote[p] # None
  /\ reported \in {"PENDING", remote[p]}
  /\ \/ /\ event[p].status = None
        /\ event' = [event EXCEPT ![p] = [status |-> "RECEIVED", reported |-> reported]]
        /\ Acknowledge(c, p, reported)
     \/ /\ event[p].status # None
        /\ \E leaseEnded \in BOOLEAN :
             Go(c, [Idle EXCEPT !.at = "requeue", !.p = p, !.remote = reported,
                      !.requeue = ShouldRequeue(event[p], reported, leaseEnded)])
        /\ UNCHANGED <<event, provider>>
  /\ UNCHANGED <<payout, account, faults>>

RequeueEvent(c) ==
  /\ At(c, "requeue")
  /\ LET call == calls[c] IN
     /\ event' = [event EXCEPT ![call.p] =
                    [status   |-> IF call.requeue THEN "RECEIVED" ELSE @.status,
                     reported |-> call.remote]]
     /\ Acknowledge(c, call.p, call.remote)
  /\ UNCHANGED <<payout, account, faults>>

Claimable(status, leaseEnded) ==
  \/ status \in {"RECEIVED", "FAILED"}
  \/ status = "PROCESSING" /\ leaseEnded

Claim(c) ==
  /\ At(c, "claim")
  /\ \E leaseEnded \in BOOLEAN :
       LET p == calls[c].p
           claimed == Claimable(event[p].status, leaseEnded)
       IN /\ event' = IF claimed THEN [event EXCEPT ![p].status = "PROCESSING"] ELSE event
          /\ IF claimed
             THEN Go(c, [Idle EXCEPT !.at = "reconcile", !.p = p, !.webhook = TRUE])
             ELSE Return(c)
  /\ UNCHANGED <<payout, account, provider, faults>>

(* The end is recorded on an event that is being processed, by whomever.   *)
EndProcessing(c) ==
  /\ calls[c].at \in {"processed", "failed"}
  /\ LET end == IF At(c, "processed") THEN "PROCESSED" ELSE "FAILED" IN
     event' = [event EXCEPT ![calls[c].p] =
                 IF @.status = "PROCESSING" THEN [@ EXCEPT !.status = end] ELSE @]
  /\ Return(c)
  /\ UNCHANGED <<payout, account, provider, faults>>

-----------------------------------------------------------------------------
(* The world around the calls.                                             *)

SunpaySettles(p) ==
  /\ remote[p] = "PENDING"
  /\ \E s \in RemoteFinal : remote' = [remote EXCEPT ![p] = s]
  /\ UNCHANGED <<payout, account, notified, event, calls, faults>>

(* A call dies with the process that serves it.                            *)
Crash(c) ==
  /\ ~At(c, "idle")
  /\ Fault
  /\ Return(c)
  /\ UNCHANGED <<payout, account, provider, event>>

Proceed(c) ==
  \/ ReadLedger(c)
  \/ Insert(c)
  \/ ReadPaid(c)
  \/ Approve(c)
  \/ Execute(c)
  \/ Submit(c)
  \/ Submitted(c)
  \/ StartReconciliation(c)
  \/ FetchStatus(c)
  \/ Settle(c)
  \/ RequeueEvent(c)
  \/ Claim(c)
  \/ EndProcessing(c)

Arrive(c) ==
  \/ \E k \in Keys : Request(c, k)
  \/ \E p \in Payouts :
       \/ StartApproval(c, p)
       \/ RetryExecution(c, p)
       \/ VerifyStatus(c, p)
       \/ OpenPage(c, p)
       \/ \E r \in RemoteStatus : Deliver(c, p, r)

PayoutNext ==
  \/ \E c \in Calls : Arrive(c) \/ Proceed(c)
  \/ \E p \in Payouts, action \in Actions : Act(p, action)
  \/ \E p \in Payouts : SunpaySettles(p)
  \/ \E c \in Calls : Crash(c)

(* Calls are served to their end; Sunpay settles and repeats its report    *)
(* until it is acknowledged; the customer keeps opening the page.          *)
PayoutFairness ==
  /\ \A c \in Calls : WF_vars(Proceed(c))
  /\ \A p \in Payouts :
       /\ WF_vars(SunpaySettles(p))
       /\ SF_vars(\E c \in Calls :
                    ~notified[p] /\ remote[p] \in RemoteFinal /\ Deliver(c, p, remote[p]))
       /\ SF_vars(\E c \in Calls : OpenPage(c, p))

PayoutSafetySpec == Init /\ [][PayoutNext]_vars

PayoutSpec == PayoutSafetySpec /\ PayoutFairness

-----------------------------------------------------------------------------
(* Properties.                                                             *)

PhaseOf(status) ==
  CASE status = None -> "none"
    [] status \in {"REQUESTED", "REVIEWING"} -> "open"
    [] status \in {"APPROVED", "PROCESSING", "SENT"} -> "committed"
    [] status = "PAID" -> "paid"
    [] OTHER -> "void"

Ledger == INSTANCE PayoutLedger WITH
  phase  <- [p \in Payouts |-> PhaseOf(payout[p].status)],
  amount <- [p \in Payouts |-> payout[p].amount]

(* Requests, admin actions, executions and webhooks that race, crash and   *)
(* repeat add up to the ledger's promise: one live payout, committed only  *)
(* within the profit share, and ended once (payout.service,                *)
(* payoutAdmin.service, payoutExecution.service).                          *)
ImplementsLedger == Ledger!Spec

(* What is paid or on its way never exceeds the largest profit share the   *)
(* account has had, although a request may have been admitted from an old  *)
(* ledger (payoutAdmin.service.js, assertPayoutApprovalEligible).          *)
NeverOvercommitted ==
  Total(With({"APPROVED", "PROCESSING", "SENT", "PAID"})) <= peak

(* The reservation the unique index works on exists exactly while the      *)
(* payout is active: no writer of an end forgets to release it, and none   *)
(* that lost a race releases another's (payoutRequest.model.js).           *)
ReservedWhileActive ==
  \A p \in Payouts : payout[p].activeKey <=> payout[p].status \in ActiveStatuses

(* A payout recorded as paid on Sunpay's word has been paid there in full, *)
(* and only approved payouts were ever submitted (payoutExecution).        *)
SunpayWordIsTrue ==
  \A p \in Payouts :
    /\ payout[p].source = "PROVIDER_VERIFIED" =>
         payout[p].status = "PAID" /\ remote[p] = "SUCCESS"
    /\ remote[p] # None =>
         payout[p].status \in {"APPROVED", "PROCESSING", "SENT", "PAID", "FAILED"}

(* Sunpay's report was answered with 200 and then refused, as another      *)
(* provider was named; nobody repeats it for a payout still approved.      *)
ReportRefused(p) == payout[p].status = "APPROVED" /\ event[p].status = "FAILED"

(* A payout assigned to Sunpay and settled there reaches its end in the    *)
(* ledger, through the webhook or through the customer's page, although    *)
(* one answer is lost or one call dies, unless the admins name another     *)
(* provider or had named one when the report came                          *)
(* (processSunpayPayoutWebhook, getCustomerPayoutOverview).                *)
SettlementIsRecorded ==
  \A p \in Payouts :
    (remote[p] \in {"SUCCESS", "FAILED"} /\ payout[p].provider = "sunpay")
      ~> \/ payout[p].status \in FinalStatuses
         \/ payout[p].provider = "manual"
         \/ ReportRefused(p)
=============================================================================
