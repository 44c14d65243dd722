------------------------------ MODULE Payment ------------------------------
(***************************************************************************)
(* One challenge payment, from the order at the provider to the mail that  *)
(* hands over the account.  HTTP calls (callers) create the payment, take  *)
(* the provider's callbacks and save what they read and computed; workers  *)
(* take the activation and mail jobs of pg-boss, claim the payment with a  *)
(* conditional update and write the outcome.  Sweeps requeue what was left *)
(* behind, crashes lose what a process held.                               *)
(*                                                                         *)
(* Abstracted: the amounts, quotes, signatures and references a callback   *)
(* is rejected for (such a callback never comes); the account a worker     *)
(* provisions is a BOOLEAN here; a claim is stale or not instead of having *)
(* a time; equal jobs beyond MaxJobs are one; retries are not exhausted.   *)
(***************************************************************************)
EXTENDS Naturals, FiniteSetsExt

CONSTANTS
  None,
  Providers,   \* a subset of {"nowpayments", "rupex", "sunpay"}
  Callers,     \* HTTP calls in flight together
  Workers,     \* jobs worked on together
  MaxJobs,     \* bound on the equal jobs of one queue
  MaxFaults    \* bound on crashes, failed work, overrun claims and overrides

ASSUME PaymentAssumption ==
  /\ Providers \subseteq {"nowpayments", "rupex", "sunpay"}
  /\ IsFiniteSet(Workers)
  /\ MaxJobs \in Nat \ {0}
  /\ MaxFaults \in Nat

VARIABLES
  payment,    \* the Payment document
  order,      \* the status of the order at the provider
  reports,    \* the statuses the provider has reported and may report again
  stale,      \* whether the claim on the activation, on the mail, is stale
  queued,     \* jobs in the activation queue, in the mail queue
  caller,     \* HTTP calls in flight
  worker,     \* the step each worker is at
  sent,       \* activation mails accepted by the mail service (history)
  mishaps     \* faults so far, by kind (history)

paymentVars ==
  <<payment, order, reports, stale, queued, caller, worker, sent, mishaps>>

PaymentStatus ==
  {"CREATED", "WAITING", "CONFIRMING", "PAID", "FAILED", "EXPIRED",
   "UNDERPAID", "REFUNDED"}

PaymentDoc ==
  [status     : PaymentStatus \cup {None},
   provider   : Providers,
   activation : {"NOT_STARTED", "PENDING", "ACTIVE", "FAILED"},
   account    : BOOLEAN,
   email      : {"NOT_SENT", "PENDING", "SENT", "FAILED"}]

(* The provider's words for a status, and what each is taken to mean.      *)
NowPaymentsStatus ==
  [waiting |-> "WAITING", confirming |-> "CONFIRMING", confirmed |-> "PAID",
   finished |-> "PAID", failed |-> "FAILED", expired |-> "EXPIRED",
   partially_paid |-> "UNDERPAID", refunded |-> "REFUNDED"]

RupexStatus ==
  [PENDING |-> "WAITING", APPROVED |-> "CONFIRMING", SUCCESS |-> "PAID",
   REJECTED |-> "REFUNDED"]

SunpayStatus ==
  [pending |-> "WAITING", processing |-> "CONFIRMING", success |-> "PAID",
   failed |-> "FAILED", expired |-> "EXPIRED"]

(* Faulty: the word of the provider is stored as it comes.                 *)
Verbatim(provider, word) == word

(* Faulty: an underpaid invoice counts as paid.                            *)
ShortIsPaid(provider, word) ==
  IF word = "partially_paid" THEN "PAID"
  ELSE CASE provider = "nowpayments" -> NowPaymentsStatus[word]
         [] provider = "rupex" -> RupexStatus[word]
         [] provider = "sunpay" -> SunpayStatus[word]

RequestedStatus(provider, word) ==
  CASE provider = "nowpayments" -> NowPaymentsStatus[word]
    [] provider = "rupex" -> RupexStatus[word]
    [] provider = "sunpay" -> SunpayStatus[word]

(* What the provider may report after a word: an order goes on to be paid, *)
(* refused or refunded, a late or completing transfer still arrives.       *)
Follows ==
  [nowpayments |->
     {<<"waiting", "confirming">>, <<"waiting", "expired">>,
      <<"confirming", "confirmed">>, <<"confirming", "partially_paid">>,
      <<"confirming", "failed">>, <<"confirmed", "finished">>,
      <<"expired", "confirming">>, <<"partially_paid", "finished">>,
      <<"finished", "refunded">>},
   rupex |->
     {<<"PENDING", "APPROVED">>, <<"PENDING", "SUCCESS">>,
      <<"APPROVED", "SUCCESS">>, <<"APPROVED", "REJECTED">>},
   sunpay |->
     {<<"pending", "processing">>, <<"pending", "expired">>,
      <<"processing", "success">>, <<"processing", "failed">>}]

FirstWord == [nowpayments |-> "waiting", rupex |-> "PENDING", sunpay |-> "pending"]
Words == {"waiting", "confirming", "confirmed", "finished", "failed", "expired",
          "partially_paid", "refunded", "PENDING", "APPROVED", "SUCCESS",
          "REJECTED", "pending", "processing", "success"}
PaidWords == {"confirmed", "finished", "SUCCESS", "success"}

Caller ==
  [at : {"idle", "order", "fetch", "save", "enqueue", "retry"},
   read : PaymentStatus \cup {None},   \* the status as loaded
   word : Words \cup {None}]           \* what the provider says

WorkerStep == {"idle", "claim", "activate", "notify", "mail", "record"}
Mishaps == {"overrun", "forced", "mail", "other"}

ASSUME NoneIsNoPaymentData == None \notin PaymentStatus /\ None \notin Words

PaymentTypeOK ==
  /\ payment \in PaymentDoc
  /\ order \in Words \cup {None}
  /\ reports \subseteq Words
  /\ stale \in [activation : BOOLEAN, mail : BOOLEAN]
  /\ queued \in [activation : 0..MaxJobs, mail : 0..MaxJobs]
  /\ caller \in [Callers -> Caller]
  /\ worker \in [Workers -> WorkerStep]
  /\ sent \in Nat
  /\ mishaps \in [Mishaps -> 0..MaxFaults]

NoCall == [at |-> "idle", read |-> None, word |-> None]

PaymentInit ==
  /\ \E p \in Providers :
       payment = [status |-> None, provider |-> p, activation |-> "NOT_STARTED",
                  account |-> FALSE, email |-> "NOT_SENT"]
  /\ order = None
  /\ reports = {}
  /\ stale = [activation |-> FALSE, mail |-> FALSE]
  /\ queued = [activation |-> 0, mail |-> 0]
  /\ caller = [c \in Callers |-> NoCall]
  /\ worker = [w \in Workers |-> "idle"]
  /\ sent = 0
  /\ mishaps = [k \in Mishaps |-> 0]

Mishap(kind) ==
  /\ MapThenSumSet(LAMBDA k : mishaps[k], Mishaps) < MaxFaults
  /\ mishaps' = [mishaps EXCEPT ![kind] = @ + 1]

Add(queue) == queued' = [queued EXCEPT ![queue] = Min({@ + 1, MaxJobs})]
Take(queue) == queued[queue] > 0 /\ queued' = [queued EXCEPT ![queue] = @ - 1]

CallAt(c, step) == caller[c].at = step
CallGo(c, step) == caller' = [caller EXCEPT ![c].at = step]
CallEnds(c) == caller' = [caller EXCEPT ![c] = NoCall]
WorkAt(w, step) == worker[w] = step
WorkGo(w, step) == worker' = [worker EXCEPT ![w] = step]

jobState == <<stale, queued, worker, sent>>
providerState == <<order, reports>>

-----------------------------------------------------------------------------
(* Callers.                                                                *)

CreatePayment(c) ==
  /\ CallAt(c, "idle")
  /\ payment.status = None
  /\ payment' = [payment EXCEPT !.status = "CREATED"]
  /\ CallGo(c, "order")
  /\ UNCHANGED <<providerState, jobState, mishaps>>

(* The customer gets the way to pay only after the save: nothing is paid   *)
(* between the answer of the provider and the save.                        *)
PlaceOrder(c) ==
  /\ CallAt(c, "order")
  /\ order' = FirstWord[payment.provider]
  /\ reports' = {order'}
  /\ payment' = [payment EXCEPT !.status = "WAITING"]
  /\ CallEnds(c)
  /\ UNCHANGED <<jobState, mishaps>>

(* An error; when it was the answer that got lost, the order exists.       *)
OrderFails(c) ==
  /\ CallAt(c, "order")
  /\ \/ UNCHANGED providerState
     \/ order' = FirstWord[payment.provider] /\ reports' = {order'}
  /\ payment' = [payment EXCEPT !.status = "FAILED"]
  /\ CallEnds(c)
  /\ UNCHANGED <<jobState, mishaps>>

Final == {"PAID", "REFUNDED"}

(* A callback that carries the status: NOWPayments' and Sunpay's.          *)
Callback(c) ==
  /\ CallAt(c, "idle")
  /\ payment.provider # "rupex"
  /\ payment.provider = "sunpay" => payment.status \notin Final
  /\ \E word \in reports :
       caller' = [caller EXCEPT ![c] =
         [at |-> "save", read |-> payment.status, word |-> word]]
  /\ UNCHANGED <<payment, providerState, jobState, mishaps>>

(* Rupex' callback and the customer's status page ask Rupex.               *)
Refresh(c) ==
  /\ CallAt(c, "idle")
  /\ payment.provider = "rupex"
  /\ order # None
  /\ payment.status \notin Final
  /\ caller' = [caller EXCEPT ![c] =
       [at |-> "fetch", read |-> payment.status, word |-> None]]
  /\ UNCHANGED <<payment, providerState, jobState, mishaps>>

GetOrderStatus(c) ==
  /\ CallAt(c, "fetch")
  /\ caller' = [caller EXCEPT ![c].at = "save", ![c].word = order]
  /\ UNCHANGED <<payment, providerState, jobState, mishaps>>

Progress == [CREATED |-> 0, WAITING |-> 1, CONFIRMING |-> 2]
Pending == DOMAIN Progress

NextPaymentStatus(current, next) ==
  LET settled == \/ current = "REFUNDED"
                 \/ current = "PAID" /\ next # "REFUNDED"
      backwards == \/ /\ {current, next} \subseteq Pending
                      /\ Progress[next] < Progress[current]
                   \/ /\ current \in {"FAILED", "EXPIRED", "UNDERPAID"}
                      /\ next \in Pending
  IN IF settled \/ backwards THEN current ELSE next

(* save() writes the status only when it differs from the one loaded.      *)
SaveStatus(c) ==
  LET read == caller[c].read
      next == NextPaymentStatus(read,
                RequestedStatus(payment.provider, caller[c].word))
  IN /\ CallAt(c, "save")
     /\ payment' = IF next = read THEN payment
                   ELSE [payment EXCEPT !.status = next]
     /\ IF read # "PAID" /\ next = "PAID" THEN CallGo(c, "enqueue")
        ELSE CallEnds(c)
     /\ UNCHANGED <<providerState, jobState, mishaps>>

EnqueuePaymentActivation(c) ==
  /\ CallAt(c, "enqueue")
  /\ Add("activation")
  /\ CallEnds(c)
  /\ UNCHANGED <<payment, providerState, stale, worker, sent, mishaps>>

(* What the claim, the sweep and an admin's retry agree to be open.        *)
Claimable ==
  /\ ~payment.account
  /\ \/ payment.activation \in {"NOT_STARTED", "FAILED"}
     \/ payment.activation = "PENDING" /\ stale.activation

RetryActivation(c) ==
  /\ CallAt(c, "idle")
  /\ payment.status = "PAID"
  /\ Claimable
  /\ CallGo(c, "retry")
  /\ UNCHANGED <<payment, providerState, jobState, mishaps>>

(* The admin's write has no condition: a worker may hold the claim by now, *)
(* or have finished.                                                       *)
ForceFailed(c) ==
  /\ CallAt(c, "retry")
  /\ payment' = [payment EXCEPT !.activation = "FAILED"]
  /\ IF Claimable THEN UNCHANGED mishaps ELSE Mishap("forced")
  /\ CallGo(c, "enqueue")
  /\ UNCHANGED <<providerState, jobState>>

CallCrashes(c) ==
  /\ ~CallAt(c, "idle")
  /\ Mishap("other")
  /\ CallEnds(c)
  /\ UNCHANGED <<payment, providerState, jobState>>

-----------------------------------------------------------------------------
(* Workers.                                                                *)

(* handle(): what the job finds decides whether it activates, only mails,  *)
(* or is done.                                                             *)
TakeActivationJob(w) ==
  /\ WorkAt(w, "idle")
  /\ Take("activation")
  /\ \/ /\ payment.status # "PAID"
        /\ UNCHANGED <<payment, worker>>
     \/ /\ payment.status = "PAID"
        /\ payment.account
        /\ payment' = [payment EXCEPT !.activation = "ACTIVE"]
        /\ IF payment.activation = "ACTIVE" /\ payment.email = "SENT"
           THEN UNCHANGED worker ELSE WorkGo(w, "notify")
     \/ /\ payment.status = "PAID"
        /\ ~payment.account
        /\ WorkGo(w, "claim")
        /\ UNCHANGED payment
  /\ UNCHANGED <<providerState, stale, caller, sent, mishaps>>

(* Faulty: a pending claim is open whether it is stale or not.             *)
ClaimsPending(w) ==
  /\ WorkAt(w, "claim")
  /\ ~payment.account
  /\ payment.activation # "ACTIVE"
  /\ payment' = [payment EXCEPT !.activation = "PENDING"]
  /\ stale' = [stale EXCEPT !.activation = FALSE]
  /\ WorkGo(w, "activate")
  /\ UNCHANGED <<providerState, queued, caller, sent, mishaps>>

ClaimActivation(w) ==
  /\ WorkAt(w, "claim")
  /\ Claimable
  /\ payment' = [payment EXCEPT !.activation = "PENDING"]
  /\ stale' = [stale EXCEPT !.activation = FALSE]
  /\ WorkGo(w, "activate")
  /\ UNCHANGED <<providerState, queued, caller, sent, mishaps>>

(* PAYMENT_ACTIVATION_BUSY returns the job to the queue.                   *)
ClaimRefused(w) ==
  /\ WorkAt(w, "claim")
  /\ ~Claimable
  /\ IF payment.account
     THEN WorkGo(w, "notify") /\ UNCHANGED queued
     ELSE WorkGo(w, "idle") /\ Add("activation")
  /\ UNCHANGED <<payment, providerState, stale, caller, sent, mishaps>>

RecordActivation(w) ==
  /\ WorkAt(w, "activate")
  /\ payment' = [payment EXCEPT !.account = TRUE, !.activation = "ACTIVE"]
  /\ WorkGo(w, "notify")
  /\ UNCHANGED <<providerState, stale, queued, caller, sent, mishaps>>

(* The catch of activatePaidPayment, whoever holds the claim by now.       *)
ActivationFails(w) ==
  /\ WorkAt(w, "activate")
  /\ Mishap("other")
  /\ payment' = [payment EXCEPT !.activation = "FAILED"]
  /\ Add("activation")
  /\ WorkGo(w, "idle")
  /\ UNCHANGED <<providerState, stale, caller, sent>>

EnqueueMail(w) ==
  /\ WorkAt(w, "notify")
  /\ Add("mail")
  /\ WorkGo(w, "idle")
  /\ UNCHANGED <<payment, providerState, stale, caller, sent, mishaps>>

(* Faulty: the sweep looks for failed activations only.                    *)
RecoverFailed ==
  /\ payment.status = "PAID"
  /\ Claimable
  /\ payment.activation = "FAILED"
  /\ queued.activation = 0
  /\ Add("activation")
  /\ UNCHANGED <<payment, providerState, stale, caller, worker, sent, mishaps>>

(* recoverOutstanding of the activation worker.                            *)
RecoverActivation ==
  /\ payment.status = "PAID"
  /\ Claimable
  /\ queued.activation = 0
  /\ Add("activation")
  /\ UNCHANGED <<payment, providerState, stale, caller, worker, sent, mishaps>>

(* Five minutes after the claim: its holder is gone, or is slow.           *)
ActivationStale ==
  /\ payment.activation = "PENDING"
  /\ ~stale.activation
  /\ stale' = [stale EXCEPT !.activation = TRUE]
  /\ IF \E w \in Workers : WorkAt(w, "activate")
     THEN Mishap("overrun") ELSE UNCHANGED mishaps
  /\ UNCHANGED <<payment, providerState, queued, caller, worker, sent>>

MailDue ==
  /\ payment.status = "PAID"
  /\ payment.account
  /\ payment.activation = "ACTIVE"
  /\ \/ payment.email \in {"NOT_SENT", "FAILED"}
     \/ payment.email = "PENDING" /\ stale.mail

(* Faulty: the mail job claims whatever the state of the mail.             *)
TakesAnyMail(w) ==
  /\ WorkAt(w, "idle")
  /\ Take("mail")
  /\ IF payment.status = "PAID" /\ payment.account /\ payment.activation = "ACTIVE"
     THEN /\ payment' = [payment EXCEPT !.email = "PENDING"]
          /\ stale' = [stale EXCEPT !.mail = FALSE]
          /\ WorkGo(w, "mail")
     ELSE UNCHANGED <<payment, stale, worker>>
  /\ UNCHANGED <<providerState, caller, sent, mishaps>>

TakeMailJob(w) ==
  /\ WorkAt(w, "idle")
  /\ Take("mail")
  /\ IF MailDue
     THEN /\ payment' = [payment EXCEPT !.email = "PENDING"]
          /\ stale' = [stale EXCEPT !.mail = FALSE]
          /\ WorkGo(w, "mail")
     ELSE UNCHANGED <<payment, stale, worker>>
  /\ UNCHANGED <<providerState, caller, sent, mishaps>>

SendMail(w) ==
  /\ WorkAt(w, "mail")
  /\ sent' = sent + 1
  /\ WorkGo(w, "record")
  /\ UNCHANGED <<payment, providerState, stale, queued, caller, mishaps>>

(* The mail service refuses, or accepts and its answer is lost.            *)
MailFails(w) ==
  /\ WorkAt(w, "mail")
  /\ Mishap("mail")
  /\ sent' \in {sent, sent + 1}
  /\ payment' = [payment EXCEPT !.email = "FAILED"]
  /\ Add("mail")
  /\ WorkGo(w, "idle")
  /\ UNCHANGED <<providerState, stale, caller>>

RecordMail(w) ==
  /\ WorkAt(w, "record")
  /\ payment' = [payment EXCEPT !.email = IF @ = "PENDING" THEN "SENT" ELSE @]
  /\ WorkGo(w, "idle")
  /\ UNCHANGED <<providerState, stale, queued, caller, sent, mishaps>>

RecoverMail ==
  /\ MailDue
  /\ queued.mail = 0
  /\ Add("mail")
  /\ UNCHANGED <<payment, providerState, stale, caller, worker, sent, mishaps>>

MailStale ==
  /\ payment.email = "PENDING"
  /\ ~stale.mail
  /\ stale' = [stale EXCEPT !.mail = TRUE]
  /\ IF \E w \in Workers : worker[w] \in {"mail", "record"}
     THEN Mishap("mail") ELSE UNCHANGED mishaps
  /\ UNCHANGED <<payment, providerState, queued, caller, worker, sent>>

(* pg-boss gives the job of a dead worker to another one.                  *)
WorkerCrashes(w) ==
  /\ ~WorkAt(w, "idle")
  /\ Mishap(IF WorkAt(w, "record") THEN "mail" ELSE "other")
  /\ Add(IF worker[w] \in {"mail", "record"} THEN "mail" ELSE "activation")
  /\ WorkGo(w, "idle")
  /\ UNCHANGED <<payment, providerState, stale, caller, sent>>

-----------------------------------------------------------------------------
(* The provider and the customer's money (external).                       *)

OrderAdvances ==
  /\ \E word \in Words :
       /\ <<order, word>> \in Follows[payment.provider]
       /\ order' = word
  /\ reports' = reports \cup {order'}
  /\ UNCHANGED <<payment, jobState, caller, mishaps>>

CallSteps(c) ==
  \/ PlaceOrder(c) \/ OrderFails(c) \/ GetOrderStatus(c) \/ SaveStatus(c)
  \/ EnqueuePaymentActivation(c) \/ ForceFailed(c)

WorkSteps(w) ==
  \/ ClaimActivation(w) \/ ClaimRefused(w)
  \/ RecordActivation(w) \/ ActivationFails(w) \/ EnqueueMail(w)
  \/ SendMail(w) \/ MailFails(w) \/ RecordMail(w)

Housekeeping ==
  RecoverActivation \/ ActivationStale \/ RecoverMail \/ MailStale

PaymentNext ==
  \/ \E c \in Callers :
       \/ CreatePayment(c) \/ Callback(c) \/ Refresh(c) \/ RetryActivation(c)
       \/ CallSteps(c) \/ CallCrashes(c)
  \/ \E w \in Workers :
       \/ TakeActivationJob(w) \/ TakeMailJob(w) \/ WorkSteps(w) \/ WorkerCrashes(w)
  \/ Housekeeping
  \/ OrderAdvances

(* Calls and jobs in hand go on, workers poll their queues, the sweeps run *)
(* every minute and time makes claims stale.  Callbacks, customers, admins *)
(* and faults come or not.                                                 *)
PaymentFairness ==
  /\ \A c \in Callers : WF_paymentVars(CallSteps(c))
  /\ \A w \in Workers : WF_paymentVars(WorkSteps(w))
  /\ WF_paymentVars(\E w \in Workers : TakeActivationJob(w))
  /\ WF_paymentVars(\E w \in Workers : TakeMailJob(w))
  /\ WF_paymentVars(RecoverActivation)
  /\ WF_paymentVars(ActivationStale)
  /\ WF_paymentVars(RecoverMail)
  /\ WF_paymentVars(MailStale)

PaymentSafetySpec == PaymentInit /\ [][PaymentNext]_paymentVars
PaymentSpec == PaymentSafetySpec /\ PaymentFairness

-----------------------------------------------------------------------------
(* Properties.                                                             *)

(* An account is handed over only for a payment the provider has reported  *)
(* as settled in full, whatever late, repeated or reordered callbacks did  *)
(* to the status in between.                                               *)
OnlyPaidIsActivated == payment.account => reports \cap PaidWords # {}

(* Two workers provision for one payment only after a claim was overrun or *)
(* an admin's retry was written over a running one: duplicate callbacks,   *)
(* sweeps and jobs never lead there.                                       *)
OneActivationAtATime ==
  Cardinality({w \in Workers : WorkAt(w, "activate")})
    <= 1 + mishaps["overrun"] + mishaps["forced"]

(* The customer gets one activation mail, and one more at most for each    *)
(* mail that failed, outlived its claim or was lost before its record.     *)
MailsCounted == sent <= 1 + mishaps["mail"]

Served ==
  payment.account /\ payment.activation = "ACTIVE" /\ payment.email = "SENT"

(* A paid payment ends with an active account and its mail, across the     *)
(* crash between the save and the enqueue, failed work and lost jobs,      *)
(* unless its status is changed or an admin's retry was written over a     *)
(* claim.                                                                  *)
PaidIsServed ==
  payment.status = "PAID" ~>
    (Served \/ payment.status # "PAID" \/ mishaps["forced"] > 0)

(* A payment once paid stays paid or is refunded.                          *)
PaidStaysPaid ==
  [][payment.status = "PAID" => payment'.status \in {"PAID", "REFUNDED"}]_paymentVars
=============================================================================
