---------------------------- MODULE PaymentProofs ----------------------------
(* Proofs about Payment, for every value of its constants.                  *)
EXTENDS Payment, FiniteSums, FiniteSetTheorems, TLAPS

-----------------------------------------------------------------------------
(* The inductive invariant.                                                *)

WordsOf(provider) ==
  CASE provider = "nowpayments" -> DOMAIN NowPaymentsStatus
    [] provider = "rupex" -> DOMAIN RupexStatus
    [] provider = "sunpay" -> DOMAIN SunpayStatus

(* There is one order, placed by the call that made the payment.           *)
Ordering ==
  /\ payment.status = None =>
       order = None /\ reports = {} /\ \A c \in Callers : ~CallAt(c, "order")
  /\ \A c \in Callers : CallAt(c, "order") =>
       order = None /\ reports = {} /\ \A d \in Callers : CallAt(d, "order") => d = c

(* What the calls hold of the provider's words it has said.                *)
WordsReported ==
  /\ reports \subseteq WordsOf(payment.provider)
  /\ order # None => order \in reports
  /\ \A c \in Callers :
       /\ CallAt(c, "fetch") => order # None
       /\ CallAt(c, "save") => caller[c].word \in reports

(* A status, a claim and an account of a paid payment go back to a report. *)
Settled == reports \cap PaidWords # {}

PaidIsReported ==
  /\ payment.status = "PAID" \/ payment.account => Settled
  /\ \A w \in Workers : worker[w] \in {"claim", "activate"} => Settled

(* The claim is held by the workers that activate, or was taken from them. *)
Activating == {w \in Workers : WorkAt(w, "activate")}
ActivationOpen ==
  \/ payment.activation \in {"NOT_STARTED", "FAILED"}
  \/ payment.activation = "PENDING" /\ stale.activation
Taken == mishaps["overrun"] + mishaps["forced"]

ClaimsCounted ==
  /\ Cardinality(Activating) <= 1 + Taken
  /\ ActivationOpen => Cardinality(Activating) <= Taken

(* So is the mail; a pending mail nobody works on was lost on the way.     *)
Mailing == {w \in Workers : WorkAt(w, "mail")}
MailOpen ==
  \/ payment.email \in {"NOT_SENT", "FAILED"}
  \/ payment.email = "PENDING" /\ stale.mail

MailsAccounted ==
  /\ sent + Cardinality(Mailing) <= 1 + mishaps["mail"]
  /\ MailOpen => sent + Cardinality(Mailing) <= mishaps["mail"]
  /\ payment.email = "PENDING" /\ (\A w \in Workers : worker[w] \notin {"mail", "record"}) =>
       sent <= mishaps["mail"]

PaymentInv ==
  /\ PaymentTypeOK
  /\ Ordering
  /\ WordsReported
  /\ PaidIsReported
  /\ ClaimsCounted
  /\ MailsAccounted

-----------------------------------------------------------------------------
(* The helpers of the model.                                               *)

Queues == [activation : 0..MaxJobs, mail : 0..MaxJobs]

LEMMA SmallerIsMin ==
  ASSUME NEW a \in Nat, NEW b \in Nat
  PROVE  Min({a, b}) \in {a, b} /\ Min({a, b}) <= b
<1>1. \E x \in {a, b} : \A y \in {a, b} : x <= y
  OBVIOUS
<1> QED
  BY <1>1 DEF Min

LEMMA AddTyped ==
  ASSUME queued \in Queues, NEW queue \in {"activation", "mail"}, Add(queue)
  PROVE  queued' \in Queues
<1>1. queued[queue] \in 0..MaxJobs /\ MaxJobs \in Nat
  BY PaymentAssumption DEF Queues
<1>2. Min({queued[queue] + 1, MaxJobs}) \in 0..MaxJobs
  BY <1>1, SmallerIsMin
<1> QED
  BY <1>2 DEF Add, Queues

LEMMA TakeTyped ==
  ASSUME queued \in Queues, NEW queue \in {"activation", "mail"}, Take(queue)
  PROVE  queued' \in Queues
BY PaymentAssumption DEF Take, Queues

(* A mishap is counted under its kind, while there are fewer than bounded. *)
LEMMA MishapCounted ==
  ASSUME mishaps \in [Mishaps -> 0..MaxFaults], NEW kind \in Mishaps, Mishap(kind)
  PROVE  /\ mishaps' \in [Mishaps -> 0..MaxFaults]
         /\ mishaps'[kind] = mishaps[kind] + 1
         /\ \A k \in Mishaps \ {kind} : mishaps'[k] = mishaps[k]
<1>1. IsFiniteSet(Mishaps)
  <2>1. Mishaps = {"overrun"} \cup {"forced"} \cup {"mail"} \cup {"other"}
    BY DEF Mishaps
  <2>2. \A k : IsFiniteSet({k})
    BY FS_Singleton
  <2> QED
    BY <2>1, <2>2, FS_Union
<1>2. \A k \in Mishaps : mishaps[k] \in Nat
  BY PaymentAssumption
<1>3. MapThenSumSet(LAMBDA k : mishaps[k], Mishaps) = SumOf(mishaps, Mishaps)
  BY <1>1, ValuesSum DEF ValueSum
<1>4. SumOf(mishaps, Mishaps) \in Nat /\ mishaps[kind] <= SumOf(mishaps, Mishaps)
  BY <1>1, <1>2, SumType, SumBounds
<1>5. SumOf(mishaps, Mishaps) < MaxFaults
  BY <1>3 DEF Mishap
<1>6. mishaps[kind] + 1 \in 0..MaxFaults
  BY <1>2, <1>4, <1>5, PaymentAssumption
<1> QED
  BY <1>6 DEF Mishap

(* The statuses a callback can lead to.                                    *)
LEMMA StatusRequested ==
  ASSUME NEW provider \in Providers, NEW word \in WordsOf(provider)
  PROVE  /\ RequestedStatus(provider, word) \in PaymentStatus
         /\ RequestedStatus(provider, word) = "PAID" => word \in PaidWords
<1>1. provider \in {"nowpayments", "rupex", "sunpay"}
  BY PaymentAssumption
<1>2. CASE provider = "nowpayments"
  BY <1>2 DEF RequestedStatus, WordsOf, NowPaymentsStatus, PaymentStatus, PaidWords
<1>3. CASE provider = "rupex"
  BY <1>3 DEF RequestedStatus, WordsOf, RupexStatus, PaymentStatus, PaidWords
<1>4. CASE provider = "sunpay"
  BY <1>4 DEF RequestedStatus, WordsOf, SunpayStatus, PaymentStatus, PaidWords
<1> QED
  BY <1>1, <1>2, <1>3, <1>4

LEMMA ProviderWords ==
  ASSUME NEW provider \in Providers
  PROVE  /\ WordsOf(provider) \subseteq Words
         /\ FirstWord[provider] \in WordsOf(provider)
         /\ \A a, b \in Words : <<a, b>> \in Follows[provider] => b \in WordsOf(provider)
         /\ \A a, b : <<a, b>> \in Follows[provider] => a \in Words
<1>1. provider \in {"nowpayments", "rupex", "sunpay"}
  BY PaymentAssumption
<1>2. CASE provider = "nowpayments"
  BY <1>2 DEF WordsOf, NowPaymentsStatus, Words, FirstWord, Follows
<1>3. CASE provider = "rupex"
  BY <1>3 DEF WordsOf, RupexStatus, Words, FirstWord, Follows
<1>4. CASE provider = "sunpay"
  BY <1>4 DEF WordsOf, SunpayStatus, Words, FirstWord, Follows
<1> QED
  BY <1>1, <1>2, <1>3, <1>4

LEMMA NextStatusOneOf ==
  ASSUME NEW current, NEW next
  PROVE  NextPaymentStatus(current, next) \in {current, next}
BY DEF NextPaymentStatus

-----------------------------------------------------------------------------
(* The types.                                                              *)

LEMMA CallersTyped ==
  ASSUME PaymentInv, NEW c \in Callers,
         CreatePayment(c) \/ Callback(c) \/ Refresh(c) \/ RetryActivation(c)
           \/ CallSteps(c) \/ CallCrashes(c)
  PROVE  PaymentTypeOK'
<1> USE DEF PaymentTypeOK, PaymentDoc, Caller, CallGo, CallEnds, NoCall, providerState, jobState
<1>0. PaymentTypeOK
  BY DEF PaymentInv
<1>1. NoCall \in Caller
  OBVIOUS
<1>2. CASE CreatePayment(c)
  BY <1>0, <1>2 DEF CreatePayment, PaymentStatus
<1>3. CASE Callback(c)
  <2>1. PICK word \in reports : caller' = [caller EXCEPT ![c] =
          [at |-> "save", read |-> payment.status, word |-> word]]
    BY <1>3 DEF Callback
  <2>2. [at |-> "save", read |-> payment.status, word |-> word] \in Caller
    BY <1>0, <2>1
  <2> QED
    BY <1>0, <1>3, <2>1, <2>2 DEF Callback
<1>4. CASE Refresh(c)
  BY <1>0, <1>4 DEF Refresh
<1>5. CASE RetryActivation(c)
  BY <1>0, <1>5 DEF RetryActivation
<1>6. CASE PlaceOrder(c)
  <2>1. FirstWord[payment.provider] \in Words
    BY <1>0, ProviderWords
  <2> QED
    BY <1>0, <1>1, <1>6, <2>1 DEF PlaceOrder, PaymentStatus
<1>7. CASE OrderFails(c)
  <2>1. FirstWord[payment.provider] \in Words
    BY <1>0, ProviderWords
  <2> QED
    BY <1>0, <1>1, <1>7, <2>1 DEF OrderFails, PaymentStatus
<1>8. CASE GetOrderStatus(c)
  <2>1. [caller[c] EXCEPT !.at = "save", !.word = order] \in Caller
    BY <1>0
  <2>2. caller' = [caller EXCEPT ![c] = [caller[c] EXCEPT !.at = "save", !.word = order]]
    BY <1>0, <1>8 DEF GetOrderStatus
  <2> HIDE DEF Caller
  <2> QED
    BY <1>0, <1>8, <2>1, <2>2 DEF GetOrderStatus
<1>9. CASE SaveStatus(c)
  <2>1. CallAt(c, "save") /\ caller[c].word \in WordsOf(payment.provider)
    BY <1>9 DEF SaveStatus, PaymentInv, WordsReported
  <2>2. RequestedStatus(payment.provider, caller[c].word) \in PaymentStatus
    BY <1>0, <2>1, StatusRequested
  <2>3. payment' \in PaymentDoc
    BY <1>0, <1>9, <2>2, NextStatusOneOf DEF SaveStatus
  <2>4. caller' \in [Callers -> Caller]
    BY <1>0, <1>1, <1>9 DEF SaveStatus
  <2> HIDE DEF PaymentDoc, Caller
  <2> QED
    BY <1>0, <1>9, <2>3, <2>4 DEF SaveStatus
<1>10. CASE EnqueuePaymentActivation(c)
  <2>1. queued' \in Queues
    BY <1>0, <1>10, AddTyped DEF EnqueuePaymentActivation, Queues
  <2> QED
    BY <1>0, <1>1, <1>10, <2>1 DEF EnqueuePaymentActivation, Queues
<1>11. CASE ForceFailed(c)
  <2>1. mishaps' \in [Mishaps -> 0..MaxFaults]
    BY <1>0, <1>11, MishapCounted DEF ForceFailed, Mishaps
  <2> QED
    BY <1>0, <1>11, <2>1 DEF ForceFailed
<1>12. CASE CallCrashes(c)
  <2>1. mishaps' \in [Mishaps -> 0..MaxFaults]
    BY <1>0, <1>12, MishapCounted DEF CallCrashes, Mishaps
  <2> QED
    BY <1>0, <1>1, <1>12, <2>1 DEF CallCrashes
<1> QED
  BY <1>2, <1>3, <1>4, <1>5, <1>6, <1>7, <1>8, <1>9, <1>10, <1>11, <1>12 DEF CallSteps

LEMMA WorkersTyped ==
  ASSUME PaymentInv, NEW w \in Workers,
         TakeActivationJob(w) \/ TakeMailJob(w) \/ WorkSteps(w) \/ WorkerCrashes(w)
  PROVE  PaymentTypeOK'
<1> USE DEF PaymentTypeOK, PaymentDoc, WorkerStep, WorkGo, providerState
<1>0. PaymentTypeOK
  BY DEF PaymentInv
<1>1. \A queue \in {"activation", "mail"} : Add(queue) \/ Take(queue) => queued' \in Queues
  BY <1>0, AddTyped, TakeTyped DEF Queues
<1>2. \A kind \in Mishaps : Mishap(kind) => mishaps' \in [Mishaps -> 0..MaxFaults]
  BY <1>0, MishapCounted
<1>3. CASE TakeActivationJob(w)
  BY <1>0, <1>1, <1>3 DEF TakeActivationJob, Queues
<1>4. CASE TakeMailJob(w)
  <2>1. payment' \in PaymentDoc /\ stale' \in [activation : BOOLEAN, mail : BOOLEAN]
    <3>1. CASE MailDue
      <4>1. /\ payment' = [payment EXCEPT !.email = "PENDING"]
            /\ stale' = [stale EXCEPT !.mail = FALSE]
        BY <1>4, <3>1 DEF TakeMailJob
      <4>2. payment' \in PaymentDoc
        BY <1>0, <4>1
      <4>3. stale' \in [activation : BOOLEAN, mail : BOOLEAN]
        BY <1>0, <4>1
      <4> QED
        BY <4>2, <4>3
    <3>2. CASE ~MailDue
      BY <1>0, <1>4, <3>2 DEF TakeMailJob
    <3> QED
      BY <3>1, <3>2
  <2>2. worker' \in [Workers -> WorkerStep] /\ queued' \in Queues
    BY <1>0, <1>1, <1>4 DEF TakeMailJob
  <2> QED
    BY <1>0, <1>4, <2>1, <2>2 DEF TakeMailJob, Queues
<1>5. CASE ClaimActivation(w)
  BY <1>0, <1>5 DEF ClaimActivation
<1>6. CASE ClaimRefused(w)
  BY <1>0, <1>1, <1>6 DEF ClaimRefused, Queues
<1>7. CASE RecordActivation(w)
  BY <1>0, <1>7 DEF RecordActivation
<1>8. CASE ActivationFails(w)
  BY <1>0, <1>1, <1>2, <1>8 DEF ActivationFails, Queues, Mishaps
<1>9. CASE EnqueueMail(w)
  BY <1>0, <1>1, <1>9 DEF EnqueueMail, Queues
<1>10. CASE SendMail(w)
  BY <1>0, <1>10 DEF SendMail
<1>11. CASE MailFails(w)
  BY <1>0, <1>1, <1>2, <1>11 DEF MailFails, Queues, Mishaps
<1>12. CASE RecordMail(w)
  BY <1>0, <1>12 DEF RecordMail
<1>13. CASE WorkerCrashes(w)
  BY <1>0, <1>1, <1>2, <1>13 DEF WorkerCrashes, Queues, Mishaps
<1> QED
  BY <1>3, <1>4, <1>5, <1>6, <1>7, <1>8, <1>9, <1>10, <1>11, <1>12, <1>13 DEF WorkSteps

LEMMA HousekeepingTyped ==
  ASSUME PaymentInv, Housekeeping \/ OrderAdvances
  PROVE  PaymentTypeOK'
<1>0. PaymentTypeOK
  BY DEF PaymentInv
<1>1. CASE RecoverActivation \/ RecoverMail
  <2>1. queued' \in Queues
    BY <1>0, <1>1, AddTyped DEF RecoverActivation, RecoverMail, Queues, PaymentTypeOK
  <2> QED
    BY <1>0, <1>1, <2>1 DEF RecoverActivation, RecoverMail, Queues, PaymentTypeOK, providerState
<1>2. CASE ActivationStale \/ MailStale
  <2>1. mishaps' \in [Mishaps -> 0..MaxFaults]
    BY <1>0, <1>2, MishapCounted DEF ActivationStale, MailStale, Mishaps, PaymentTypeOK
  <2> QED
    BY <1>0, <1>2, <2>1 DEF ActivationStale, MailStale, PaymentTypeOK, providerState
<1>3. CASE OrderAdvances
  BY <1>0, <1>3 DEF OrderAdvances, PaymentTypeOK, jobState
<1> QED
  BY <1>1, <1>2, <1>3 DEF Housekeeping

-----------------------------------------------------------------------------
(* The provider's words.                                                   *)

Heard == Ordering /\ WordsReported /\ (payment.status = "PAID" => Settled)

(* A call that ends, or goes on to a step that needs no word.              *)
LEMMA CallKeepsWords ==
  ASSUME PaymentInv, NEW c \in Callers, UNCHANGED <<order, reports, payment>>,
         caller' \in [Callers -> Caller],
         \A d \in Callers \ {c} : caller'[d] = caller[d],
         caller'[c].at \in {"idle", "enqueue", "retry"}
           \/ (caller'[c].at = "fetch" /\ order # None)
           \/ (caller'[c].at = "save" /\ caller'[c].word \in reports)
  PROVE  Heard'
BY DEF PaymentInv, Ordering, WordsReported, PaidIsReported, Settled, Heard, CallAt

LEMMA CallersHear ==
  ASSUME PaymentInv, PaymentTypeOK', NEW c \in Callers,
         CreatePayment(c) \/ Callback(c) \/ Refresh(c) \/ RetryActivation(c)
           \/ CallSteps(c) \/ CallCrashes(c)
  PROVE  Heard'
<1>0. /\ caller \in [Callers -> Caller] /\ caller' \in [Callers -> Caller]
      /\ payment \in PaymentDoc
      /\ Ordering /\ WordsReported /\ (payment.status = "PAID" => Settled)
  BY DEF PaymentInv, PaymentTypeOK, PaidIsReported
<1>1. CASE CreatePayment(c)
  BY <1>0, <1>1, NoneIsNoPaymentData
  DEF CreatePayment, Heard, Ordering, WordsReported, Settled, CallAt, CallGo, providerState,
      PaymentDoc, PaymentStatus
<1>2. CASE Callback(c)
  <2>1. PICK word \in reports : caller' = [caller EXCEPT ![c] =
          [at |-> "save", read |-> payment.status, word |-> word]]
    BY <1>2 DEF Callback
  <2>2. caller'[c].at = "save" /\ caller'[c].word \in reports
    BY <1>0, <2>1
  <2> QED
    BY <1>0, <1>2, <2>1, <2>2, CallKeepsWords DEF Callback, providerState
<1>3. CASE Refresh(c)
  <2>1. caller'[c].at = "fetch" /\ order # None
    BY <1>0, <1>3 DEF Refresh
  <2> QED
    BY <1>0, <1>3, <2>1, CallKeepsWords DEF Refresh, providerState
<1>4. CASE RetryActivation(c)
  <2>1. caller'[c].at = "retry"
    BY <1>0, <1>4 DEF RetryActivation, CallGo, Caller
  <2> QED
    BY <1>0, <1>4, <2>1, CallKeepsWords DEF RetryActivation, CallGo, providerState
<1>5. ASSUME PlaceOrder(c) \/ OrderFails(c)
      PROVE  Heard'
  <2>1. /\ CallAt(c, "order") /\ order = None /\ reports = {}
        /\ \A d \in Callers : CallAt(d, "order") => d = c
    BY <1>0, <1>5 DEF PlaceOrder, OrderFails, Ordering
  <2>2. /\ UNCHANGED <<order, reports>>
           \/ (order' = FirstWord[payment.provider] /\ reports' = {order'})
        /\ payment' \in {[payment EXCEPT !.status = "WAITING"], [payment EXCEPT !.status = "FAILED"]}
        /\ caller' = [caller EXCEPT ![c] = NoCall]
    BY <1>5 DEF PlaceOrder, OrderFails, CallEnds, providerState
  <2>3. /\ payment'.status # None /\ payment'.status # "PAID"
        /\ payment'.provider = payment.provider
    BY <1>0, <2>2, NoneIsNoPaymentData DEF PaymentDoc, PaymentStatus
  <2>4. /\ caller'[c].at = "idle" /\ \A d \in Callers \ {c} : caller'[d] = caller[d]
        /\ \A d \in Callers : ~CallAt(d, "fetch") /\ ~CallAt(d, "save")
    BY <1>0, <2>1, <2>2 DEF NoCall, WordsReported
  <2>5. Ordering'
    BY <2>1, <2>3, <2>4 DEF Ordering, CallAt
  <2>6. WordsReported'
    <3>1. reports' \subseteq WordsOf(payment.provider)
      BY <1>0, <2>1, <2>2, ProviderWords DEF PaymentDoc
    <3>2. order' # None => order' \in reports'
      BY <2>1, <2>2
    <3> QED
      BY <2>3, <2>4, <3>1, <3>2 DEF WordsReported, CallAt
  <2> QED
    BY <2>3, <2>5, <2>6 DEF Heard
<1>6. CASE GetOrderStatus(c)
  <2>1. caller'[c].at = "save" /\ caller'[c].word = order
    BY <1>0, <1>6 DEF GetOrderStatus, Caller
  <2>2. order \in reports
    BY <1>0, <1>6 DEF GetOrderStatus, WordsReported
  <2>3. \A d \in Callers \ {c} : caller'[d] = caller[d]
    BY <1>0, <1>6 DEF GetOrderStatus
  <2> QED
    BY <1>0, <1>6, <2>1, <2>2, <2>3, CallKeepsWords DEF GetOrderStatus, providerState
<1>7. CASE SaveStatus(c)
  <2> DEFINE read == caller[c].read
             requested == RequestedStatus(payment.provider, caller[c].word)
             next == NextPaymentStatus(read, requested)
  <2>1. CallAt(c, "save") /\ caller[c].word \in reports /\ caller[c].word \in WordsOf(payment.provider)
    BY <1>0, <1>7 DEF SaveStatus, WordsReported
  <2>2. /\ requested \in PaymentStatus
        /\ requested = "PAID" => Settled
    <3>1. payment.provider \in Providers
      BY <1>0 DEF PaymentDoc
    <3> QED
      BY <2>1, <3>1, StatusRequested DEF Settled
  <2>3. next \in {read, requested}
    BY NextStatusOneOf
  <2>4. /\ payment' = IF next = read THEN payment ELSE [payment EXCEPT !.status = next]
        /\ CallGo(c, "enqueue") \/ CallEnds(c)
        /\ UNCHANGED <<order, reports>>
    BY <1>7 DEF SaveStatus, providerState
  <2>5. /\ \A d \in Callers \ {c} : caller'[d] = caller[d]
        /\ caller'[c].at \in {"idle", "enqueue"}
    BY <1>0, <2>4 DEF CallGo, CallEnds, NoCall, Caller
  <2> HIDE DEF next, requested, read
  <2>6. CASE next = read
    BY <1>0, <2>4, <2>5, <2>6, CallKeepsWords
  <2>7. CASE next # read
    <3>1. /\ payment'.status = next /\ payment'.provider = payment.provider
          /\ next # None /\ (next = "PAID" => Settled)
      BY <1>0, <2>2, <2>3, <2>4, <2>7, NoneIsNoPaymentData DEF PaymentDoc
    <3>2. Ordering'
      BY <1>0, <2>4, <2>5, <3>1 DEF Ordering, CallAt
    <3>3. WordsReported'
      BY <1>0, <2>4, <2>5, <3>1 DEF WordsReported, CallAt
    <3> QED
      BY <2>4, <3>1, <3>2, <3>3 DEF Heard, Settled
  <2> QED
    BY <2>6, <2>7
<1>8. CASE EnqueuePaymentActivation(c) \/ CallCrashes(c)
  <2>1. caller'[c].at = "idle" /\ \A d \in Callers \ {c} : caller'[d] = caller[d]
    BY <1>0, <1>8 DEF EnqueuePaymentActivation, CallCrashes, CallEnds, NoCall
  <2> QED
    BY <1>0, <1>8, <2>1, CallKeepsWords DEF EnqueuePaymentActivation, CallCrashes, providerState
<1>9. CASE ForceFailed(c)
  <2>1. /\ \A d \in Callers \ {c} : caller'[d] = caller[d]
        /\ caller'[c].at = "enqueue"
        /\ payment'.status = payment.status /\ payment'.provider = payment.provider
        /\ UNCHANGED <<order, reports>>
    BY <1>0, <1>9 DEF ForceFailed, CallGo, Caller, PaymentDoc, providerState
  <2> QED
    BY <1>0, <2>1 DEF Heard, Ordering, WordsReported, Settled, CallAt
<1> QED
  BY <1>1, <1>2, <1>3, <1>4, <1>5, <1>6, <1>7, <1>8, <1>9 DEF CallSteps

(* The workers and the sweeps leave the words and the status alone, and    *)
(* the workers claim what is paid.                                         *)
LEMMA WorkersHear ==
  ASSUME PaymentInv, NEW w \in Workers,
         TakeActivationJob(w) \/ TakeMailJob(w) \/ WorkSteps(w) \/ WorkerCrashes(w)
  PROVE  Heard' /\ PaidIsReported'
<1>0. /\ payment \in PaymentDoc /\ worker \in [Workers -> WorkerStep]
      /\ Ordering /\ WordsReported /\ PaidIsReported
  BY DEF PaymentInv, PaymentTypeOK
<1>1. UNCHANGED <<order, reports, caller>>
  BY DEF TakeActivationJob, TakeMailJob, WorkSteps, ClaimActivation, ClaimRefused,
     RecordActivation, ActivationFails, EnqueueMail, SendMail, MailFails, RecordMail,
     WorkerCrashes, providerState
<1>2. payment'.status = payment.status /\ payment'.provider = payment.provider
  <2>1. \/ payment' = payment
        \/ \E a, e : payment' = [payment EXCEPT !.activation = a]
                  \/ payment' = [payment EXCEPT !.email = e]
                  \/ payment' = [payment EXCEPT !.account = TRUE, !.activation = a]
    BY DEF TakeActivationJob, TakeMailJob, WorkSteps, ClaimActivation, ClaimRefused,
       RecordActivation, ActivationFails, EnqueueMail, SendMail, MailFails, RecordMail,
       WorkerCrashes
  <2> QED
    BY <1>0, <2>1 DEF PaymentDoc
<1>3. Heard'
  BY <1>0, <1>1, <1>2 DEF Heard, Ordering, WordsReported, PaidIsReported, Settled, CallAt
<1>4. /\ payment'.account => payment.account \/ worker[w] = "activate"
      /\ \A v \in Workers \ {w} : worker'[v] = worker[v]
      /\ worker'[w] \in {"claim", "activate"} =>
           worker[w] \in {"claim", "activate"} \/ payment.status = "PAID"
  <2> USE DEF WorkAt, WorkGo, PaymentDoc
  <2>1. CASE TakeActivationJob(w)
    BY <1>0, <2>1 DEF TakeActivationJob
  <2>2. CASE TakeMailJob(w)
    BY <1>0, <2>2 DEF TakeMailJob
  <2>3. CASE ClaimActivation(w)
    BY <1>0, <2>3 DEF ClaimActivation
  <2>4. CASE ClaimRefused(w)
    BY <1>0, <2>4 DEF ClaimRefused
  <2>5. CASE RecordActivation(w)
    BY <1>0, <2>5 DEF RecordActivation
  <2>6. CASE ActivationFails(w) \/ MailFails(w) \/ WorkerCrashes(w)
    BY <1>0, <2>6 DEF ActivationFails, MailFails, WorkerCrashes
  <2>7. CASE EnqueueMail(w) \/ SendMail(w) \/ RecordMail(w)
    BY <1>0, <2>7 DEF EnqueueMail, SendMail, RecordMail
  <2> QED
    BY <2>1, <2>2, <2>3, <2>4, <2>5, <2>6, <2>7 DEF WorkSteps
<1> QED
  BY <1>0, <1>1, <1>2, <1>3, <1>4 DEF PaidIsReported, Settled

LEMMA CallersPaid ==
  ASSUME PaymentInv, PaymentTypeOK', NEW c \in Callers,
         CreatePayment(c) \/ Callback(c) \/ Refresh(c) \/ RetryActivation(c)
           \/ CallSteps(c) \/ CallCrashes(c)
  PROVE  Heard' /\ PaidIsReported'
<1>1. Heard'
  BY CallersHear
<1>2. UNCHANGED worker /\ payment'.account = payment.account
  <2>1. UNCHANGED worker
    BY DEF CreatePayment, Callback, Refresh, RetryActivation, CallSteps, CallCrashes, PlaceOrder,
       OrderFails, GetOrderStatus, SaveStatus, EnqueuePaymentActivation, ForceFailed, jobState
  <2>2. payment' = payment \/ \E s : payment' = [payment EXCEPT !.status = s]
                                  \/ payment' = [payment EXCEPT !.activation = s]
    BY DEF CreatePayment, Callback, Refresh, RetryActivation, CallSteps, CallCrashes, PlaceOrder,
       OrderFails, GetOrderStatus, SaveStatus, EnqueuePaymentActivation, ForceFailed
  <2> QED
    BY <2>1, <2>2 DEF PaymentInv, PaymentTypeOK, PaymentDoc
<1>3. Settled => Settled'
  <2>1. ASSUME PlaceOrder(c) \/ OrderFails(c) PROVE ~Settled
    BY <2>1 DEF PlaceOrder, OrderFails, PaymentInv, Ordering, Settled
  <2>2. ASSUME ~(PlaceOrder(c) \/ OrderFails(c)) PROVE UNCHANGED reports
    BY <2>2 DEF CreatePayment, Callback, Refresh, RetryActivation, CallSteps, CallCrashes,
       GetOrderStatus, SaveStatus, EnqueuePaymentActivation, ForceFailed, providerState
  <2> QED
    BY <2>1, <2>2 DEF Settled
<1> QED
  BY <1>1, <1>2, <1>3 DEF Heard, PaidIsReported, PaymentInv

LEMMA HousekeepingHears ==
  ASSUME PaymentInv, Housekeeping \/ OrderAdvances
  PROVE  Heard' /\ PaidIsReported'
<1>0. payment \in PaymentDoc /\ Ordering /\ WordsReported /\ PaidIsReported
  BY DEF PaymentInv, PaymentTypeOK
<1>1. UNCHANGED <<payment, caller, worker>>
  BY DEF Housekeeping, RecoverActivation, ActivationStale, RecoverMail, MailStale,
     OrderAdvances, jobState
<1>2. CASE Housekeeping
  <2>1. UNCHANGED <<order, reports>>
    BY <1>2 DEF Housekeeping, RecoverActivation, ActivationStale, RecoverMail, MailStale,
       providerState
  <2> QED
    BY <1>0, <1>1, <2>1 DEF Heard, Ordering, WordsReported, PaidIsReported, Settled, CallAt
<1>3. CASE OrderAdvances
  <2>1. PICK word \in Words : /\ <<order, word>> \in Follows[payment.provider]
                              /\ order' = word /\ reports' = reports \cup {word}
    BY <1>3 DEF OrderAdvances
  <2>2. order \in Words /\ word \in WordsOf(payment.provider)
    <3>1. payment.provider \in Providers
      BY <1>0 DEF PaymentDoc
    <3>2. order \in Words
      BY <2>1, <3>1, ProviderWords
    <3> QED
      BY <2>1, <3>1, <3>2, ProviderWords
  <2>3. order # None
    BY <2>2, NoneIsNoPaymentData
  <2>4. Ordering'
    BY <1>0, <1>1, <2>3 DEF Ordering, CallAt
  <2>5. WordsReported'
    BY <1>0, <1>1, <2>1, <2>2, <2>3, NoneIsNoPaymentData DEF WordsReported, CallAt
  <2>6. Settled => Settled'
    BY <2>1 DEF Settled
  <2> QED
    BY <1>0, <1>1, <2>4, <2>5, <2>6 DEF Heard, PaidIsReported
<1> QED
  BY <1>2, <1>3

-----------------------------------------------------------------------------
(* The claims and the mails.                                               *)

(* How the workers at a step change in number as one goes to another.      *)
AtStep(step) == {w \in Workers : worker[w] = step}

LEMMA WorkersCounted ==
  ASSUME worker \in [Workers -> WorkerStep], NEW w \in Workers, NEW to \in WorkerStep,
         worker' = [worker EXCEPT ![w] = to], NEW step
  PROVE  /\ Cardinality(AtStep(step)) \in Nat /\ Cardinality(AtStep(step))' \in Nat
         /\ to # step /\ worker[w] = step => Cardinality(AtStep(step))' = Cardinality(AtStep(step)) - 1
         /\ to # step /\ worker[w] # step => Cardinality(AtStep(step))' = Cardinality(AtStep(step))
         /\ to = step /\ worker[w] # step => Cardinality(AtStep(step))' = Cardinality(AtStep(step)) + 1
<1> DEFINE S == AtStep(step)
<1>1. IsFiniteSet(S) /\ Cardinality(S) \in Nat
  BY PaymentAssumption, FS_Subset, FS_CardinalityType DEF AtStep
<1>2. AtStep(step)' = IF to = step THEN S \cup {w} ELSE S \ {w}
  BY DEF AtStep
<1>3. w \in S <=> worker[w] = step
  BY DEF AtStep
<1>4. IsFiniteSet(S \cup {w}) /\ IsFiniteSet(S \ {w})
  BY <1>1, FS_AddElement, FS_RemoveElement
<1>5. /\ Cardinality(S \cup {w}) = IF w \in S THEN Cardinality(S) ELSE Cardinality(S) + 1
      /\ Cardinality(S \ {w}) = IF w \in S THEN Cardinality(S) - 1 ELSE Cardinality(S)
  BY <1>1, FS_AddElement, FS_RemoveElement
<1>6. Cardinality(S \cup {w}) \in Nat /\ Cardinality(S \ {w}) \in Nat
  BY <1>4, FS_CardinalityType
<1> HIDE DEF S
<1> QED
  BY <1>1, <1>2, <1>3, <1>5, <1>6 DEF S

LEMMA CountsTyped ==
  ASSUME PaymentInv
  PROVE  /\ Cardinality(Activating) \in Nat /\ Cardinality(Mailing) \in Nat
         /\ Activating = AtStep("activate") /\ Mailing = AtStep("mail")
         /\ (\A w \in Workers : worker[w] # "activate") => Cardinality(Activating) = 0
         /\ (\A w \in Workers : worker[w] # "mail") => Cardinality(Mailing) = 0
         /\ mishaps \in [Mishaps -> Nat] /\ Taken \in Nat /\ sent \in Nat
<1>1. Activating = AtStep("activate") /\ Mailing = AtStep("mail")
  BY DEF Activating, Mailing, AtStep, WorkAt
<1>2. IsFiniteSet(Activating) /\ IsFiniteSet(Mailing)
  BY PaymentAssumption, FS_Subset DEF Activating, Mailing
<1>3. Cardinality(Activating) \in Nat /\ Cardinality(Mailing) \in Nat
  BY <1>2, FS_CardinalityType
<1>4. /\ (\A w \in Workers : worker[w] # "activate") => Activating = {}
      /\ (\A w \in Workers : worker[w] # "mail") => Mailing = {}
  BY DEF Activating, Mailing, WorkAt
<1>5. mishaps \in [Mishaps -> Nat] /\ sent \in Nat
  BY PaymentAssumption DEF PaymentInv, PaymentTypeOK
<1>6. Taken \in Nat
  BY <1>5 DEF Taken, Mishaps
<1> QED
  BY <1>1, <1>3, <1>4, <1>5, <1>6, FS_EmptySet

(* What a mishap adds to the counts.                                       *)
LEMMA MishapAdds ==
  ASSUME PaymentInv, NEW kind \in Mishaps, Mishap(kind)
  PROVE  /\ Taken' = Taken + (IF kind \in {"overrun", "forced"} THEN 1 ELSE 0)
         /\ mishaps'["mail"] = mishaps["mail"] + (IF kind = "mail" THEN 1 ELSE 0)
<1>1. mishaps \in [Mishaps -> 0..MaxFaults] /\ mishaps \in [Mishaps -> Nat]
  BY CountsTyped DEF PaymentInv, PaymentTypeOK
<1>2. /\ mishaps'[kind] = mishaps[kind] + 1
      /\ \A k \in Mishaps \ {kind} : mishaps'[k] = mishaps[k]
  BY <1>1, MishapCounted
<1> QED
  BY <1>1, <1>2 DEF Taken, Mishaps

Accounted == ClaimsCounted' /\ MailsAccounted'

LEMMA CallersAccounted ==
  ASSUME PaymentInv, NEW c \in Callers,
         CreatePayment(c) \/ Callback(c) \/ Refresh(c) \/ RetryActivation(c)
           \/ CallSteps(c) \/ CallCrashes(c)
  PROVE  Accounted
<1>0. payment \in PaymentDoc /\ ClaimsCounted /\ MailsAccounted
  BY DEF PaymentInv, PaymentTypeOK
<1>1. UNCHANGED <<worker, stale, sent>>
  BY DEF CreatePayment, Callback, Refresh, RetryActivation, CallSteps, CallCrashes, PlaceOrder,
     OrderFails, GetOrderStatus, SaveStatus, EnqueuePaymentActivation, ForceFailed, jobState
<1>2. Activating' = Activating /\ Mailing' = Mailing
  BY <1>1 DEF Activating, Mailing, WorkAt
<1>3. CASE ForceFailed(c)
  <2>1. /\ payment'.email = payment.email /\ payment'.activation = "FAILED"
        /\ IF Claimable THEN UNCHANGED mishaps ELSE Mishap("forced")
    BY <1>0, <1>3 DEF ForceFailed, PaymentDoc
  <2>2. CASE Claimable
    <3>1. ActivationOpen /\ UNCHANGED mishaps
      BY <2>1, <2>2 DEF Claimable, ActivationOpen
    <3> QED
      BY <1>0, <1>1, <1>2, <2>1, <3>1
      DEF Accounted, ClaimsCounted, MailsAccounted, ActivationOpen, MailOpen, Taken
  <2>3. CASE ~Claimable
    <3>1. Taken' = Taken + 1 /\ mishaps'["mail"] = mishaps["mail"]
      BY <2>1, <2>3, MishapAdds, CountsTyped DEF Mishaps
    <3> QED
      BY <1>0, <1>1, <1>2, <2>1, <3>1, CountsTyped
      DEF Accounted, ClaimsCounted, MailsAccounted, ActivationOpen, MailOpen
  <2> QED
    BY <2>2, <2>3
<1>4. CASE ~ForceFailed(c)
  <2>1. payment' = payment \/ \E s : payment' = [payment EXCEPT !.status = s]
    BY <1>4 DEF CreatePayment, Callback, Refresh, RetryActivation, CallSteps, CallCrashes, PlaceOrder,
       OrderFails, GetOrderStatus, SaveStatus, EnqueuePaymentActivation
  <2>2. payment'.activation = payment.activation /\ payment'.email = payment.email
    BY <1>0, <2>1 DEF PaymentDoc
  <2>3. UNCHANGED mishaps \/ Mishap("other")
    BY <1>4 DEF CreatePayment, Callback, Refresh, RetryActivation, CallSteps, CallCrashes, PlaceOrder,
       OrderFails, GetOrderStatus, SaveStatus, EnqueuePaymentActivation
  <2>4. Taken' = Taken /\ mishaps'["mail"] = mishaps["mail"]
    BY <2>3, MishapAdds, CountsTyped DEF Taken, Mishaps
  <2> QED
    BY <1>0, <1>1, <1>2, <2>2, <2>4
    DEF Accounted, ClaimsCounted, MailsAccounted, ActivationOpen, MailOpen
<1> QED
  BY <1>3, <1>4

LEMMA WorkersAccounted ==
  ASSUME PaymentInv, NEW w \in Workers,
         TakeActivationJob(w) \/ TakeMailJob(w) \/ WorkSteps(w) \/ WorkerCrashes(w)
  PROVE  Accounted
<1> DEFINE n == Cardinality(Activating)
           m == Cardinality(Mailing)
<1>0. /\ payment \in PaymentDoc /\ worker \in [Workers -> WorkerStep]
      /\ stale \in [activation : BOOLEAN, mail : BOOLEAN]
      /\ ClaimsCounted /\ MailsAccounted
  BY DEF PaymentInv, PaymentTypeOK
<1>1. /\ n \in Nat /\ m \in Nat /\ Taken \in Nat /\ sent \in Nat
      /\ mishaps["mail"] \in Nat
  BY CountsTyped DEF Mishaps
<1>2. ASSUME NEW to \in WorkerStep, WorkGo(w, to)
      PROVE  /\ worker' = [worker EXCEPT ![w] = to] /\ worker'[w] = to
             /\ to # "activate" /\ worker[w] = "activate" => n' = n - 1
             /\ to # "activate" /\ worker[w] # "activate" => n' = n
             /\ to = "activate" /\ worker[w] # "activate" => n' = n + 1
             /\ to # "mail" /\ worker[w] = "mail" => m' = m - 1
             /\ to # "mail" /\ worker[w] # "mail" => m' = m
             /\ to = "mail" /\ worker[w] # "mail" => m' = m + 1
             /\ n' \in Nat /\ m' \in Nat
  <2>1. worker' = [worker EXCEPT ![w] = to] /\ worker'[w] = to
    BY <1>0, <1>2 DEF WorkGo
  <2>2. Activating' = AtStep("activate")' /\ Mailing' = AtStep("mail")'
    BY DEF Activating, Mailing, AtStep, WorkAt
  <2>3. Activating = AtStep("activate") /\ Mailing = AtStep("mail")
    BY CountsTyped
  <2> HIDE DEF n, m
  <2>4. n = Cardinality(AtStep("activate")) /\ n' = Cardinality(AtStep("activate"))'
    BY <2>2, <2>3 DEF n
  <2>5. m = Cardinality(AtStep("mail")) /\ m' = Cardinality(AtStep("mail"))'
    BY <2>2, <2>3 DEF m
  <2>6. /\ to # "activate" /\ worker[w] = "activate" => n' = n - 1
        /\ to # "activate" /\ worker[w] # "activate" => n' = n
        /\ to = "activate" /\ worker[w] # "activate" => n' = n + 1
        /\ n' \in Nat
    BY <1>0, <2>1, <2>4, WorkersCounted
  <2>7. /\ to # "mail" /\ worker[w] = "mail" => m' = m - 1
        /\ to # "mail" /\ worker[w] # "mail" => m' = m
        /\ to = "mail" /\ worker[w] # "mail" => m' = m + 1
        /\ m' \in Nat
    BY <1>0, <2>1, <2>5, WorkersCounted
  <2> QED
    BY <2>1, <2>6, <2>7
<1>3. UNCHANGED worker => n' = n /\ m' = m
  BY DEF Activating, Mailing, WorkAt
<1> HIDE DEF n, m
<1>4. \A kind \in Mishaps : Mishap(kind) =>
        /\ Taken' = Taken + (IF kind \in {"overrun", "forced"} THEN 1 ELSE 0)
        /\ mishaps'["mail"] = mishaps["mail"] + (IF kind = "mail" THEN 1 ELSE 0)
  BY MishapAdds
<1>5. UNCHANGED mishaps => Taken' = Taken /\ mishaps'["mail"] = mishaps["mail"]
  BY DEF Taken
<1>6. /\ n <= 1 + Taken
      /\ ActivationOpen => n <= Taken
      /\ sent + m <= 1 + mishaps["mail"]
      /\ MailOpen => sent + m <= mishaps["mail"]
      /\ payment.email = "PENDING" /\ (\A v \in Workers : worker[v] \notin {"mail", "record"}) =>
           sent <= mishaps["mail"]
  BY <1>0 DEF ClaimsCounted, MailsAccounted, n, m
<1>7. SUFFICES /\ n' <= 1 + Taken'
               /\ ActivationOpen' => n' <= Taken'
               /\ sent' + m' <= 1 + mishaps'["mail"]
               /\ MailOpen' => sent' + m' <= mishaps'["mail"]
               /\ payment'.email = "PENDING"
                    /\ (\A v \in Workers : worker'[v] \notin {"mail", "record"}) =>
                    sent' <= mishaps'["mail"]
  BY DEF Accounted, ClaimsCounted, MailsAccounted, n, m
<1>8. CASE TakeActivationJob(w)
  <2>1. /\ UNCHANGED <<stale, sent, mishaps>>
        /\ worker[w] = "idle"
        /\ UNCHANGED worker \/ WorkGo(w, "notify") \/ WorkGo(w, "claim")
        /\ payment'.email = payment.email
        /\ payment'.activation \in {payment.activation, "ACTIVE"}
    BY <1>0, <1>8 DEF TakeActivationJob, WorkAt, PaymentDoc
  <2>2. n' = n /\ m' = m
    BY <1>2, <1>3, <2>1 DEF WorkerStep
  <2>3. (\A v \in Workers : worker'[v] \notin {"mail", "record"}) =>
           \A v \in Workers : worker[v] \notin {"mail", "record"}
    BY <1>0, <2>1 DEF WorkGo
  <2> QED
    BY <1>1, <1>5, <1>6, <2>1, <2>2, <2>3 DEF ActivationOpen, MailOpen
<1>9. CASE TakeMailJob(w)
  <2>1. UNCHANGED <<sent, mishaps>> /\ worker[w] = "idle"
    BY <1>9 DEF TakeMailJob, WorkAt
  <2>2. CASE MailDue
    <3>1. /\ payment' = [payment EXCEPT !.email = "PENDING"]
          /\ stale' = [stale EXCEPT !.mail = FALSE]
          /\ WorkGo(w, "mail")
      BY <1>9, <2>2 DEF TakeMailJob
    <3>2. /\ ~MailOpen' /\ MailOpen
          /\ payment'.activation = payment.activation /\ stale'.activation = stale.activation
      BY <1>0, <2>2, <3>1 DEF MailOpen, MailDue, PaymentDoc
    <3>3. n' = n /\ m' = m + 1 /\ worker'[w] = "mail"
      BY <1>2, <2>1, <3>1 DEF WorkerStep
    <3> QED
      BY <1>1, <1>5, <1>6, <2>1, <3>2, <3>3 DEF ActivationOpen
  <2>3. CASE ~MailDue
    <3>1. UNCHANGED <<payment, stale, worker>>
      BY <1>9, <2>3 DEF TakeMailJob
    <3> QED
      BY <1>1, <1>3, <1>5, <1>6, <2>1, <3>1 DEF ActivationOpen, MailOpen
  <2> QED
    BY <2>2, <2>3
<1>10. CASE ClaimActivation(w)
  <2>1. /\ ActivationOpen /\ ~ActivationOpen'
        /\ payment'.email = payment.email /\ stale'.mail = stale.mail
    BY <1>0, <1>10 DEF ClaimActivation, Claimable, ActivationOpen, PaymentDoc
  <2>2. UNCHANGED <<sent, mishaps>> /\ worker[w] = "claim" /\ WorkGo(w, "activate")
    BY <1>10 DEF ClaimActivation, WorkAt
  <2>3. n' = n + 1 /\ m' = m
    BY <1>2, <2>2 DEF WorkerStep
  <2>4. (\A v \in Workers : worker'[v] \notin {"mail", "record"}) =>
           \A v \in Workers : worker[v] \notin {"mail", "record"}
    BY <1>0, <2>2 DEF WorkGo
  <2> QED
    BY <1>1, <1>5, <1>6, <2>1, <2>2, <2>3, <2>4 DEF MailOpen
<1>11. ASSUME ClaimRefused(w) \/ EnqueueMail(w) \/ SendMail(w)
       PROVE  Accounted
  <2>1. /\ UNCHANGED <<payment, stale, mishaps>>
        /\ \E to \in {"notify", "idle", "record"} : WorkGo(w, to)
        /\ worker[w] # "activate"
        /\ worker[w] = "mail" => WorkGo(w, "record") /\ sent' = sent + 1
        /\ worker[w] # "mail" => sent' = sent /\ worker[w] # "record"
    BY <1>11 DEF ClaimRefused, EnqueueMail, SendMail, WorkAt
  <2>2. n' = n /\ sent' + m' = sent + m /\ m' \in Nat /\ sent' \in Nat
    BY <1>1, <1>2, <2>1 DEF WorkerStep
  <2>3. (\A v \in Workers : worker'[v] \notin {"mail", "record"}) =>
           sent' = sent /\ \A v \in Workers : worker[v] \notin {"mail", "record"}
    BY <1>0, <2>1 DEF WorkGo
  <2>4. /\ n' <= 1 + Taken'
        /\ ActivationOpen' => n' <= Taken'
        /\ sent' + m' <= 1 + mishaps'["mail"]
        /\ MailOpen' => sent' + m' <= mishaps'["mail"]
    BY <1>1, <1>5, <1>6, <2>1, <2>2 DEF ActivationOpen, MailOpen
  <2>5. payment'.email = "PENDING" /\ (\A v \in Workers : worker'[v] \notin {"mail", "record"}) =>
           sent' <= mishaps'["mail"]
    BY <1>6, <2>1, <2>3
  <2> QED
    BY <2>4, <2>5 DEF Accounted, ClaimsCounted, MailsAccounted, n, m
<1>12. CASE RecordActivation(w) \/ ActivationFails(w)
  <2>1. /\ UNCHANGED <<stale, sent>>
        /\ UNCHANGED mishaps \/ Mishap("other")
        /\ worker[w] = "activate"
        /\ WorkGo(w, "notify") \/ WorkGo(w, "idle")
        /\ payment'.email = payment.email
    BY <1>0, <1>12 DEF RecordActivation, ActivationFails, WorkAt, PaymentDoc
  <2>2. n' = n - 1 /\ m' = m /\ n' \in Nat
    BY <1>2, <2>1 DEF WorkerStep
  <2>3. (\A v \in Workers : worker'[v] \notin {"mail", "record"}) =>
           \A v \in Workers : worker[v] \notin {"mail", "record"}
    BY <1>0, <2>1 DEF WorkGo
  <2>4. Taken' = Taken /\ mishaps'["mail"] = mishaps["mail"]
    BY <1>1, <1>4, <1>5, <2>1 DEF Mishaps
  <2> QED
    BY <1>1, <1>6, <2>1, <2>2, <2>3, <2>4 DEF MailOpen
<1>13. CASE MailFails(w)
  <2>1. /\ UNCHANGED stale /\ Mishap("mail") /\ sent' \in {sent, sent + 1}
        /\ worker[w] = "mail" /\ WorkGo(w, "idle")
        /\ payment'.email = "FAILED" /\ payment'.activation = payment.activation
    BY <1>0, <1>13 DEF MailFails, WorkAt, PaymentDoc
  <2>2. n' = n /\ m' = m - 1 /\ m' \in Nat
    BY <1>2, <2>1 DEF WorkerStep
  <2>3. Taken' = Taken /\ mishaps'["mail"] = mishaps["mail"] + 1
    BY <1>1, <1>4, <2>1 DEF Mishaps
  <2> QED
    BY <1>1, <1>6, <2>1, <2>2, <2>3 DEF ActivationOpen
<1>14. CASE RecordMail(w)
  <2>1. /\ UNCHANGED <<stale, sent, mishaps>>
        /\ worker[w] = "record" /\ WorkGo(w, "idle")
        /\ payment'.email # "PENDING" /\ payment'.activation = payment.activation
        /\ payment'.email \in {"NOT_SENT", "FAILED"} => payment.email = payment'.email
    BY <1>0, <1>14 DEF RecordMail, WorkAt, PaymentDoc
  <2>2. n' = n /\ m' = m
    BY <1>2, <2>1 DEF WorkerStep
  <2> QED
    BY <1>1, <1>5, <1>6, <2>1, <2>2 DEF ActivationOpen, MailOpen
<1>15. CASE WorkerCrashes(w)
  <2>1. /\ UNCHANGED <<payment, stale, sent>>
        /\ worker[w] = "record" => Mishap("mail")
        /\ worker[w] # "record" => Mishap("other")
        /\ WorkGo(w, "idle")
    BY <1>15 DEF WorkerCrashes, WorkAt
  <2>2. /\ n' \in Nat /\ m' \in Nat /\ n' <= n
        /\ worker[w] # "mail" => m' = m
        /\ worker[w] = "mail" => m' = m - 1
    BY <1>1, <1>2, <2>1 DEF WorkerStep
  <2>3. /\ Taken' = Taken
        /\ worker[w] # "record" => mishaps'["mail"] = mishaps["mail"]
        /\ worker[w] = "record" => mishaps'["mail"] = mishaps["mail"] + 1
    BY <1>1, <1>4, <2>1 DEF Mishaps
  <2>4. worker[w] \notin {"mail", "record"} =>
          ((\A v \in Workers : worker'[v] \notin {"mail", "record"}) =>
             \A v \in Workers : worker[v] \notin {"mail", "record"})
    BY <1>0, <2>1 DEF WorkGo
  <2> QED
    BY <1>1, <1>6, <2>1, <2>2, <2>3, <2>4 DEF ActivationOpen, MailOpen
<1> QED
  BY <1>8, <1>9, <1>10, <1>11, <1>12, <1>13, <1>14, <1>15
  DEF WorkSteps, Accounted, ClaimsCounted, MailsAccounted, n, m

LEMMA HousekeepingAccounted ==
  ASSUME PaymentInv, Housekeeping \/ OrderAdvances
  PROVE  Accounted
<1>0. /\ stale \in [activation : BOOLEAN, mail : BOOLEAN]
      /\ ClaimsCounted /\ MailsAccounted
  BY DEF PaymentInv, PaymentTypeOK
<1>1. UNCHANGED <<payment, worker, sent>>
  BY DEF Housekeeping, RecoverActivation, ActivationStale, RecoverMail, MailStale,
     OrderAdvances, jobState
<1>2. Activating' = Activating /\ Mailing' = Mailing
  BY <1>1 DEF Activating, Mailing, WorkAt
<1>3. CASE RecoverActivation \/ RecoverMail \/ OrderAdvances
  <2>1. UNCHANGED <<stale, mishaps>>
    BY <1>3 DEF RecoverActivation, RecoverMail, OrderAdvances, jobState
  <2> QED
    BY <1>0, <1>1, <1>2, <2>1
    DEF Accounted, ClaimsCounted, MailsAccounted, ActivationOpen, MailOpen, Taken
<1>4. CASE ActivationStale
  <2>1. stale'.mail = stale.mail
    BY <1>0, <1>4 DEF ActivationStale
  <2>2. CASE \E w \in Workers : WorkAt(w, "activate")
    <3>1. Taken' = Taken + 1 /\ mishaps'["mail"] = mishaps["mail"]
      BY <1>4, <2>2, MishapAdds, CountsTyped DEF ActivationStale, Mishaps
    <3> QED
      BY <1>0, <1>1, <1>2, <2>1, <3>1, CountsTyped
      DEF Accounted, ClaimsCounted, MailsAccounted, MailOpen
  <2>3. CASE ~ \E w \in Workers : WorkAt(w, "activate")
    <3>1. UNCHANGED mishaps /\ Cardinality(Activating) = 0
      BY <1>4, <2>3, CountsTyped DEF ActivationStale, WorkAt
    <3> QED
      BY <1>0, <1>1, <1>2, <2>1, <3>1, CountsTyped
      DEF Accounted, ClaimsCounted, MailsAccounted, MailOpen, Taken
  <2> QED
    BY <2>2, <2>3
<1>5. CASE MailStale
  <2>1. stale'.activation = stale.activation /\ payment.email = "PENDING"
    BY <1>0, <1>5 DEF MailStale
  <2>2. CASE \E w \in Workers : worker[w] \in {"mail", "record"}
    <3>1. Taken' = Taken /\ mishaps'["mail"] = mishaps["mail"] + 1
      BY <1>5, <2>2, MishapAdds, CountsTyped DEF MailStale, Mishaps
    <3> QED
      BY <1>0, <1>1, <1>2, <2>1, <2>2, <3>1, CountsTyped
      DEF Accounted, ClaimsCounted, MailsAccounted, ActivationOpen, Mishaps
  <2>3. CASE ~ \E w \in Workers : worker[w] \in {"mail", "record"}
    <3>1. UNCHANGED mishaps /\ Cardinality(Mailing) = 0
      BY <1>5, <2>3, CountsTyped DEF MailStale
    <3>2. sent <= mishaps["mail"]
      BY <1>0, <2>1, <2>3 DEF MailsAccounted
    <3> QED
      BY <1>0, <1>1, <1>2, <2>1, <3>1, <3>2, CountsTyped
      DEF Accounted, ClaimsCounted, MailsAccounted, ActivationOpen, Taken, Mishaps
  <2> QED
    BY <2>2, <2>3
<1> QED
  BY <1>3, <1>4, <1>5 DEF Housekeeping

-----------------------------------------------------------------------------
(* The invariant is inductive, and the theorems.                           *)

LEMMA InitInductive == PaymentInit => PaymentInv
<1> SUFFICES ASSUME PaymentInit PROVE PaymentInv
  OBVIOUS
<1>1. PICK p \in Providers :
        payment = [status |-> None, provider |-> p, activation |-> "NOT_STARTED",
                   account |-> FALSE, email |-> "NOT_SENT"]
  BY DEF PaymentInit
<1>2. PaymentTypeOK
  <2>1. 0 \in 0..MaxJobs /\ 0 \in 0..MaxFaults
    BY PaymentAssumption
  <2>2. NoCall \in Caller
    BY DEF NoCall, Caller
  <2> QED
    BY <1>1, <2>1, <2>2 DEF PaymentInit, PaymentTypeOK, PaymentDoc, WorkerStep
<1>3. \A c \in Callers : caller[c].at = "idle"
  BY DEF PaymentInit, NoCall
<1>4. Ordering /\ WordsReported /\ PaidIsReported
  BY <1>1, <1>3, NoneIsNoPaymentData
  DEF PaymentInit, Ordering, WordsReported, PaidIsReported, CallAt, PaymentStatus
<1>5. ClaimsCounted /\ MailsAccounted
  <2>1. Activating = {} /\ Mailing = {}
    BY DEF PaymentInit, Activating, Mailing, WorkAt
  <2>2. Cardinality(Activating) = 0 /\ Cardinality(Mailing) = 0
    BY <2>1, FS_EmptySet
  <2> QED
    BY <2>2 DEF PaymentInit, ClaimsCounted, MailsAccounted, Taken, Mishaps
<1> QED
  BY <1>2, <1>4, <1>5 DEF PaymentInv

LEMMA StepInductive == PaymentInv /\ [PaymentNext]_paymentVars => PaymentInv'
<1> SUFFICES ASSUME PaymentInv, [PaymentNext]_paymentVars PROVE PaymentInv'
  OBVIOUS
<1>1. ASSUME NEW c \in Callers,
             CreatePayment(c) \/ Callback(c) \/ Refresh(c) \/ RetryActivation(c)
               \/ CallSteps(c) \/ CallCrashes(c)
      PROVE  PaymentInv'
  <2>1. PaymentTypeOK'
    BY <1>1, CallersTyped
  <2>2. Heard' /\ PaidIsReported'
    BY <1>1, <2>1, CallersPaid
  <2>3. Accounted
    BY <1>1, CallersAccounted
  <2> QED
    BY <2>1, <2>2, <2>3 DEF PaymentInv, Heard, Accounted
<1>2. ASSUME NEW w \in Workers,
             TakeActivationJob(w) \/ TakeMailJob(w) \/ WorkSteps(w) \/ WorkerCrashes(w)
      PROVE  PaymentInv'
  BY <1>2, WorkersTyped, WorkersHear, WorkersAccounted DEF PaymentInv, Heard, Accounted
<1>3. CASE Housekeeping \/ OrderAdvances
  BY <1>3, HousekeepingTyped, HousekeepingHears, HousekeepingAccounted DEF PaymentInv, Heard, Accounted
<1>4. CASE UNCHANGED paymentVars
  BY <1>4 DEF paymentVars, PaymentInv, PaymentTypeOK, Ordering, WordsReported, PaidIsReported,
     Settled, ClaimsCounted, MailsAccounted, Activating, ActivationOpen, Taken, Mailing, MailOpen,
     CallAt, WorkAt
<1> QED
  BY <1>1, <1>2, <1>3, <1>4 DEF PaymentNext

(* The invariant holds of every run, whether or not the scheduling is fair.*)
THEOREM PaymentInductive == PaymentSafetySpec => []PaymentInv
<1> QED
  BY InitInductive, StepInductive, PTL DEF PaymentSafetySpec

(* Every callback and every job keeps the payment document, the queues and *)
(* the counts within their types: no provider word becomes a status        *)
(* (nextPaymentStatus).                                                    *)
THEOREM PaymentTyped == PaymentSafetySpec => []PaymentTypeOK
<1>1. PaymentInv => PaymentTypeOK
  BY DEF PaymentInv
<1> QED
  BY <1>1, PaymentInductive, PTL

(* An account is handed over only for what the provider reported as paid   *)
(* in full (payment.service.js, payment-activation.worker.js).             *)
THEOREM ActivatedIsPaid == PaymentSafetySpec => []OnlyPaidIsActivated
<1>1. PaymentInv => OnlyPaidIsActivated
  BY DEF PaymentInv, PaidIsReported, Settled, OnlyPaidIsActivated
<1> QED
  BY <1>1, PaymentInductive, PTL

(* One more worker may provision for each claim that was overrun or forced *)
(* open, and no other (payment.service.js, payment-activation.worker.js).  *)
THEOREM ActivationsCounted == PaymentSafetySpec => []OneActivationAtATime
<1>1. PaymentInv => OneActivationAtATime
  <2>1. ASSUME PaymentInv PROVE OneActivationAtATime
    <3>1. /\ Cardinality(Activating) \in Nat /\ Cardinality(Activating) <= 1 + Taken
          /\ mishaps["overrun"] \in Nat /\ mishaps["forced"] \in Nat
      BY <2>1, CountsTyped DEF PaymentInv, ClaimsCounted, Mishaps
    <3> QED
      BY <3>1 DEF OneActivationAtATime, Activating, Taken
  <2> QED
    BY <2>1
<1> QED
  BY <1>1, PaymentInductive, PTL

(* Mails are sent once, and once more for each mishap that lost track of   *)
(* one (challenge-activation-email.worker.js).                             *)
THEOREM MailsAreCounted == PaymentSafetySpec => []MailsCounted
<1>1. ASSUME PaymentInv PROVE MailsCounted
  <2>1. sent + Cardinality(Mailing) <= 1 + mishaps["mail"]
    BY <1>1 DEF PaymentInv, MailsAccounted
  <2>2. sent \in Nat /\ Cardinality(Mailing) \in Nat /\ mishaps["mail"] \in Nat
    BY <1>1, CountsTyped DEF Mishaps
  <2> QED
    BY <2>1, <2>2 DEF MailsCounted
<1> QED
  BY <1>1, PaymentInductive, PTL
=============================================================================
