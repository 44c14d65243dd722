---------------------------- MODULE PayoutProofs ----------------------------
(* Proofs about Payout, for every value of its constants: the sum of        *)
(* amounts, the invariant of the payouts, and the refinement of the ledger. *)
EXTENDS Payout, FiniteSums, FiniteSetTheorems, TLAPS

-----------------------------------------------------------------------------
(* The amounts of documents add up as such sums do.                        *)
AmountSum(d, S) == MapThenSumSet(LAMBDA x : d[x].amount, S)

LEMMA FieldSum ==
  ASSUME NEW S, IsFiniteSet(S), NEW d, NEW v, \A x \in S : v[x] = d[x].amount
  PROVE  AmountSum(d, S) = SumOf(v, S)
<1> DEFINE Sum(g) == g = [s \in SUBSET S |->
             IF s = {} THEN 0 ELSE d[Pick(s)].amount + g[s \ {Pick(s)}]]
<1>1. AmountSum(d, S) = (CHOOSE g : Sum(g))[S]
  BY DEF AmountSum, MapThenSumSet, MapThenFoldSet, Pick
<1>2. \A s \in SUBSET S : s # {} => Pick(s) \in S
  BY PickIn
<1>3. \A g : Sum(g) <=> Sums(v, g, S)
  <2> SUFFICES ASSUME NEW g
               PROVE  [s \in SUBSET S |-> IF s = {} THEN 0
                                         ELSE d[Pick(s)].amount + g[s \ {Pick(s)}]]
                        = [s \in SUBSET S |-> SumStep(v, g, s)]
    BY DEF Sums
  <2>1. \A s \in SUBSET S : (IF s = {} THEN 0 ELSE d[Pick(s)].amount + g[s \ {Pick(s)}])
                               = SumStep(v, g, s)
    BY <1>2 DEF SumStep
  <2> QED
    BY <2>1
<1>4. \E g : Sums(v, g, S)
  BY SumsExist
<1> DEFINE f == CHOOSE g : Sum(g)
           h == CHOOSE g : Sums(v, g, S)
<1>5. Sums(v, h, S)
  BY <1>4
<1>6. Sum(f)
  <2>1. \E g : Sum(g)
    BY <1>3, <1>4
  <2> HIDE DEF Sum
  <2> QED
    BY <2>1
<1> HIDE DEF f, h, Sum
<1>7. f[S] = h[S]
  BY <1>3, <1>5, <1>6, SumsAgree
<1> QED
  BY <1>1, <1>7 DEF f, h, SumOf

(* The same facts, said of the amounts of documents.                       *)
LEMMA AmountSumCongruent ==
  ASSUME NEW S, IsFiniteSet(S), NEW d, NEW e, \A x \in S : d[x].amount = e[x].amount
  PROVE  AmountSum(d, S) = AmountSum(e, S)
<1> DEFINE v == [x \in S |-> d[x].amount]
<1>1. \A x \in S : v[x] = d[x].amount /\ v[x] = e[x].amount
  OBVIOUS
<1> HIDE DEF v
<1> QED
  BY <1>1, FieldSum

LEMMA AmountSumType ==
  ASSUME NEW S, IsFiniteSet(S), NEW d, \A x \in S : d[x].amount \in Nat
  PROVE  AmountSum(d, S) \in Nat
<1> DEFINE v == [x \in S |-> d[x].amount]
<1>1. \A x \in S : v[x] = d[x].amount /\ v[x] \in Nat
  OBVIOUS
<1> HIDE DEF v
<1> QED
  BY <1>1, FieldSum, SumType

LEMMA AmountSumAdd ==
  ASSUME NEW S, IsFiniteSet(S), NEW d, NEW x, x \notin S,
         \A y \in S \cup {x} : d[y].amount \in Nat
  PROVE  AmountSum(d, S \cup {x}) = AmountSum(d, S) + d[x].amount
<1> DEFINE U == S \cup {x}
           v == [y \in U |-> d[y].amount]
<1>1. IsFiniteSet(U)
  BY FS_AddElement
<1>2. \A y \in U : v[y] = d[y].amount /\ v[y] \in Nat
  OBVIOUS
<1>3. S \in SUBSET U /\ x \in U
  OBVIOUS
<1> HIDE DEF v
<1>4. AmountSum(d, U) = SumOf(v, U) /\ AmountSum(d, S) = SumOf(v, S)
  BY <1>1, <1>2, FieldSum
<1> HIDE DEF U
<1>5. SumOf(v, S \cup {x}) = SumOf(v, S) + v[x]
  BY <1>1, <1>2, <1>3, SumAdd
<1> QED
  BY <1>2, <1>3, <1>4, <1>5 DEF U

-----------------------------------------------------------------------------
(* The inductive invariant.                                                *)

Opened == {"REQUESTED", "REVIEWING"}
Committed == {"APPROVED", "PROCESSING", "SENT"}
Submittable == {"APPROVED", "PROCESSING", "SENT", "PAID", "FAILED"}

(* A document is as its status says, and Sunpay knows only what was        *)
(* approved.                                                               *)
DocumentOK(p) ==
  /\ payout[p].activeKey <=> payout[p].status \in ActiveStatuses
  /\ Exists(p) => payout[p].amount \in Amounts
  /\ ~Exists(p) => payout[p] = NoPayout
  /\ payout[p].source = "PROVIDER_VERIFIED" =>
       payout[p].status = "PAID" /\ remote[p] = "SUCCESS"
  /\ remote[p] # None => payout[p].status \in Submittable

OneActive ==
  \A p, q \in Payouts : payout[p].activeKey /\ payout[q].activeKey => p = q

(* The share covers what was paid, and with it what is on its way.         *)
Covers(p) == Total(PaidOut) + payout[p].amount <= peak

WithinShare ==
  /\ Total(PaidOut) <= peak
  /\ \A p \in With(Committed) : Covers(p)

(* What a call remembers still holds when it writes.                       *)
CallOK(c) ==
  LET call == calls[c]
      p == call.p
  IN /\ call.at \notin {"idle", "ledger", "insert"} => p \in Payouts /\ Exists(p)
     /\ call.at = "insert" => call.amount \in Amounts
     /\ call.at = "approve" => call.amount = payout[p].amount /\ call.share <= peak
     /\ call.at = "apply" /\ payout[p].status \in Opened => Covers(p)
     /\ call.at \in {"execute", "submit", "submitted"} => payout[p].status \in Submittable
     /\ call.at \in {"submitted", "settle"} => remote[p] # None
     /\ call.at = "settle" => call.remote \in {"PENDING", remote[p]}

IInv ==
  /\ PayoutTypeOK
  /\ \A p \in Payouts : DocumentOK(p)
  /\ OneActive
  /\ WithinShare
  /\ \A c \in Calls : CallOK(c)

-----------------------------------------------------------------------------
(* What a write makes of a payout that exists.                             *)

(* The change of one document, of which Sunpay says r.                     *)
Evolves(old, new, r) ==
  /\ new \in PayoutDoc
  /\ new.amount = old.amount
  /\ new.activeKey <=> new.status \in ActiveStatuses
  /\ old.status \in Opened =>
       new.status \in Opened \cup {"APPROVED", "REJECTED", "CANCELLED"}
  /\ old.status \in Committed => new.status \in Submittable
  /\ old.status \in FinalStatuses => new.status = old.status
  /\ new.source = "PROVIDER_VERIFIED" => new.status = "PAID" /\ r = "SUCCESS"

(* A document as the invariant has it, of a payout that exists.            *)
Sound(doc, r) ==
  /\ doc \in PayoutDoc
  /\ doc.status # None
  /\ doc.activeKey <=> doc.status \in ActiveStatuses
  /\ doc.source = "PROVIDER_VERIFIED" => doc.status = "PAID" /\ r = "SUCCESS"

LEMMA SoundDocuments ==
  ASSUME IInv, NEW p \in Payouts, Exists(p)
  PROVE  Sound(payout[p], remote[p])
BY DEF IInv, DocumentOK, Sound, Exists, PayoutTypeOK

(* An admin's action, whichever it is.                                     *)
LEMMA AppliedEvolves ==
  ASSUME NEW doc, NEW r, Sound(doc, r), NEW action \in Actions, doc.status \in From(action),
         NEW named \in Providers
  PROVE  /\ Evolves(doc, Applied(doc, action, named), r)
         /\ Applied(doc, action, named).status = To(action)
<1> DEFINE k == IF Terminal(action) THEN FALSE ELSE doc.activeKey
           v == IF named # None THEN named ELSE doc.provider
           o == IF action = "MARK_PAID" THEN "ADMIN_VERIFIED" ELSE doc.source
           new == [doc EXCEPT !.status = To(action), !.activeKey = k, !.provider = v, !.source = o]
<1>1. Applied(doc, action, named) = new
  BY DEF Applied, Sound, PayoutDoc
<1>2. /\ k \in BOOLEAN
      /\ v \in Providers
      /\ o \in {None, "ADMIN_VERIFIED", "PROVIDER_VERIFIED"}
  BY DEF Sound, PayoutDoc, Providers
<1>3. /\ To(action) \in PayoutStatus
      /\ doc.status \in ActiveStatuses
      /\ doc.status \in Opened => To(action) \in Opened \cup {"APPROVED", "REJECTED", "CANCELLED"}
      /\ doc.status \in Committed => To(action) \in Submittable
  BY DEF From, To, Actions, Opened, Committed, Submittable, PayoutStatus, ActiveStatuses, FinalStatuses
<1>4. k <=> To(action) \in ActiveStatuses
  BY <1>3 DEF Sound, Terminal, To, Actions, ActiveStatuses, FinalStatuses, PayoutStatus
<1>5. doc.status \notin FinalStatuses /\ o # "PROVIDER_VERIFIED"
  BY <1>3 DEF Sound, ActiveStatuses, FinalStatuses
<1> HIDE DEF k, v, o
<1>6. new \in PayoutDoc
  BY <1>2, <1>3 DEF Sound, PayoutDoc
<1> QED
  BY <1>1, <1>2, <1>3, <1>4, <1>5, <1>6 DEF Evolves, Sound, PayoutDoc

(* Assigning a payout to Sunpay, whatever its status.                      *)
LEMMA AtSunpayEvolves ==
  ASSUME NEW doc, NEW r, Sound(doc, r)
  PROVE  Evolves(doc, AtSunpay(doc), r)
BY DEF Evolves, Sound, AtSunpay, PayoutDoc, Providers, Submittable, Committed, Opened

LEMMA ProcessingEvolves ==
  ASSUME NEW doc, NEW r, Sound(doc, r), doc.status = "APPROVED"
  PROVE  Evolves(doc, [AtSunpay(doc) EXCEPT !.status = "PROCESSING"], r)
BY DEF Evolves, Sound, AtSunpay, PayoutDoc, Providers, PayoutStatus, ActiveStatuses, FinalStatuses,
  Submittable, Committed, Opened

(* Sunpay's word is pending, or the word it keeps to.                      *)
LEMMA SettledEvolves ==
  ASSUME NEW doc, NEW r, Sound(doc, r), SettleHolds(doc), NEW s \in RemoteStatus,
         s \in {"PENDING", r}
  PROVE  Evolves(doc, Settled(doc, s), r)
<1> DEFINE t == CASE s = "SUCCESS" -> "PAID" [] s = "FAILED" -> "FAILED" [] OTHER -> "PROCESSING"
           k == IF s = "SUCCESS" \/ s = "FAILED" THEN FALSE ELSE doc.activeKey
           o == IF s = "SUCCESS" THEN "PROVIDER_VERIFIED" ELSE doc.source
           new == [doc EXCEPT !.provider = "sunpay", !.status = t, !.activeKey = k, !.source = o]
<1>1. Settled(doc, s) = new
  BY DEF Settled, AtSunpay, ExactReceipt, Sound, PayoutDoc
<1>2. /\ t \in {"PAID", "FAILED", "PROCESSING"}
      /\ k \in BOOLEAN
      /\ o \in {None, "ADMIN_VERIFIED", "PROVIDER_VERIFIED"}
      /\ k <=> t = "PROCESSING"
      /\ o = "PROVIDER_VERIFIED" => t = "PAID" /\ r = "SUCCESS"
  BY DEF Sound, PayoutDoc, SettleHolds, ActiveStatuses
<1> HIDE DEF t, k, o
<1>3. new \in PayoutDoc
  BY <1>2 DEF Sound, PayoutDoc, Providers, PayoutStatus, ActiveStatuses, FinalStatuses
<1> QED
  BY <1>1, <1>2, <1>3 DEF Evolves, Sound, PayoutDoc, SettleHolds, Submittable, Committed,
     Opened, ActiveStatuses, FinalStatuses

-----------------------------------------------------------------------------
(* What a step does to the payouts and to what calls remember of them.     *)

(* The payouts and Sunpay only go forward.                                 *)
Forward ==
  /\ peak' >= peak
  /\ \A p \in Payouts :
       /\ remote[p] # None =>
            remote'[p] # None /\ (remote[p] # "PENDING" => remote'[p] = remote[p])
       /\ Exists(p) =>
            /\ payout'[p].status # None
            /\ payout'[p].amount = payout[p].amount
            /\ payout[p].status \in Submittable => payout'[p].status \in Submittable
            /\ payout'[p].status \in Opened => payout[p].status \in Opened /\ PaidOut' = PaidOut

(* The numbers in the ledger.                                              *)
LEMMA PaidFacts ==
  ASSUME IInv
  PROVE  /\ IsFiniteSet(PaidOut)
         /\ \A p \in PaidOut : payout[p].amount \in Nat
         /\ Total(PaidOut) = AmountSum(payout, PaidOut)
         /\ Total(PaidOut) \in Nat
         /\ peak \in Nat
         /\ \A p \in Payouts : Exists(p) => payout[p].amount \in Nat
<1>1. IsFiniteSet(PaidOut)
  <2>1. PaidOut \subseteq Payouts
    BY DEF PaidOut, With
  <2> QED
    BY <2>1, PayoutAssumption, FS_Subset
<1>2. Amounts \subseteq Nat
  BY PayoutAssumption DEF Amounts
<1>3. \A p \in Payouts : Exists(p) => payout[p].amount \in Nat
  BY <1>2 DEF IInv, DocumentOK
<1>4. \A p \in PaidOut : payout[p].amount \in Nat
  BY <1>3, NoneIsNoPayoutData DEF PaidOut, With, Exists, PayoutStatus, FinalStatuses
<1>5. Total(PaidOut) = AmountSum(payout, PaidOut)
  BY DEF Total, AmountSum
<1>6. AmountSum(payout, PaidOut) \in Nat
  BY <1>1, <1>4, AmountSumType
<1>7. peak \in Nat
  BY PayoutAssumption DEF IInv, PayoutTypeOK
<1> QED
  BY <1>1, <1>3, <1>4, <1>5, <1>6, <1>7

(* The total stays when nobody is paid.                                    *)
LEMMA SamePaid ==
  ASSUME IInv, PaidOut' = PaidOut,
         \A p \in Payouts : Exists(p) => payout'[p].amount = payout[p].amount
  PROVE  Total(PaidOut)' = Total(PaidOut)
<1>1. Total(PaidOut)' = AmountSum(payout', PaidOut)
  <2>1. Total(PaidOut)' = MapThenSumSet(LAMBDA x : payout'[x].amount, PaidOut')
    BY DEF Total, MapThenSumSet, MapThenFoldSet
  <2>2. AmountSum(payout', PaidOut') = MapThenSumSet(LAMBDA x : payout'[x].amount, PaidOut')
    BY DEF AmountSum
  <2> QED
    BY <2>1, <2>2
<1>2. \A p \in PaidOut : payout'[p].amount = payout[p].amount
  BY NoneIsNoPayoutData DEF PaidOut, With, Exists, PayoutStatus, FinalStatuses
<1>3. IsFiniteSet(PaidOut) /\ Total(PaidOut) = AmountSum(payout, PaidOut)
  BY PaidFacts
<1> QED
  BY <1>1, <1>2, <1>3, AmountSumCongruent

(* What the other calls remember still holds.                              *)
LEMMA CallsKept ==
  ASSUME IInv, Forward, peak' \in Nat, PayoutTypeOK',
         NEW c \in Calls, calls'[c] = calls[c]
  PROVE  CallOK(c)'
<1> DEFINE p == calls[c].p
<1>1. CallOK(c) /\ calls[c] \in Call /\ calls'[c].p = p
  BY DEF IInv, PayoutTypeOK
<1>2. CASE calls[c].at \in {"idle", "ledger", "insert"}
  BY <1>1, <1>2 DEF CallOK
<1>3. CASE calls[c].at \notin {"idle", "ledger", "insert"}
  <2>1. p \in Payouts /\ Exists(p)
    BY <1>1, <1>3 DEF CallOK
  <2>2. Exists(p)'
    BY <2>1 DEF Forward, Exists
  <2>3. payout'[p].amount = payout[p].amount
    BY <2>1 DEF Forward
  <2>4. ASSUME calls[c].at = "approve" PROVE calls[c].amount = payout'[p].amount /\ calls[c].share <= peak'
    <3>1. calls[c].share \in Nat
      <4>1. calls[c].share \in Entitlements \cup {0}
        BY <1>1 DEF Call
      <4>2. Entitlements \cup {0} \subseteq Nat
        BY PayoutAssumption
      <4> QED
        BY <4>1, <4>2
    <3> QED
      BY <1>1, <2>3, <2>4, <3>1, PaidFacts DEF CallOK, Forward
  <2>5. ASSUME calls[c].at = "apply", payout'[p].status \in Opened PROVE Covers(p)'
    <3>1. payout[p].status \in Opened /\ PaidOut' = PaidOut
      BY <2>1, <2>5 DEF Forward
    <3>2. Covers(p)
      BY <1>1, <2>5, <3>1 DEF CallOK
    <3>3. Total(PaidOut)' = Total(PaidOut)
      BY <3>1, SamePaid DEF Forward
    <3> QED
      BY <2>1, <2>3, <3>2, <3>3, PaidFacts DEF Covers, Forward
  <2>6. calls[c].at \in {"execute", "submit", "submitted"} => payout'[p].status \in Submittable
    BY <1>1, <2>1 DEF CallOK, Forward
  <2>7. calls[c].at \in {"submitted", "settle"} => remote'[p] # None
    BY <1>1, <2>1 DEF CallOK, Forward
  <2>8. calls[c].at = "settle" => calls[c].remote \in {"PENDING", remote'[p]}
    BY <1>1, <2>1 DEF CallOK, Forward
  <2> QED
    BY <1>1, <1>3, <2>1, <2>2, <2>4, <2>5, <2>6, <2>7, <2>8 DEF CallOK
<1> QED
  BY <1>2, <1>3

-----------------------------------------------------------------------------
(* What a step does to the ledger that the payouts implement.              *)

Phases == [p \in Payouts |-> PhaseOf(payout[p].status)]
AmountsOf == [p \in Payouts |-> payout[p].amount]

LedgerStep == [Ledger!Next]_(Ledger!vars)

(* None is no status.                                                      *)
LEMMA StatusIsNotNone ==
  /\ None \notin ActiveStatuses /\ None \notin FinalStatuses
  /\ None \notin Opened /\ None \notin Committed /\ None \notin Submittable
BY NoneIsNoPayoutData DEF PayoutStatus, ActiveStatuses, FinalStatuses, Opened, Committed, Submittable

LEMMA PhaseOfStatus ==
  /\ PhaseOf(None) = "none"
  /\ \A s \in Opened : PhaseOf(s) = "open"
  /\ \A s \in Committed : PhaseOf(s) = "committed"
  /\ PhaseOf("PAID") = "paid"
  /\ \A s \in FinalStatuses \ {"PAID"} : PhaseOf(s) = "void"
BY NoneIsNoPayoutData DEF PhaseOf, Opened, Committed, FinalStatuses, PayoutStatus, ActiveStatuses

(* No two of the phases are one, so a phase tells the class of a status.   *)
LEMMA StatusOfPhase ==
  ASSUME IInv, NEW p \in Payouts
  PROVE  /\ Phases[p] = "none" <=> ~Exists(p)
         /\ Phases[p] \in {"open", "committed"} <=> payout[p].status \in ActiveStatuses
         /\ Phases[p] = "paid" <=> payout[p].status = "PAID"
<1>1. payout[p].status \in Opened \cup Committed \cup FinalStatuses \cup {None}
  BY DEF IInv, PayoutTypeOK, PayoutDoc, PayoutStatus, ActiveStatuses, Opened, Committed
<1>2. /\ Opened \cup Committed = ActiveStatuses
      /\ "PAID" \in FinalStatuses /\ ActiveStatuses \cap FinalStatuses = {}
  BY DEF ActiveStatuses, FinalStatuses, Opened, Committed
<1> QED
  BY <1>1, <1>2, PhaseOfStatus, StatusIsNotNone DEF Phases, Exists

(* The sum of the ledger is the sum of the payouts.                        *)
LEMMA LedgerTotal ==
  ASSUME NEW S \in SUBSET Payouts
  PROVE  Ledger!Total(S) = AmountSum(payout, S)
<1>1. IsFiniteSet(S) /\ \A x \in S : AmountsOf[x] = payout[x].amount
  BY PayoutAssumption, FS_Subset DEF AmountsOf
<1>2. Ledger!Total(S) = SumOf(AmountsOf, S)
  BY DEF Ledger!Total, Ledger!MapThenSumSet, Ledger!MapThenFoldSet, SumOf, Sums, SumStep, Pick,
     AmountsOf
<1> QED
  BY <1>1, <1>2, FieldSum

(* The payouts are left alone: at most the share is raised.                *)
LEMMA LedgerKept ==
  ASSUME UNCHANGED payout, peak \in Nat, peak' \in Nat, peak' >= peak
  PROVE  LedgerStep
<1>1. peak' = peak \/ peak' > peak
  OBVIOUS
<1> QED
  BY <1>1 DEF LedgerStep, Ledger!Next, Ledger!Raise, Ledger!vars

(* A document is changed: the payout stays in its phase, is committed      *)
(* within the share, is paid, or is void.                                  *)
LEMMA LedgerChanged ==
  ASSUME IInv, NEW p \in Payouts, Exists(p), NEW new,
         Evolves(payout[p], new, remote[p]),
         payout' = [payout EXCEPT ![p] = new],
         UNCHANGED peak,
         payout[p].status \in Opened /\ new.status = "APPROVED" => Covers(p)
  PROVE  LedgerStep
<1> DEFINE old == payout[p]
<1>1. /\ payout'[p] = new /\ new.amount = old.amount
      /\ \A q \in Payouts \ {p} : payout'[q] = payout[q]
  BY DEF IInv, PayoutTypeOK, Evolves
<1>2. AmountsOf' = AmountsOf
  BY <1>1 DEF AmountsOf
<1>3. Phases' = [Phases EXCEPT ![p] = PhaseOf(new.status)]
  <2>1. \A q \in Payouts : PhaseOf(payout'[q].status) =
          IF q = p THEN PhaseOf(new.status) ELSE PhaseOf(payout[q].status)
    BY <1>1
  <2> QED
    BY <2>1 DEF Phases
<1>4. Phases[p] = PhaseOf(old.status)
  BY DEF Phases
<1>5. old.status \in Opened \cup Committed \cup FinalStatuses
  BY SoundDocuments DEF Sound, PayoutDoc, PayoutStatus, ActiveStatuses, Opened, Committed
<1>6. CASE PhaseOf(new.status) = PhaseOf(old.status)
  <2>1. Phases' = Phases
    BY <1>3, <1>4, <1>6 DEF Phases
  <2> QED
    BY <1>2, <2>1 DEF LedgerStep, Ledger!vars, Phases, AmountsOf
<1>7. CASE old.status \in Opened /\ new.status = "APPROVED"
  <2>1. Ledger!Paid = PaidOut
    BY StatusOfPhase DEF Ledger!Paid, PaidOut, With, Phases
  <2>2. Ledger!Total(Ledger!Paid \cup {p}) = Total(PaidOut) + payout[p].amount
    <3>1. PaidOut \cup {p} \in SUBSET Payouts /\ p \notin PaidOut
      BY <1>7 DEF PaidOut, With, Opened
    <3>2. AmountSum(payout, PaidOut \cup {p}) = AmountSum(payout, PaidOut) + payout[p].amount
      <4>1. IsFiniteSet(PaidOut) /\ \A q \in PaidOut \cup {p} : payout[q].amount \in Nat
        BY PaidFacts
      <4> QED
        BY <3>1, <4>1, AmountSumAdd
    <3>3. Ledger!Total(PaidOut \cup {p}) = AmountSum(payout, PaidOut \cup {p})
      BY <3>1, LedgerTotal
    <3> QED
      BY <2>1, <3>2, <3>3, PaidFacts
  <2>3. Ledger!Total(Ledger!Paid \cup {p}) <= peak
    BY <1>7, <2>2 DEF Covers
  <2>4. Phases[p] = "open" /\ Phases' = [Phases EXCEPT ![p] = "committed"]
    BY <1>3, <1>4, <1>7, PhaseOfStatus DEF Committed
  <2>5. Ledger!Commit(p)
    BY <1>2, <2>3, <2>4 DEF Ledger!Commit, Phases, AmountsOf
  <2> QED
    BY <2>5 DEF LedgerStep, Ledger!Next
<1>8. CASE old.status \in Committed /\ new.status = "PAID"
  <2>1. Phases[p] = "committed" /\ Phases' = [Phases EXCEPT ![p] = "paid"]
    BY <1>3, <1>4, <1>8, PhaseOfStatus
  <2>2. Ledger!Pay(p)
    BY <1>2, <2>1 DEF Ledger!Pay, Phases, AmountsOf
  <2> QED
    BY <2>2 DEF LedgerStep, Ledger!Next
<1>9. CASE old.status \in Opened \cup Committed /\ new.status \in FinalStatuses \ {"PAID"}
  <2>1. Phases[p] \in {"open", "committed"} /\ Phases' = [Phases EXCEPT ![p] = "void"]
    BY <1>3, <1>4, <1>9, PhaseOfStatus
  <2>2. Ledger!Void(p)
    BY <1>2, <2>1 DEF Ledger!Void, Ledger!Live, Phases, AmountsOf
  <2> QED
    BY <2>2 DEF LedgerStep, Ledger!Next
<1>10. \/ new.status = old.status
       \/ old.status \in Opened /\ new.status \in Opened
       \/ old.status \in Committed /\ new.status \in Committed
       \/ old.status \in Opened /\ new.status = "APPROVED"
       \/ old.status \in Committed /\ new.status = "PAID"
       \/ old.status \in Opened \cup Committed /\ new.status \in FinalStatuses \ {"PAID"}
  BY <1>5 DEF Evolves, Opened, Committed, Submittable, FinalStatuses
<1> QED
  BY <1>6, <1>7, <1>8, <1>9, <1>10, PhaseOfStatus

(* A payout is requested while no other is live.                           *)
LEMMA LedgerOpened ==
  ASSUME IInv, NEW p \in Payouts, ~Exists(p), \A q \in Payouts : ~payout[q].activeKey,
         NEW new, new.status = "REQUESTED", new.amount \in Amounts,
         payout' = [payout EXCEPT ![p] = new],
         UNCHANGED peak
  PROVE  LedgerStep
<1>1. payout'[p] = new /\ \A q \in Payouts \ {p} : payout'[q] = payout[q]
  BY DEF IInv, PayoutTypeOK
<1>2. Phases' = [Phases EXCEPT ![p] = "open"]
  <2>1. \A q \in Payouts : PhaseOf(payout'[q].status) =
          IF q = p THEN "open" ELSE PhaseOf(payout[q].status)
    BY <1>1, PhaseOfStatus DEF Opened
  <2> QED
    BY <2>1 DEF Phases
<1>3. AmountsOf' = [AmountsOf EXCEPT ![p] = new.amount]
  <2>1. \A q \in Payouts : payout'[q].amount = IF q = p THEN new.amount ELSE payout[q].amount
    BY <1>1
  <2> QED
    BY <2>1 DEF AmountsOf
<1>4. \A q \in Payouts : Phases[q] \notin {"open", "committed"}
  BY StatusOfPhase DEF IInv, DocumentOK
<1>5. Phases[p] = "none"
  BY StatusOfPhase
<1>6. Ledger!Open(p)
  BY <1>2, <1>3, <1>4, <1>5 DEF Ledger!Open, Ledger!Live, Phases, AmountsOf
<1> QED
  BY <1>6 DEF LedgerStep, Ledger!Next

-----------------------------------------------------------------------------
(* The three kinds of steps: the payouts are left alone, a document of one *)
(* that exists is changed, or a payout is requested.                       *)

LedgerOK == (\A p \in Payouts : DocumentOK(p)) /\ OneActive /\ WithinShare

(* Sunpay is given approved payouts only, and keeps to a final status.     *)
SunpayStep ==
  \A q \in Payouts :
    \/ remote'[q] = remote[q]
    \/ /\ remote'[q] # None
       /\ \/ remote[q] = "PENDING"
          \/ remote[q] = None /\ payout[q].status \in Submittable

LEMMA PayoutsKept ==
  ASSUME IInv, UNCHANGED payout, peak' \in Nat, peak' >= peak, SunpayStep
  PROVE  Forward /\ LedgerOK' /\ LedgerStep
<1>1. PaidOut' = PaidOut /\ With(Committed)' = With(Committed)
  BY DEF PaidOut, With
<1>2. Total(PaidOut)' = Total(PaidOut)
  BY <1>1, SamePaid
<1>3. Forward
  BY <1>1 DEF Forward, SunpayStep, Exists
<1>4. ASSUME NEW p \in Payouts PROVE DocumentOK(p)'
  <2>1. DocumentOK(p)
    BY DEF IInv
  <2> QED
    BY <2>1, NoneIsNoPayoutData DEF DocumentOK, SunpayStep, Exists, RemoteStatus
<1>5. OneActive'
  BY DEF IInv, OneActive
<1>6. WithinShare'
  <2>1. ASSUME NEW p \in With(Committed)
        PROVE  Covers(p)' /\ payout[p].amount \in Nat
    <3>1. p \in Payouts /\ Exists(p)
      BY StatusIsNotNone DEF With, Exists
    <3>2. payout[p].amount \in Nat
      BY <3>1, PaidFacts
    <3>3. Covers(p)
      BY DEF IInv, WithinShare
    <3> QED
      BY <1>2, <3>2, <3>3, PaidFacts DEF Covers
  <2>2. Total(PaidOut)' <= peak'
    BY <1>2, PaidFacts DEF IInv, WithinShare
  <2> QED
    BY <1>1, <2>1, <2>2 DEF WithinShare
<1>7. LedgerStep
  BY PaidFacts, LedgerKept
<1> QED
  BY <1>3, <1>4, <1>5, <1>6, <1>7 DEF LedgerOK

LEMMA DocumentChanged ==
  ASSUME IInv, NEW p \in Payouts, Exists(p), NEW new,
         Evolves(payout[p], new, remote[p]),
         payout' = [payout EXCEPT ![p] = new],
         UNCHANGED peak, SunpayStep,
         payout[p].status \in Opened /\ new.status = "APPROVED" => Covers(p)
  PROVE  payout' \in [Payouts -> PayoutDoc] /\ Forward /\ LedgerOK' /\ LedgerStep
<1>0. LedgerStep
  BY LedgerChanged
<1> DEFINE old == payout[p]
<1>1. /\ payout \in [Payouts -> PayoutDoc] /\ old \in PayoutDoc /\ new \in PayoutDoc
      /\ payout'[p] = new
      /\ \A q \in Payouts \ {p} : payout'[q] = payout[q]
  BY DEF IInv, PayoutTypeOK, Evolves
<1>2. payout' \in [Payouts -> PayoutDoc]
  BY <1>1
<1>3. Sound(old, remote[p]) /\ DocumentOK(p)
  BY SoundDocuments DEF IInv
<1>4. /\ old.status \in Opened \cup Committed \cup FinalStatuses
      /\ Opened \cup Committed = ActiveStatuses
      /\ new.amount = old.amount
  BY <1>3 DEF Sound, PayoutDoc, Evolves, PayoutStatus, ActiveStatuses, Opened, Committed
<1>5. \A q \in Payouts : Exists(q) => payout'[q].amount = payout[q].amount
  BY <1>1, <1>4
<1>6. \A q \in Payouts \ {p} : old.status \in ActiveStatuses => payout[q].status \notin ActiveStatuses
  BY <1>3 DEF IInv, OneActive, DocumentOK
<1>7. ASSUME NEW q \in Payouts PROVE DocumentOK(q)'
  <2>1. CASE q # p
    <3>1. DocumentOK(q) /\ payout'[q] = payout[q]
      BY <1>1, <2>1 DEF IInv
    <3> QED
      BY <3>1, NoneIsNoPayoutData DEF DocumentOK, SunpayStep, Exists, RemoteStatus
  <2>2. CASE q = p
    <3>1. new.status # None /\ new.amount \in Amounts
      BY <1>3, <1>4, StatusIsNotNone DEF Evolves, DocumentOK, Opened, Committed, Submittable, FinalStatuses
    <3>2. old.status \in Submittable => new.status \in Submittable
      BY DEF Evolves, Submittable, Committed, FinalStatuses
    <3>3. new.source = "PROVIDER_VERIFIED" => new.status = "PAID" /\ remote'[p] = "SUCCESS"
      BY NoneIsNoPayoutData DEF Evolves, SunpayStep, RemoteStatus
    <3>4. remote'[p] # None => new.status \in Submittable
      BY <1>3, <3>2, NoneIsNoPayoutData DEF SunpayStep, DocumentOK, RemoteStatus
    <3>5. payout'[q] = new
      BY <1>1, <2>2
    <3> QED
      BY <2>2, <3>1, <3>3, <3>4, <3>5 DEF DocumentOK, Evolves, Exists
  <2> QED
    BY <2>1, <2>2
<1>8. OneActive'
  <2>1. new.activeKey => old.activeKey
    BY <1>3, <1>4 DEF Evolves, Sound, ActiveStatuses, FinalStatuses
  <2> QED
    BY <1>1, <2>1 DEF IInv, OneActive
<1>9. CASE new.status = "PAID" /\ old.status # "PAID"
  <2>1. old.status \in Committed
    BY <1>4, <1>9 DEF Evolves, Opened, Committed, FinalStatuses
  <2>2. PaidOut' = PaidOut \cup {p} /\ p \notin PaidOut
    BY <1>1, <1>9, <2>1 DEF PaidOut, With, Committed
  <2>3. With(Committed)' = {}
    BY <1>1, <1>4, <1>6, <1>9, <2>1 DEF With, Committed
  <2>4. Covers(p) /\ payout[p].amount \in Nat
    BY <2>1, PaidFacts DEF IInv, WithinShare, With
  <2>5. Total(PaidOut)' = Total(PaidOut) + payout[p].amount
    <3>1. Total(PaidOut)' = AmountSum(payout', PaidOut \cup {p})
      <4>1. Total(PaidOut)' = AmountSum(payout', PaidOut')
        BY DEF Total, AmountSum, MapThenSumSet, MapThenFoldSet
      <4> QED
        BY <2>2, <4>1
    <3>2. \A q \in PaidOut \cup {p} : payout'[q].amount = payout[q].amount /\ payout[q].amount \in Nat
      BY <1>1, <1>4, <2>4, PaidFacts DEF PaidOut, With
    <3>3. IsFiniteSet(PaidOut \cup {p})
      BY PaidFacts, FS_AddElement
    <3>4. AmountSum(payout', PaidOut \cup {p}) = AmountSum(payout, PaidOut \cup {p})
      BY <3>2, <3>3, AmountSumCongruent
    <3>5. AmountSum(payout, PaidOut \cup {p}) = AmountSum(payout, PaidOut) + payout[p].amount
      <4>1. IsFiniteSet(PaidOut) /\ p \notin PaidOut
        BY <2>2, PaidFacts
      <4>2. \A q \in PaidOut \cup {p} : payout[q].amount \in Nat
        BY <3>2
      <4> QED
        BY <4>1, <4>2, AmountSumAdd
    <3> QED
      BY <3>1, <3>4, <3>5, PaidFacts
  <2>6. WithinShare'
    BY <2>3, <2>4, <2>5 DEF WithinShare, Covers
  <2>7. Forward
    <3>1. ASSUME NEW q \in Payouts, Exists(q)
          PROVE  /\ payout'[q].status # None
                 /\ payout[q].status \in Submittable => payout'[q].status \in Submittable
                 /\ payout'[q].status \notin Opened \/ (payout[q].status = payout'[q].status /\ q # p)
      <4>1. CASE q = p
        BY <1>1, <1>9, <4>1, StatusIsNotNone DEF Opened, Submittable
      <4>2. CASE q # p
        BY <1>1, <3>1, <4>2 DEF Exists
      <4> QED
        BY <4>1, <4>2
    <3>2. \A q \in Payouts \ {p} : payout[q].status \notin Opened
      BY <1>4, <1>6, <2>1
    <3> QED
      BY <1>5, <3>1, <3>2, PaidFacts DEF Forward, SunpayStep
  <2> QED
    BY <1>0, <1>2, <1>7, <1>8, <2>6, <2>7 DEF LedgerOK
<1>10. CASE new.status = "PAID" <=> old.status = "PAID"
  <2>1. PaidOut' = PaidOut
    BY <1>1, <1>10 DEF PaidOut, With
  <2>2. Total(PaidOut)' = Total(PaidOut)
    BY <1>5, <2>1, SamePaid
  <2>3. ASSUME NEW q \in With(Committed)'
        PROVE  Covers(q)'
    <3>1. q \in Payouts /\ payout'[q].status \in Committed
      BY <2>3 DEF With
    <3>2. Covers(q) /\ Exists(q)
      <4>1. CASE payout[q].status \in Committed
        BY <3>1, <4>1, StatusIsNotNone DEF IInv, WithinShare, With, Exists
      <4>2. CASE payout[q].status \notin Committed
        BY <1>1, <1>4, <3>1, <4>2 DEF Evolves, Opened, Committed, FinalStatuses
      <4> QED
        BY <4>1, <4>2
    <3> QED
      BY <1>5, <2>2, <3>1, <3>2 DEF Covers
  <2>4. WithinShare'
    BY <2>2, <2>3 DEF IInv, WithinShare
  <2>5. Forward
    <3>1. ASSUME NEW q \in Payouts, Exists(q)
          PROVE  /\ payout'[q].status # None
                 /\ payout[q].status \in Submittable => payout'[q].status \in Submittable
                 /\ payout'[q].status \in Opened => payout[q].status \in Opened
      BY <1>1, <1>4, <3>1, StatusIsNotNone DEF Exists, Evolves, Opened, Submittable, Committed, FinalStatuses
    <3> QED
      BY <1>5, <2>1, <3>1, PaidFacts DEF Forward, SunpayStep
  <2> QED
    BY <1>0, <1>2, <1>7, <1>8, <2>4, <2>5 DEF LedgerOK
<1> QED
  BY <1>4, <1>9, <1>10 DEF Evolves, FinalStatuses

LEMMA PayoutInserted ==
  ASSUME IInv, NEW p \in Payouts, ~Exists(p), \A q \in Payouts : ~payout[q].activeKey,
         NEW a \in Amounts, NEW n \in 0..LastCycle, NEW k \in Keys \cup {None},
         payout' = [payout EXCEPT ![p] =
                      [NoPayout EXCEPT !.status = "REQUESTED", !.amount = a, !.cycle = n,
                                       !.activeKey = TRUE, !.key = k]],
         UNCHANGED <<peak, remote>>
  PROVE  payout' \in [Payouts -> PayoutDoc] /\ Forward /\ LedgerOK' /\ LedgerStep
<1> DEFINE new == [NoPayout EXCEPT !.status = "REQUESTED", !.amount = a, !.cycle = n,
                                   !.activeKey = TRUE, !.key = k]
<1>1. /\ new \in PayoutDoc
      /\ new.status = "REQUESTED" /\ new.amount = a /\ new.activeKey = TRUE /\ new.source = None
  BY NoneIsNoPayoutData DEF NoPayout, PayoutDoc, Providers, PayoutStatus, ActiveStatuses
<1> HIDE DEF new
<1>2. payout' = [payout EXCEPT ![p] = new]
  BY DEF new
<1>3. /\ payout \in [Payouts -> PayoutDoc]
      /\ payout'[p] = new
      /\ \A q \in Payouts \ {p} : payout'[q] = payout[q]
      /\ payout' \in [Payouts -> PayoutDoc]
  BY <1>1, <1>2 DEF IInv, PayoutTypeOK
<1>4. \A q \in Payouts : Exists(q) => q # p /\ payout'[q] = payout[q]
  BY <1>3
<1>5. \A q \in Payouts : payout[q].status \notin ActiveStatuses
  BY DEF IInv, DocumentOK
<1>6. PaidOut' = PaidOut
  BY <1>1, <1>3, NoneIsNoPayoutData DEF PaidOut, With, Exists, PayoutStatus, FinalStatuses
<1>7. With(Committed)' = {}
  BY <1>1, <1>3, <1>5 DEF With, Committed, ActiveStatuses
<1>8. Total(PaidOut)' = Total(PaidOut)
  BY <1>4, <1>6, SamePaid
<1>9. WithinShare'
  BY <1>7, <1>8 DEF IInv, WithinShare
<1>10. OneActive'
  BY <1>3 DEF OneActive
<1>11. ASSUME NEW q \in Payouts PROVE DocumentOK(q)'
  <2>1. DocumentOK(q)
    BY DEF IInv
  <2>2. CASE q # p
    BY <1>3, <2>1, <2>2 DEF DocumentOK, Exists
  <2>3. CASE q = p
    <3>1. remote[p] = None
      BY <2>1, <2>3, StatusIsNotNone DEF DocumentOK, Exists
    <3> QED
      BY <1>1, <1>3, <2>3, <3>1, NoneIsNoPayoutData DEF DocumentOK, Exists, ActiveStatuses, PayoutStatus
  <2> QED
    BY <2>2, <2>3
<1>12. Forward
  <2>1. peak' >= peak
    BY PaidFacts
  <2> QED
    BY <1>4, <1>6, <2>1 DEF Forward, Exists
<1>13. LedgerStep
  BY <1>1, <1>2, LedgerOpened
<1> QED
  BY <1>3, <1>9, <1>10, <1>11, <1>12, <1>13 DEF LedgerOK

-----------------------------------------------------------------------------
(* One lemma per action.                                                   *)

LEMMA IdleTyped == Idle \in Call
<1>1. 0 \in 0..LastCycle
  BY PayoutAssumption
<1> QED
  BY <1>1 DEF Idle, Call, Steps

(* The ledger, apart from the calls, and what the acting call remembers.   *)
LEMMA CallTaken ==
  ASSUME IInv, NEW c \in Calls, NEW k \in Call, calls' = [calls EXCEPT ![c] = k],
         payout' \in [Payouts -> PayoutDoc], Forward, LedgerOK', LedgerStep,
         peak' \in Entitlements \cup {0}, cycle' \in 0..LastCycle,
         remote' \in [Payouts -> RemoteStatus \cup {None}],
         notified' \in [Payouts -> BOOLEAN],
         event' \in [Payouts -> WebhookEvent],
         faults' \in 0..MaxFaults,
         CallOK(c)'
  PROVE  IInv' /\ LedgerStep
<1>1. calls \in [Calls -> Call]
  BY DEF IInv, PayoutTypeOK
<1>2. PayoutTypeOK'
  BY <1>1 DEF PayoutTypeOK
<1>3. peak' \in Nat
  BY PayoutAssumption
<1>4. ASSUME NEW d \in Calls PROVE CallOK(d)'
  <2>1. CASE d = c
    BY <2>1
  <2>2. CASE d # c
    BY <1>1, <1>2, <1>3, <2>2, CallsKept
  <2> QED
    BY <2>1, <2>2
<1> QED
  BY <1>2, <1>4 DEF IInv, LedgerOK

(* A step that writes no payout.                                           *)
LEMMA PayoutsRead ==
  ASSUME IInv, NEW c \in Calls, NEW k \in Call, calls' = [calls EXCEPT ![c] = k],
         UNCHANGED <<payout, peak, remote>>, cycle' \in 0..LastCycle,
         notified' \in [Payouts -> BOOLEAN],
         event' \in [Payouts -> WebhookEvent],
         faults' \in 0..MaxFaults,
         CallOK(c)'
  PROVE  IInv' /\ LedgerStep
<1>1. /\ payout' \in [Payouts -> PayoutDoc] /\ peak' \in Entitlements \cup {0}
      /\ remote' \in [Payouts -> RemoteStatus \cup {None}]
  BY DEF IInv, PayoutTypeOK
<1>2. peak' \in Nat /\ peak' >= peak
  BY PaidFacts
<1>3. SunpayStep
  BY DEF SunpayStep
<1>4. Forward /\ LedgerOK' /\ LedgerStep
  BY <1>2, <1>3, PayoutsKept
<1> QED
  BY <1>1, <1>4, CallTaken

LEMMA ShareRead ==
  ASSUME IInv, NEW s \in Entitlements, ReadShare(s)
  PROVE  peak' \in Entitlements \cup {0} /\ peak' \in Nat /\ peak' >= peak /\ s <= peak' /\ s \in Nat
<1>1. s \in Nat /\ peak \in Nat
  BY PayoutAssumption, PaidFacts
<1>2. peak \in Entitlements \cup {0}
  BY DEF IInv, PayoutTypeOK
<1> QED
  BY <1>1, <1>2 DEF ReadShare

LEMMA RequestStep ==
  ASSUME IInv, NEW c \in Calls, NEW k \in Keys, Request(c, k)
  PROVE  IInv' /\ LedgerStep
<1>1. PICK s \in Entitlements :
        ReadShare(s) /\ calls' = [calls EXCEPT ![c] = [Idle EXCEPT !.at = "ledger", !.key = k, !.share = s]]
  BY DEF Request, Go
<1> DEFINE new == [Idle EXCEPT !.at = "ledger", !.key = k, !.share = s]
<1>2. new \in Call /\ new.at = "ledger"
  BY IdleTyped DEF Call, Steps
<1> HIDE DEF new
<1>3. UNCHANGED <<payout, cycle, remote, notified, event, faults>>
  BY DEF Request, provider
<1>4. Forward /\ LedgerOK' /\ LedgerStep
  BY <1>1, <1>3, ShareRead, PayoutsKept DEF SunpayStep
<1>5. calls' = [calls EXCEPT ![c] = new]
  BY <1>1 DEF new
<1>6. CallOK(c)'
  BY <1>2, <1>5 DEF IInv, PayoutTypeOK, CallOK
<1> QED
  BY <1>1, <1>2, <1>3, <1>4, <1>5, <1>6, ShareRead, CallTaken DEF IInv, PayoutTypeOK

(* What is offered to be requested is within the share that was read.      *)
LEMMA RequestableTyped ==
  ASSUME IInv, NEW share \in Entitlements \cup {0}, NEW a \in RequestableAmounts(share)
  PROVE  a \in Amounts
<1>1. IsFiniteSet(Reserved) /\ \A p \in Reserved : payout[p].amount \in Nat
  <2>1. Reserved \subseteq Payouts
    BY DEF Reserved, With
  <2>2. \A p \in Reserved : Exists(p)
    BY StatusIsNotNone DEF Reserved, With, Exists
  <2> QED
    BY <2>1, <2>2, PayoutAssumption, FS_Subset, PaidFacts
<1>2. Total(Reserved) = AmountSum(payout, Reserved)
  BY DEF Total, AmountSum
<1>3. AmountSum(payout, Reserved) \in Nat
  BY <1>1, AmountSumType
<1> DEFINE paid == Total(PaidOut)
           reserved == Total(Reserved)
<1>4. paid \in Nat /\ reserved \in Nat /\ share \in Nat
  BY <1>2, <1>3, PaidFacts, PayoutAssumption
<1>5. a \in 1..(IF paid + reserved <= share THEN share - (paid + reserved) ELSE 0)
  BY DEF RequestableAmounts, Available
<1> HIDE DEF paid, reserved
<1>6. a \in 1..share /\ share # 0
  BY <1>4, <1>5
<1> QED
  BY <1>6 DEF Amounts

LEMMA ReadLedgerStep ==
  ASSUME IInv, NEW c \in Calls, ReadLedger(c)
  PROVE  IInv' /\ LedgerStep
<1>1. UNCHANGED <<payout, peak, remote, notified, event, faults>>
  BY DEF ReadLedger, provider
<1>2. PICK now \in ReachableCycles :
        /\ cycle' = now
        /\ \/ \E a \in RequestableAmounts(calls[c].share) :
                Go(c, [Idle EXCEPT !.at = "insert", !.key = calls[c].key,
                                   !.amount = a, !.cycle = now])
           \/ Return(c)
  BY DEF ReadLedger
<1>3. cycle' \in 0..LastCycle /\ now \in 0..LastCycle
  <2>1. cycle \in 0..LastCycle /\ now \in cycle..LastCycle /\ cycle' = now
    BY <1>2 DEF ReachableCycles, IInv, PayoutTypeOK
  <2> QED
    BY <2>1, PayoutAssumption
<1>4. calls[c] \in Call
  BY DEF IInv, PayoutTypeOK
<1>5. CASE Return(c)
  <2>1. CallOK(c)'
    BY <1>5 DEF Return, Go, CallOK, Idle, IInv, PayoutTypeOK
  <2> QED
    BY <1>1, <1>3, <1>5, <2>1, IdleTyped, PayoutsRead DEF Return, Go, IInv, PayoutTypeOK
<1>6. CASE ~Return(c)
  <2>1. PICK a \in RequestableAmounts(calls[c].share) :
          Go(c, [Idle EXCEPT !.at = "insert", !.key = calls[c].key, !.amount = a, !.cycle = now])
    BY <1>2, <1>6
  <2> DEFINE new == [Idle EXCEPT !.at = "insert", !.key = calls[c].key, !.amount = a, !.cycle = now]
  <2>2. a \in Amounts
    BY <1>4, RequestableTyped DEF Call
  <2>3. new \in Call /\ new.at = "insert" /\ new.amount = a
    BY <1>3, <1>4, <2>2, IdleTyped DEF Call, Steps
  <2> HIDE DEF new
  <2>4. calls' = [calls EXCEPT ![c] = new]
    BY <2>1 DEF new, Go
  <2>5. CallOK(c)'
    BY <2>2, <2>3, <2>4 DEF CallOK, IInv, PayoutTypeOK
  <2> QED
    BY <1>1, <1>3, <2>3, <2>4, <2>5, PayoutsRead DEF IInv, PayoutTypeOK
<1> QED
  BY <1>5, <1>6

(* A call that returns having read only.                                   *)
LEMMA Returned ==
  ASSUME IInv, NEW c \in Calls, Return(c), UNCHANGED <<payout, peak, remote>>,
         cycle' \in 0..LastCycle, notified' \in [Payouts -> BOOLEAN],
         event' \in [Payouts -> WebhookEvent], faults' \in 0..MaxFaults
  PROVE  IInv' /\ LedgerStep
<1>1. calls' = [calls EXCEPT ![c] = Idle]
  BY DEF Return, Go
<1>2. CallOK(c)'
  BY <1>1 DEF CallOK, Idle, IInv, PayoutTypeOK
<1> QED
  BY <1>1, <1>2, IdleTyped, PayoutsRead

(* A call about a payout that exists, at a step that asks for no more.     *)
LEMMA OnItsWay ==
  ASSUME NEW c \in Calls, NEW k, calls'[c] = k, k.p \in Payouts, payout'[k.p].status # None,
         k.at \in {"reconcile", "fetch", "requeue", "claim", "processed", "failed"}
  PROVE  CallOK(c)'
BY DEF CallOK, Exists

LEMMA InsertStep ==
  ASSUME IInv, NEW c \in Calls, Insert(c)
  PROVE  IInv' /\ LedgerStep
<1>1. /\ Return(c)
      /\ UNCHANGED <<peak, cycle, remote, notified, event, faults>>
  BY DEF Insert, account, provider
<1>2. CASE UNCHANGED payout
  BY <1>1, <1>2, Returned DEF IInv, PayoutTypeOK
<1>3. CASE payout' # payout
  <2>1. Unique(c) /\ CallOK(c) /\ calls[c] \in Call /\ calls[c].at = "insert"
    BY <1>3 DEF Insert, IInv, PayoutTypeOK, At
  <2>2. PICK p \in Payouts :
          /\ ~Exists(p)
          /\ payout' = [payout EXCEPT ![p] =
                          [NoPayout EXCEPT !.status = "REQUESTED", !.amount = calls[c].amount,
                                           !.cycle = calls[c].cycle, !.activeKey = TRUE,
                                           !.key = calls[c].key]]
    BY <1>3 DEF Insert
  <2>3. /\ calls[c].amount \in Amounts
        /\ calls[c].cycle \in 0..LastCycle
        /\ calls[c].key \in Keys \cup {None}
    BY <2>1 DEF CallOK, Call
  <2>4. payout' \in [Payouts -> PayoutDoc] /\ Forward /\ LedgerOK' /\ LedgerStep
    BY <1>1, <2>1, <2>2, <2>3, PayoutInserted DEF Unique
  <2>5. calls' = [calls EXCEPT ![c] = Idle] /\ CallOK(c)'
    BY <1>1 DEF Return, Go, CallOK, Idle, IInv, PayoutTypeOK
  <2> QED
    BY <1>1, <2>4, <2>5, IdleTyped, CallTaken DEF IInv, PayoutTypeOK
<1> QED
  BY <1>2, <1>3

LEMMA ActStep ==
  ASSUME IInv, NEW p \in Payouts, NEW action \in Actions, Act(p, action)
  PROVE  IInv' /\ LedgerStep
<1>1. PICK named \in Providers : payout' = [payout EXCEPT ![p] = Applied(payout[p], action, named)]
  BY DEF Act, IInv, PayoutTypeOK
<1>2. /\ action # "APPROVE" /\ payout[p].status \in From(action)
      /\ UNCHANGED <<peak, cycle, remote, notified, event, calls, faults>>
  BY DEF Act, account, provider
<1>3. Exists(p)
  BY <1>2, NoneIsNoPayoutData DEF Exists, From, Actions, PayoutStatus, ActiveStatuses
<1> DEFINE new == Applied(payout[p], action, named)
<1>4. Evolves(payout[p], new, remote[p]) /\ new.status = To(action)
  BY <1>2, <1>3, SoundDocuments, AppliedEvolves
<1>5. new.status # "APPROVED"
  BY <1>2, <1>4 DEF To, Actions
<1> HIDE DEF new
<1>6. payout' \in [Payouts -> PayoutDoc] /\ Forward /\ LedgerOK' /\ LedgerStep
  BY <1>1, <1>2, <1>3, <1>4, <1>5, DocumentChanged DEF SunpayStep, new
<1>7. PayoutTypeOK' /\ peak' \in Nat
  BY <1>2, <1>6, PaidFacts DEF IInv, PayoutTypeOK
<1>8. \A c \in Calls : CallOK(c)'
  BY <1>2, <1>6, <1>7, CallsKept
<1> QED
  BY <1>6, <1>7, <1>8 DEF IInv, LedgerOK

LEMMA StartApprovalStep ==
  ASSUME IInv, NEW c \in Calls, NEW p \in Payouts, StartApproval(c, p)
  PROVE  IInv' /\ LedgerStep
<1> DEFINE new(s) == [Idle EXCEPT !.at = "approve", !.p = p, !.share = s,
                                  !.amount = payout[p].amount]
<1>1. PICK s \in Entitlements : ReadShare(s) /\ calls' = [calls EXCEPT ![c] = new(s)]
  BY DEF StartApproval, Go
<1>2. /\ UNCHANGED <<payout, cycle, remote, notified, event, faults>>
      /\ payout[p].status \in {"REQUESTED", "REVIEWING"}
  BY DEF StartApproval, provider, From
<1>3. payout[p].status # None /\ payout[p].amount \in Amounts
  BY <1>2, StatusIsNotNone DEF IInv, DocumentOK, Exists, Opened
<1>4. /\ new(s) \in Call /\ new(s).at = "approve" /\ new(s).p = p /\ new(s).share = s
      /\ new(s).amount = payout[p].amount
  BY <1>3, IdleTyped DEF Call, Steps
<1> HIDE DEF new
<1>5. Forward /\ LedgerOK' /\ LedgerStep
  BY <1>1, <1>2, ShareRead, PayoutsKept DEF SunpayStep
<1>6. CallOK(c)'
  <2>1. calls'[c] = new(s) /\ s <= peak'
    BY <1>1, ShareRead DEF IInv, PayoutTypeOK
  <2> QED
    BY <1>2, <1>3, <1>4, <2>1 DEF CallOK, Exists
<1> QED
  BY <1>1, <1>2, <1>4, <1>5, <1>6, ShareRead, CallTaken DEF IInv, PayoutTypeOK

(* What the call read covers the payout; nobody was paid since.            *)
LEMMA ReadPaidStep ==
  ASSUME IInv, NEW c \in Calls, ReadPaid(c)
  PROVE  IInv' /\ LedgerStep
<1>1. UNCHANGED <<payout, peak, cycle, remote, notified, event, faults>>
  BY DEF ReadPaid, account, provider
<1>2. CASE Return(c)
  BY <1>1, <1>2, Returned DEF IInv, PayoutTypeOK
<1>3. CASE Covered(c) /\ Go(c, [Idle EXCEPT !.at = "apply", !.p = calls[c].p])
  <2>1. CallOK(c) /\ calls[c] \in Call /\ calls[c].at = "approve"
    BY DEF IInv, PayoutTypeOK, ReadPaid, At
  <2>2. PICK p \in Payouts :
          /\ p = calls[c].p /\ payout[p].status # None
          /\ calls[c].amount = payout[p].amount /\ calls[c].share <= peak
    BY <2>1 DEF CallOK, Exists
  <2> DEFINE new == [Idle EXCEPT !.at = "apply", !.p = p]
  <2>3. Covers(p)
    <3>1. Total(PaidOut) \in Nat /\ payout[p].amount \in Nat /\ peak \in Nat
      BY <2>2, PaidFacts DEF Exists
    <3>2. calls[c].share \in Nat
      <4>1. calls[c].share \in Entitlements \cup {0}
        BY <2>1 DEF Call
      <4>2. Entitlements \cup {0} \subseteq Nat
        BY PayoutAssumption
      <4> QED
        BY <4>1, <4>2
    <3>3. Total(PaidOut) + calls[c].amount <= calls[c].share
      BY <1>3 DEF Covered
    <3> QED
      BY <2>2, <3>1, <3>2, <3>3 DEF Covers
  <2>4. new \in Call /\ new.at = "apply" /\ new.p = p
    BY <2>1, <2>2, IdleTyped DEF Call, Steps
  <2>5. calls' = [calls EXCEPT ![c] = new]
    BY <1>3, <2>2 DEF Go
  <2> HIDE DEF new
  <2>6. Covers(p)'
    <3>1. PaidOut' = PaidOut
      BY <1>1 DEF PaidOut, With
    <3>2. Total(PaidOut)' = Total(PaidOut)
      BY <1>1, <3>1, SamePaid
    <3> QED
      BY <1>1, <2>3, <3>2 DEF Covers
  <2>7. CallOK(c)'
    <3>1. calls'[c] = new
      BY <2>5 DEF IInv, PayoutTypeOK
    <3> QED
      BY <1>1, <2>2, <2>4, <2>6, <3>1 DEF CallOK, Exists
  <2> QED
    BY <1>1, <2>4, <2>5, <2>7, PayoutsRead DEF IInv, PayoutTypeOK
<1> QED
  BY <1>2, <1>3 DEF ReadPaid

LEMMA ApproveStep ==
  ASSUME IInv, NEW c \in Calls, Approve(c)
  PROVE  IInv' /\ LedgerStep
<1> DEFINE p == calls[c].p
<1>1. UNCHANGED <<peak, cycle, remote, notified, event, faults>>
  BY DEF Approve, account, provider
<1>2. CallOK(c) /\ calls[c] \in Call /\ calls[c].at = "apply" /\ p \in Payouts /\ Exists(p)
  BY DEF IInv, PayoutTypeOK, Approve, At, CallOK
<1>3. CASE Return(c) /\ UNCHANGED payout
  BY <1>1, <1>3, Returned DEF IInv, PayoutTypeOK
<1>4. ASSUME NEW named \in Providers, payout[p].status \in From("APPROVE"),
             payout' = [payout EXCEPT ![p] = Applied(payout[p], "APPROVE", named)],
             \/ Go(c, [Idle EXCEPT !.at = "execute", !.p = p])
             \/ Return(c)
      PROVE  IInv' /\ LedgerStep
  <2> DEFINE new == Applied(payout[p], "APPROVE", named)
  <2>1. Evolves(payout[p], new, remote[p]) /\ new.status = To("APPROVE")
    BY <1>2, <1>4, SoundDocuments, AppliedEvolves DEF Actions
  <2>2. new.status = "APPROVED"
    BY <2>1 DEF To
  <2>3. Covers(p)
    BY <1>2, <1>4 DEF CallOK, From, Opened
  <2> HIDE DEF new
  <2>4. payout' \in [Payouts -> PayoutDoc] /\ Forward /\ LedgerOK' /\ LedgerStep
    BY <1>1, <1>2, <1>4, <2>1, <2>3, DocumentChanged DEF SunpayStep, new
  <2>5. CASE Return(c)
    <3>1. calls' = [calls EXCEPT ![c] = Idle] /\ CallOK(c)'
      BY <2>5 DEF Return, Go, CallOK, Idle, IInv, PayoutTypeOK
    <3> QED
      BY <1>1, <2>4, <3>1, IdleTyped, CallTaken DEF IInv, PayoutTypeOK
  <2>6. CASE Go(c, [Idle EXCEPT !.at = "execute", !.p = p])
    <3> DEFINE k == [Idle EXCEPT !.at = "execute", !.p = p]
    <3>1. k \in Call /\ k.at = "execute" /\ k.p = p
      BY <1>2, IdleTyped DEF Call, Steps
    <3>2. calls' = [calls EXCEPT ![c] = k]
      BY <2>6 DEF Go
    <3> HIDE DEF k
    <3>3. payout'[p].status = "APPROVED"
      BY <1>2, <1>4, <2>2 DEF IInv, PayoutTypeOK, new
    <3>4. CallOK(c)'
      <4>1. calls'[c] = k
        BY <3>2 DEF IInv, PayoutTypeOK
      <4> QED
        BY <1>2, <3>1, <3>3, <4>1, StatusIsNotNone DEF CallOK, Exists, Submittable
    <3> QED
      BY <1>1, <2>4, <3>1, <3>2, <3>4, CallTaken DEF IInv, PayoutTypeOK
  <2> QED
    BY <1>4, <2>5, <2>6
<1> QED
  BY <1>3, <1>4, Zenon DEF Approve

(* A call that begins to execute a payout, or goes on to.                  *)
LEMMA ExecutionBegun ==
  ASSUME IInv, NEW c \in Calls, NEW p \in Payouts, Exists(p), Execution(c, p, payout[p]),
         UNCHANGED <<payout, peak, cycle, remote, notified, event, faults>>
  PROVE  IInv' /\ LedgerStep
<1> DEFINE k(step) == [Idle EXCEPT !.at = step, !.p = p]
<1>1. CASE Return(c)
  BY <1>1, Returned DEF IInv, PayoutTypeOK
<1>2. ASSUME NEW step \in {"reconcile", "submit"}, Go(c, k(step)),
             step = "submit" => payout[p].status = "APPROVED"
      PROVE  IInv' /\ LedgerStep
  <2>1. k(step) \in Call /\ k(step).at = step /\ k(step).p = p
    BY IdleTyped DEF Call, Steps
  <2>2. calls' = [calls EXCEPT ![c] = k(step)]
    BY <1>2 DEF Go
  <2> HIDE DEF k
  <2>3. CallOK(c)'
    <3>1. calls'[c] = k(step)
      BY <2>2 DEF IInv, PayoutTypeOK
    <3> QED
      BY <1>2, <2>1, <3>1 DEF CallOK, Exists, Submittable
  <2> QED
    BY <2>1, <2>2, <2>3, PayoutsRead DEF IInv, PayoutTypeOK
<1> QED
  BY <1>1, <1>2 DEF Execution

LEMMA ExecuteStep ==
  ASSUME IInv, NEW c \in Calls, Execute(c)
  PROVE  IInv' /\ LedgerStep
<1>1. calls[c].p \in Payouts /\ Exists(calls[c].p)
  BY DEF IInv, CallOK, Execute, At
<1> QED
  BY <1>1, ExecutionBegun DEF Execute, account, provider

LEMMA RetryExecutionStep ==
  ASSUME IInv, NEW c \in Calls, NEW p \in Payouts, RetryExecution(c, p)
  PROVE  IInv' /\ LedgerStep
<1>1. Exists(p)
  BY StatusIsNotNone DEF RetryExecution, Exists, Submittable
<1> QED
  BY <1>1, ExecutionBegun DEF RetryExecution, account, provider

(* A document that is written back as it was.                              *)
LEMMA SameEvolves ==
  ASSUME NEW doc, NEW r, Sound(doc, r)
  PROVE  Evolves(doc, doc, r)
BY DEF Evolves, Sound, PayoutDoc, Submittable, Committed, Opened

(* A call reads a payout that exists, and goes on to a step that asks for  *)
(* no more.                                                                *)
LEMMA WentOn ==
  ASSUME IInv, NEW c \in Calls, NEW k \in Call, Go(c, k),
         k.p \in Payouts, Exists(k.p),
         k.at \in {"reconcile", "fetch", "requeue", "claim", "processed", "failed"},
         UNCHANGED <<payout, peak, cycle, remote>>,
         notified' \in [Payouts -> BOOLEAN],
         event' \in [Payouts -> WebhookEvent], faults' \in 0..MaxFaults
  PROVE  IInv' /\ LedgerStep
<1>1. calls' = [calls EXCEPT ![c] = k]
  BY DEF Go
<1>2. calls'[c] = k
  BY <1>1 DEF IInv, PayoutTypeOK
<1>3. CallOK(c)'
  BY <1>2, OnItsWay DEF Exists
<1> QED
  BY <1>1, <1>3, PayoutsRead DEF IInv, PayoutTypeOK

(* A call writes a document and ends, or goes on with its payout.          *)
LEMMA Written ==
  ASSUME IInv, NEW c \in Calls, NEW p \in Payouts, Exists(p), NEW new,
         Evolves(payout[p], new, remote[p]),
         payout' = [payout EXCEPT ![p] = new],
         payout[p].status \in Opened /\ new.status = "APPROVED" => Covers(p),
         UNCHANGED <<peak, cycle, notified, event>>,
         SunpayStep, remote' \in [Payouts -> RemoteStatus \cup {None}],
         faults' \in 0..MaxFaults,
         NEW k \in Call, Go(c, k),
         k = Idle \/ (k.p = p /\ k.at \in {"reconcile", "processed", "failed"})
  PROVE  IInv' /\ LedgerStep
<1>1. payout' \in [Payouts -> PayoutDoc] /\ Forward /\ LedgerOK' /\ LedgerStep
  BY DocumentChanged
<1>2. calls' = [calls EXCEPT ![c] = k] /\ calls'[c] = k
  BY DEF Go, IInv, PayoutTypeOK
<1>3. payout'[p].status # None
  BY <1>1 DEF Forward
<1>4. CallOK(c)'
  <2>1. CASE k = Idle
    BY <1>2, <2>1 DEF CallOK, Idle
  <2>2. CASE k.p = p /\ k.at \in {"reconcile", "processed", "failed"}
    BY <1>2, <1>3, <2>2, OnItsWay
  <2> QED
    BY <2>1, <2>2
<1> QED
  BY <1>1, <1>2, <1>4, CallTaken DEF IInv, PayoutTypeOK

LEMMA Faulted ==
  ASSUME IInv, Fault
  PROVE  faults' \in 0..MaxFaults
BY PayoutAssumption DEF IInv, PayoutTypeOK, Fault

(* A call about a payout, at one of the steps after the payout is known.    *)
LEMMA Underway ==
  ASSUME IInv, NEW c \in Calls, calls[c].at \notin {"idle", "ledger", "insert"}
  PROVE  /\ calls[c] \in Call /\ CallOK(c)
         /\ calls[c].p \in Payouts /\ Exists(calls[c].p)
         /\ Sound(payout[calls[c].p], remote[calls[c].p])
         /\ payout \in [Payouts -> PayoutDoc]
         /\ \A step \in Steps : LET k == [calls[c] EXCEPT !.at = step] IN
              k \in Call /\ k.at = step /\ k.p = calls[c].p /\ k.remote = calls[c].remote
<1>1. calls[c] \in Call /\ CallOK(c) /\ payout \in [Payouts -> PayoutDoc]
  BY DEF IInv, PayoutTypeOK
<1>2. calls[c].p \in Payouts /\ Exists(calls[c].p)
  BY <1>1 DEF CallOK
<1>3. \A step \in Steps : LET k == [calls[c] EXCEPT !.at = step] IN
        k \in Call /\ k.at = step /\ k.p = calls[c].p /\ k.remote = calls[c].remote
  BY <1>1 DEF Call
<1> QED
  BY <1>1, <1>2, <1>3, SoundDocuments

(* The note of a failed attempt, written while Sunpay may have the payout.  *)
LEMMA FailureNoted ==
  ASSUME IInv, NEW c \in Calls, At(c, "submit"), NoteFailure(c),
         SunpayStep, remote' \in [Payouts -> RemoteStatus \cup {None}],
         faults' \in 0..MaxFaults, UNCHANGED <<peak, cycle, notified, event>>
  PROVE  IInv' /\ LedgerStep
<1>1. PICK p \in Payouts : p = calls[c].p /\ Exists(p) /\ Sound(payout[p], remote[p])
  BY Underway DEF At
<1> DEFINE new == IF payout[p].status = "APPROVED" THEN AtSunpay(payout[p]) ELSE payout[p]
<1>2. payout' = [payout EXCEPT ![p] = new] /\ Go(c, Idle)
  BY <1>1 DEF NoteFailure, Return, IInv, PayoutTypeOK
<1>3. Evolves(payout[p], new, remote[p])
  BY <1>1, AtSunpayEvolves, SameEvolves
<1>4. payout[p].status \in Opened => new.status # "APPROVED"
  BY <1>1 DEF Opened
<1> HIDE DEF new
<1> QED
  BY <1>1, <1>2, <1>3, <1>4, IdleTyped, Written

(* The payout is created at Sunpay, which is given approved payouts only.  *)
LEMMA SubmitStep ==
  ASSUME IInv, NEW c \in Calls, Submit(c)
  PROVE  IInv' /\ LedgerStep
<1>1. PICK p \in Payouts :
        /\ p = calls[c].p /\ Exists(p) /\ payout[p].status \in Submittable
        /\ calls[c] \in Call /\ calls[c].at = "submit"
  BY Underway DEF Submit, At, CallOK
<1>2. UNCHANGED <<peak, cycle, notified, event>>
  BY DEF Submit, account
<1>3. CASE CreatedAtSunpay(p)
  <2>1. /\ remote \in [Payouts -> RemoteStatus \cup {None}]
        /\ remote[p] = None /\ remote' = [remote EXCEPT ![p] = "PENDING"]
    BY <1>3 DEF CreatedAtSunpay, IInv, PayoutTypeOK
  <2>2. /\ remote' \in [Payouts -> RemoteStatus \cup {None}]
        /\ remote'[p] # None
        /\ \A q \in Payouts \ {p} : remote'[q] = remote[q]
    BY <2>1, NoneIsNoPayoutData DEF RemoteStatus
  <2>3. SunpayStep
    BY <1>1, <2>1, <2>2 DEF SunpayStep
  <2>4. CASE Fault /\ NoteFailure(c)
    BY <1>1, <1>2, <2>2, <2>3, <2>4, Faulted, FailureNoted DEF At
  <2>5. CASE Move(c, "submitted") /\ UNCHANGED <<payout, faults>>
    <3> DEFINE k == [calls[c] EXCEPT !.at = "submitted"]
    <3>1. k \in Call /\ k.at = "submitted" /\ k.p = p
      BY <1>1 DEF Call, Steps
    <3>2. calls' = [calls EXCEPT ![c] = k]
      BY <2>5 DEF Move, Go
    <3> HIDE DEF k
    <3>3. Forward /\ LedgerOK' /\ LedgerStep
      BY <1>2, <2>3, <2>5, PaidFacts, PayoutsKept
    <3>4. CallOK(c)'
      <4>1. calls'[c] = k
        BY <3>2 DEF IInv, PayoutTypeOK
      <4> QED
        BY <1>1, <2>2, <2>5, <3>1, <4>1 DEF CallOK, Exists
    <3> QED
      BY <1>2, <2>2, <2>5, <3>1, <3>2, <3>3, <3>4, CallTaken DEF IInv, PayoutTypeOK
  <2>6. CASE NoteFailure(c) /\ UNCHANGED <<remote, faults>>
    BY <2>1, <2>2, <2>6
  <2> QED
    BY <1>1, <1>3, <2>4, <2>5, <2>6 DEF Submit
<1>4. CASE NoteFailure(c) /\ UNCHANGED <<remote, faults>>
  <2>1. SunpayStep
    BY <1>4 DEF SunpayStep
  <2> QED
    BY <1>1, <1>2, <1>4, <2>1, FailureNoted DEF IInv, PayoutTypeOK, At
<1> QED
  BY <1>1, <1>3, <1>4 DEF Submit

LEMMA SubmittedStep ==
  ASSUME IInv, NEW c \in Calls, Submitted(c)
  PROVE  IInv' /\ LedgerStep
<1>1. PICK p \in Payouts :
        /\ p = calls[c].p /\ Exists(p) /\ Sound(payout[p], remote[p])
        /\ calls[c] \in Call
  BY Underway DEF Submitted, At
<1>2. UNCHANGED <<peak, cycle, remote, notified, event, faults>>
  BY DEF Submitted, account, provider
<1>3. CASE Return(c) /\ UNCHANGED payout
  BY <1>2, <1>3, Returned DEF IInv, PayoutTypeOK
<1> DEFINE new == [AtSunpay(payout[p]) EXCEPT !.status = "PROCESSING"]
           k == [calls[c] EXCEPT !.at = "reconcile"]
<1>4. CASE /\ payout[p].status = "APPROVED"
           /\ payout' = [payout EXCEPT ![p] = new]
           /\ Go(c, k)
  <2>1. k \in Call /\ k.p = p /\ k.at = "reconcile"
    BY <1>1 DEF Call, Steps
  <2>2. Evolves(payout[p], new, remote[p])
    BY <1>1, <1>4, ProcessingEvolves
  <2>3. payout[p].status \notin Opened
    BY <1>4 DEF Opened
  <2> HIDE DEF new, k
  <2>4. SunpayStep
    BY <1>2 DEF SunpayStep
  <2> QED
    BY <1>1, <1>2, <1>4, <2>1, <2>2, <2>3, <2>4, Written DEF IInv, PayoutTypeOK
<1> QED
  BY <1>1, <1>3, <1>4 DEF Submitted, Move, IInv, PayoutTypeOK

(* Where the call goes once the reconciliation has succeeded or failed.    *)
LEMMA Ended ==
  ASSUME IInv, NEW c \in Calls, calls[c].at \notin {"idle", "ledger", "insert"},
         Succeed(c) \/ Fail(c)
  PROVE  \E k \in Call : /\ Go(c, k)
                         /\ k = Idle \/ (k.p = calls[c].p /\ k.at \in {"processed", "failed"})
<1>1. \A step \in Steps : LET k == [calls[c] EXCEPT !.at = step] IN
        k \in Call /\ k.at = step /\ k.p = calls[c].p /\ k.remote = calls[c].remote
  BY Underway
<1> QED
  BY <1>1, IdleTyped DEF Succeed, Fail, Move, Return, Steps

LEMMA StartReconciliationStep ==
  ASSUME IInv, NEW c \in Calls, StartReconciliation(c)
  PROVE  IInv' /\ LedgerStep
<1>1. PICK p \in Payouts :
        p = calls[c].p /\ Exists(p) /\ calls[c] \in Call /\ calls[c].at = "reconcile"
  BY Underway DEF StartReconciliation, At
<1>2. UNCHANGED <<payout, peak, cycle, remote, notified, event, faults>>
  BY DEF StartReconciliation, account, provider
<1>3. CASE Move(c, "fetch")
  <2> DEFINE k == [calls[c] EXCEPT !.at = "fetch"]
  <2>1. k \in Call /\ k.p = p /\ k.at = "fetch" /\ Go(c, k)
    BY <1>1, <1>3 DEF Call, Steps, Move
  <2> HIDE DEF k
  <2> QED
    BY <1>1, <1>2, <2>1, WentOn DEF IInv, PayoutTypeOK
<1>4. CASE Succeed(c) \/ Fail(c)
  <2>1. PICK k \in Call : /\ Go(c, k)
                          /\ k = Idle \/ (k.p = p /\ k.at \in {"processed", "failed"})
    BY <1>1, <1>4, Ended
  <2>2. CASE k = Idle
    BY <1>2, <2>1, <2>2, Returned DEF Return, IInv, PayoutTypeOK
  <2>3. CASE k # Idle
    BY <1>1, <1>2, <2>1, <2>3, WentOn DEF IInv, PayoutTypeOK
  <2> QED
    BY <2>2, <2>3
<1> QED
  BY <1>3, <1>4 DEF StartReconciliation

LEMMA VerifyStatusStep ==
  ASSUME IInv, NEW c \in Calls, NEW p \in Payouts, VerifyStatus(c, p)
  PROVE  IInv' /\ LedgerStep
<1> DEFINE k == [Idle EXCEPT !.at = "fetch", !.p = p]
<1>1. k \in Call /\ k.p = p /\ k.at = "fetch" /\ Go(c, k)
  BY IdleTyped DEF Call, Steps, VerifyStatus
<1>2. Exists(p)
  BY StatusIsNotNone DEF VerifyStatus, Exists
<1> HIDE DEF k
<1> QED
  BY <1>1, <1>2, WentOn DEF VerifyStatus, account, provider, IInv, PayoutTypeOK

(* Sunpay's answer is read; a failed request assigns the payout to Sunpay. *)
LEMMA FetchStatusStep ==
  ASSUME IInv, NEW c \in Calls, FetchStatus(c)
  PROVE  IInv' /\ LedgerStep
<1>1. PICK p \in Payouts :
        /\ p = calls[c].p /\ Exists(p) /\ calls[c] \in Call /\ calls[c].at = "fetch"
        /\ Sound(payout[p], remote[p])
  BY Underway DEF FetchStatus, At
<1>2. UNCHANGED <<peak, cycle, remote, notified, event>>
  BY DEF FetchStatus, account, provider
<1> DEFINE k == [calls[c] EXCEPT !.at = "settle", !.remote = remote[p]]
<1>3. CASE remote[p] # None /\ Go(c, k) /\ UNCHANGED <<payout, faults>>
  <2>1. remote[p] \in RemoteStatus
    BY <1>3 DEF IInv, PayoutTypeOK
  <2>2. k \in Call /\ k.p = p /\ k.at = "settle" /\ k.remote = remote[p]
    BY <1>1, <2>1 DEF Call, Steps
  <2> HIDE DEF k
  <2>3. calls' = [calls EXCEPT ![c] = k]
    BY <1>3 DEF Go
  <2>4. CallOK(c)'
    <3>1. calls'[c] = k
      BY <2>3 DEF IInv, PayoutTypeOK
    <3> QED
      BY <1>1, <1>2, <1>3, <2>2, <3>1 DEF CallOK, Exists
  <2> QED
    BY <1>2, <1>3, <2>2, <2>3, <2>4, PayoutsRead DEF IInv, PayoutTypeOK
<1>4. CASE /\ IF remote[p] = None THEN UNCHANGED faults ELSE Fault
           /\ payout' = [payout EXCEPT ![p] = AtSunpay(payout[p])]
           /\ Fail(c)
  <2> DEFINE new == AtSunpay(payout[p])
  <2>1. PICK j \in Call : Go(c, j) /\ (j = Idle \/ (j.p = p /\ j.at \in {"processed", "failed"}))
    BY <1>1, <1>4, Ended
  <2>2. Evolves(payout[p], new, remote[p]) /\ new.status = payout[p].status
    BY <1>1, AtSunpayEvolves DEF AtSunpay, Sound, PayoutDoc
  <2>3. payout[p].status \in Opened => new.status # "APPROVED"
    BY <2>2 DEF Opened
  <2>4. faults' \in 0..MaxFaults
    BY <1>4, Faulted DEF IInv, PayoutTypeOK
  <2>5. SunpayStep
    BY <1>2 DEF SunpayStep
  <2> HIDE DEF new
  <2>6. payout' = [payout EXCEPT ![p] = new]
    BY <1>4 DEF new
  <2> QED
    BY <1>1, <1>2, <2>1, <2>2, <2>3, <2>4, <2>5, <2>6, Written DEF IInv, PayoutTypeOK
<1> QED
  BY <1>1, <1>3, <1>4 DEF FetchStatus, IInv, PayoutTypeOK

(* The answer is applied: what was read was pending, or is still the word. *)
LEMMA SettleStep ==
  ASSUME IInv, NEW c \in Calls, Settle(c)
  PROVE  IInv' /\ LedgerStep
<1>1. PICK p \in Payouts :
        /\ p = calls[c].p /\ Exists(p) /\ calls[c] \in Call /\ calls[c].at = "settle"
        /\ Sound(payout[p], remote[p])
        /\ remote[p] # None /\ calls[c].remote \in {"PENDING", remote[p]}
  BY Underway DEF Settle, At, CallOK
<1>2. UNCHANGED <<peak, cycle, remote, notified, event, faults>>
  BY DEF Settle, account, provider
<1> DEFINE new == IF SettleHolds(payout[p]) THEN Settled(payout[p], calls[c].remote) ELSE payout[p]
<1>3. payout' = [payout EXCEPT ![p] = new]
  BY <1>1 DEF Settle, IInv, PayoutTypeOK
<1>4. PICK k \in Call : Go(c, k) /\ (k = Idle \/ (k.p = p /\ k.at \in {"processed", "failed"}))
  BY <1>1, Ended DEF Settle
<1>5. calls[c].remote \in RemoteStatus
  BY <1>1 DEF IInv, PayoutTypeOK, RemoteStatus
<1>6. Evolves(payout[p], new, remote[p])
  BY <1>1, <1>5, SettledEvolves, SameEvolves
<1>7. payout[p].status \in Opened => new.status # "APPROVED"
  BY DEF Opened, SettleHolds
<1> HIDE DEF new
<1>8. SunpayStep
  BY <1>2 DEF SunpayStep
<1> QED
  BY <1>1, <1>2, <1>3, <1>4, <1>6, <1>7, <1>8, Written DEF IInv, PayoutTypeOK

(* Sunpay's webhooks: the event is stored, requeued, claimed and ended.    *)
LEMMA DeliverStep ==
  ASSUME IInv, NEW c \in Calls, NEW p \in Payouts, NEW r \in RemoteStatus, Deliver(c, p, r)
  PROVE  IInv' /\ LedgerStep
<1>1. UNCHANGED <<payout, peak, cycle, remote, faults>>
  BY DEF Deliver, account, Acknowledge, provider
<1>2. Exists(p)
  BY StatusIsNotNone DEF Deliver, IInv, DocumentOK, Exists
<1>3. /\ notified' \in [Payouts -> BOOLEAN]
      /\ event' \in [Payouts -> WebhookEvent]
  <2>1. event \in [Payouts -> WebhookEvent] /\ notified \in [Payouts -> BOOLEAN]
    BY DEF IInv, PayoutTypeOK
  <2>2. notified' \in [Payouts -> BOOLEAN]
    BY <2>1 DEF Deliver, Acknowledge, provider
  <2>3. [status |-> "RECEIVED", reported |-> r] \in WebhookEvent
    BY DEF WebhookEvent, EventStatus
  <2> QED
    BY <2>1, <2>2, <2>3 DEF Deliver
<1>4. \E k \in Call : Go(c, k) /\ k.p = p /\ k.at \in {"requeue", "claim"}
  <2>1. CASE Go(c, [Idle EXCEPT !.at = "claim", !.p = p])
    <3> DEFINE k == [Idle EXCEPT !.at = "claim", !.p = p]
    <3>1. k \in Call /\ k.p = p /\ k.at = "claim" /\ Go(c, k)
      BY <2>1, IdleTyped DEF Call, Steps
    <3> HIDE DEF k
    <3> QED
      BY <3>1
  <2>2. ASSUME NEW ended \in BOOLEAN,
               Go(c, [Idle EXCEPT !.at = "requeue", !.p = p, !.remote = r,
                        !.requeue = ShouldRequeue(event[p], r, ended)])
        PROVE  \E k \in Call : Go(c, k) /\ k.p = p /\ k.at \in {"requeue", "claim"}
    <3> DEFINE k == [Idle EXCEPT !.at = "requeue", !.p = p, !.remote = r,
                        !.requeue = ShouldRequeue(event[p], r, ended)]
    <3>1. ShouldRequeue(event[p], r, ended) \in BOOLEAN
      BY DEF ShouldRequeue
    <3>2. k \in Call /\ k.p = p /\ k.at = "requeue" /\ Go(c, k)
      BY <2>2, <3>1, IdleTyped DEF Call, Steps
    <3> HIDE DEF k
    <3> QED
      BY <3>2
  <2> QED
    BY <2>1, <2>2 DEF Deliver, Acknowledge
<1> QED
  BY <1>1, <1>2, <1>3, <1>4, WentOn DEF IInv, PayoutTypeOK

LEMMA RequeueEventStep ==
  ASSUME IInv, NEW c \in Calls, RequeueEvent(c)
  PROVE  IInv' /\ LedgerStep
<1>1. PICK p \in Payouts :
        p = calls[c].p /\ Exists(p) /\ calls[c] \in Call /\ calls[c].at = "requeue"
  BY Underway DEF RequeueEvent, At
<1>2. UNCHANGED <<payout, peak, cycle, remote, faults>>
  BY DEF RequeueEvent, account, Acknowledge
<1>3. calls[c].remote \in RemoteStatus \cup {None}
  BY <1>1 DEF Call
<1>4. /\ notified' \in [Payouts -> BOOLEAN]
      /\ event' \in [Payouts -> WebhookEvent]
  <2>1. event \in [Payouts -> WebhookEvent] /\ notified \in [Payouts -> BOOLEAN]
    BY DEF IInv, PayoutTypeOK
  <2>2. notified' \in [Payouts -> BOOLEAN]
    BY <1>1, <2>1 DEF RequeueEvent, Acknowledge
  <2>3. [status |-> IF calls[c].requeue THEN "RECEIVED" ELSE event[p].status,
         reported |-> calls[c].remote] \in WebhookEvent
    BY <1>3, <2>1 DEF WebhookEvent, EventStatus
  <2> QED
    BY <1>1, <2>1, <2>2, <2>3 DEF RequeueEvent
<1> DEFINE k == [Idle EXCEPT !.at = "claim", !.p = p]
<1>5. k \in Call /\ k.p = p /\ k.at = "claim" /\ Go(c, k)
  BY <1>1, IdleTyped DEF Call, Steps, RequeueEvent, Acknowledge
<1> HIDE DEF k
<1> QED
  BY <1>1, <1>2, <1>4, <1>5, WentOn DEF IInv, PayoutTypeOK

LEMMA ClaimStep ==
  ASSUME IInv, NEW c \in Calls, Claim(c)
  PROVE  IInv' /\ LedgerStep
<1>1. PICK p \in Payouts :
        p = calls[c].p /\ Exists(p) /\ calls[c] \in Call /\ calls[c].at = "claim"
  BY Underway DEF Claim, At
<1>2. UNCHANGED <<payout, peak, cycle, remote, notified, faults>>
  BY DEF Claim, account, provider
<1>3. event' \in [Payouts -> WebhookEvent]
  <2>1. event \in [Payouts -> WebhookEvent] /\ event[p] \in WebhookEvent
    BY DEF IInv, PayoutTypeOK
  <2> DEFINE new == [event[p] EXCEPT !.status = "PROCESSING"]
  <2>2. new \in WebhookEvent
    BY <2>1 DEF WebhookEvent, EventStatus
  <2>3. event' = event \/ event' = [event EXCEPT ![p] = new]
    BY <1>1, <2>1 DEF Claim
  <2> HIDE DEF new
  <2> QED
    BY <2>1, <2>2, <2>3
<1> DEFINE k == [Idle EXCEPT !.at = "reconcile", !.p = p, !.webhook = TRUE]
<1>4. CASE Return(c)
  BY <1>2, <1>3, <1>4, Returned DEF IInv, PayoutTypeOK
<1>5. CASE Go(c, k)
  <2>1. k \in Call /\ k.p = p /\ k.at = "reconcile"
    BY IdleTyped DEF Call, Steps
  <2> HIDE DEF k
  <2> QED
    BY <1>1, <1>2, <1>3, <1>5, <2>1, WentOn DEF IInv, PayoutTypeOK
<1> QED
  BY <1>1, <1>4, <1>5 DEF Claim

LEMMA EndProcessingStep ==
  ASSUME IInv, NEW c \in Calls, EndProcessing(c)
  PROVE  IInv' /\ LedgerStep
<1>1. event' \in [Payouts -> WebhookEvent]
  <2>1. PICK p \in Payouts : p = calls[c].p
    BY Underway DEF EndProcessing
  <2>2. event \in [Payouts -> WebhookEvent] /\ event[p] \in WebhookEvent
    BY DEF IInv, PayoutTypeOK
  <2> DEFINE end == IF At(c, "processed") THEN "PROCESSED" ELSE "FAILED"
             new == IF event[p].status = "PROCESSING" THEN [event[p] EXCEPT !.status = end]
                                                      ELSE event[p]
  <2>3. new \in WebhookEvent
    BY <2>2 DEF WebhookEvent, EventStatus
  <2>4. event' = [event EXCEPT ![p] = new]
    BY <2>1, <2>2 DEF EndProcessing
  <2> HIDE DEF new
  <2> QED
    BY <2>2, <2>3, <2>4
<1> QED
  BY <1>1, Returned DEF EndProcessing, account, provider, IInv, PayoutTypeOK

LEMMA SunpaySettlesStep ==
  ASSUME IInv, NEW p \in Payouts, SunpaySettles(p)
  PROVE  IInv' /\ LedgerStep
<1>1. PICK s \in RemoteFinal : remote[p] = "PENDING" /\ remote' = [remote EXCEPT ![p] = s]
  BY DEF SunpaySettles
<1>2. UNCHANGED <<payout, peak, cycle, notified, event, calls, faults>>
  BY DEF SunpaySettles, account
<1>3. remote' \in [Payouts -> RemoteStatus \cup {None}] /\ SunpayStep
  BY <1>1, NoneIsNoPayoutData DEF RemoteFinal, IInv, PayoutTypeOK, SunpayStep
<1>4. Forward /\ LedgerOK' /\ LedgerStep
  BY <1>2, <1>3, PaidFacts, PayoutsKept
<1>5. PayoutTypeOK' /\ peak' \in Nat
  BY <1>2, <1>3, PaidFacts DEF IInv, PayoutTypeOK
<1>6. \A c \in Calls : CallOK(c)'
  BY <1>2, <1>4, <1>5, CallsKept
<1> QED
  BY <1>4, <1>5, <1>6 DEF IInv, LedgerOK

LEMMA CrashStep ==
  ASSUME IInv, NEW c \in Calls, Crash(c)
  PROVE  IInv' /\ LedgerStep
BY Faulted, Returned DEF Crash, account, provider, IInv, PayoutTypeOK

-----------------------------------------------------------------------------
(* The invariant is inductive, and the theorems.                           *)

(* Nothing is paid at first.                                               *)
LEMMA EmptyTotal == Total({}) = 0
<1>1. Total({}) = AmountSum(payout, {}) /\ IsFiniteSet({})
  BY FS_EmptySet DEF Total, AmountSum
<1>2. AmountSum(payout, {}) = SumOf(<<>>, {})
  BY <1>1, FieldSum
<1>3. SumOf(<<>>, {}) = 0
  BY <1>1, SumRecursion
<1> QED
  BY <1>1, <1>2, <1>3

LEMMA InitInductive ==
  ASSUME Init
  PROVE  IInv /\ Ledger!Init
<1>1. \A p \in Payouts : payout[p] = NoPayout /\ remote[p] = None /\ ~Exists(p)
  BY DEF Init, NoPayout, Exists
<1>2. PayoutTypeOK
  <2>1. 0 \in 0..LastCycle /\ 0 \in 0..MaxFaults
    BY PayoutAssumption
  <2>2. NoPayout \in PayoutDoc /\ NoEvent \in WebhookEvent
    BY <2>1 DEF NoPayout, PayoutDoc, Providers, NoEvent, WebhookEvent
  <2> QED
    BY <2>1, <2>2, IdleTyped DEF Init, PayoutTypeOK
<1>3. \A p \in Payouts : DocumentOK(p)
  <2>1. /\ NoPayout.status \notin ActiveStatuses /\ NoPayout.activeKey = FALSE
        /\ NoPayout.source # "PROVIDER_VERIFIED"
    BY StatusIsNotNone, NoneIsNoPayoutData DEF NoPayout
  <2> QED
    BY <1>1, <2>1 DEF DocumentOK
<1>4. OneActive
  BY <1>1 DEF OneActive, NoPayout
<1>5. WithinShare
  <2>1. PaidOut = {} /\ With(Committed) = {}
    BY <1>1, StatusIsNotNone DEF PaidOut, With, NoPayout, FinalStatuses
  <2> QED
    BY <2>1, EmptyTotal DEF WithinShare, Init
<1>6. \A c \in Calls : CallOK(c)
  BY DEF Init, Idle, CallOK
<1>7. Ledger!Init
  <2>1. \A p \in Payouts : PhaseOf(payout[p].status) = "none" /\ payout[p].amount = None
    BY <1>1, PhaseOfStatus DEF NoPayout
  <2> QED
    BY <2>1 DEF Ledger!Init, Init
<1> QED
  BY <1>2, <1>3, <1>4, <1>5, <1>6, <1>7 DEF IInv

LEMMA StepInductive ==
  ASSUME IInv, [PayoutNext]_vars
  PROVE  IInv' /\ LedgerStep
<1>1. ASSUME NEW c \in Calls, Arrive(c)
      PROVE  IInv' /\ LedgerStep
  <2>1. ASSUME NEW k \in Keys, Request(c, k)
        PROVE  IInv' /\ LedgerStep
    BY <2>1, RequestStep
  <2>2. ASSUME NEW p \in Payouts, StartApproval(c, p)
        PROVE  IInv' /\ LedgerStep
    BY <2>2, StartApprovalStep
  <2>3. ASSUME NEW p \in Payouts, RetryExecution(c, p)
        PROVE  IInv' /\ LedgerStep
    BY <2>3, RetryExecutionStep
  <2>4. ASSUME NEW p \in Payouts, VerifyStatus(c, p) \/ OpenPage(c, p)
        PROVE  IInv' /\ LedgerStep
    BY <2>4, VerifyStatusStep DEF OpenPage
  <2>5. ASSUME NEW p \in Payouts, NEW r \in RemoteStatus, Deliver(c, p, r)
        PROVE  IInv' /\ LedgerStep
    BY <2>5, DeliverStep
  <2> QED
    BY <1>1, <2>1, <2>2, <2>3, <2>4, <2>5 DEF Arrive
<1>2. ASSUME NEW c \in Calls, Proceed(c)
      PROVE  IInv' /\ LedgerStep
  BY <1>2, ReadLedgerStep, InsertStep, ReadPaidStep, ApproveStep, ExecuteStep, SubmitStep,
     SubmittedStep, StartReconciliationStep, FetchStatusStep, SettleStep, RequeueEventStep,
     ClaimStep, EndProcessingStep DEF Proceed
<1>3. ASSUME NEW p \in Payouts, NEW action \in Actions, Act(p, action)
      PROVE  IInv' /\ LedgerStep
  BY <1>3, ActStep
<1>4. ASSUME NEW p \in Payouts, SunpaySettles(p)
      PROVE  IInv' /\ LedgerStep
  BY <1>4, SunpaySettlesStep
<1>5. ASSUME NEW c \in Calls, Crash(c)
      PROVE  IInv' /\ LedgerStep
  BY <1>5, CrashStep
<1>6. CASE UNCHANGED vars
  <2>1. UNCHANGED <<payout, peak, cycle, remote, notified, event, calls, faults>>
    BY <1>6 DEF vars
  <2>2. SunpayStep /\ peak' \in Nat /\ peak' >= peak
    BY <2>1, PaidFacts DEF SunpayStep
  <2>3. Forward /\ LedgerOK' /\ LedgerStep
    BY <2>1, <2>2, PayoutsKept
  <2>4. PayoutTypeOK'
    BY <2>1 DEF IInv, PayoutTypeOK
  <2>5. \A c \in Calls : CallOK(c)'
    BY <2>1, <2>2, <2>3, <2>4, CallsKept
  <2> QED
    BY <2>3, <2>4, <2>5 DEF IInv, LedgerOK
<1> QED
  BY <1>1, <1>2, <1>3, <1>4, <1>5, <1>6 DEF PayoutNext

(* The invariant holds of every run, whether or not the scheduling is fair.*)
THEOREM PayoutsInductive == PayoutSafetySpec => []IInv
<1>1. Init => IInv
  BY InitInductive
<1>2. IInv /\ [PayoutNext]_vars => IInv'
  BY StepInductive
<1> QED
  BY <1>1, <1>2, PTL DEF PayoutSafetySpec

(* The documents, Sunpay's records, the events and the calls have their    *)
(* types: no write invents a status or loses an amount.                    *)
THEOREM PayoutsTyped == PayoutSafetySpec => []PayoutTypeOK
<1>1. IInv => PayoutTypeOK
  BY DEF IInv
<1> QED
  BY <1>1, PayoutsInductive, PTL

(* The reservation of the unique index is there exactly while the payout   *)
(* is active, whoever ends it (payoutRequest.model.js).                    *)
THEOREM ReservationsHeld == PayoutSafetySpec => []ReservedWhileActive
<1>1. IInv => ReservedWhileActive
  BY DEF IInv, DocumentOK, ReservedWhileActive
<1> QED
  BY <1>1, PayoutsInductive, PTL

(* A payout recorded as paid on Sunpay's word was paid there in full, and  *)
(* Sunpay was given approved payouts only (payoutExecution.service.js).    *)
THEOREM SunpayBelieved == PayoutSafetySpec => []SunpayWordIsTrue
<1>1. IInv => SunpayWordIsTrue
  BY DEF IInv, DocumentOK, SunpayWordIsTrue, Submittable
<1> QED
  BY <1>1, PayoutsInductive, PTL

(* What is paid or on its way stays within the largest share an admin's    *)
(* approval can have read (payoutAdmin.service.js).                        *)
THEOREM PayoutsCovered == PayoutSafetySpec => []NeverOvercommitted
<1>1. ASSUME IInv PROVE NeverOvercommitted
  <2> DEFINE Due == With({"APPROVED", "PROCESSING", "SENT", "PAID"})
  <2>1. Due = PaidOut \cup With(Committed)
    BY DEF PaidOut, With, Committed
  <2>2. CASE With(Committed) = {}
    BY <1>1, <2>1, <2>2 DEF IInv, WithinShare, NeverOvercommitted
  <2>3. CASE With(Committed) # {}
    <3>1. PICK p \in Payouts : payout[p].status \in Committed
      BY <2>3 DEF With
    <3>2. With(Committed) = {p}
      BY <1>1, <3>1 DEF IInv, DocumentOK, OneActive, With, Committed, ActiveStatuses
    <3>3. p \notin PaidOut /\ Exists(p)
      BY <3>1, StatusIsNotNone DEF PaidOut, With, Committed, Exists
    <3>4. Total(PaidOut \cup {p}) = Total(PaidOut) + payout[p].amount
      <4>1. IsFiniteSet(PaidOut) /\ \A q \in PaidOut \cup {p} : payout[q].amount \in Nat
        BY <1>1, <3>3, PaidFacts
      <4>2. AmountSum(payout, PaidOut \cup {p}) = AmountSum(payout, PaidOut) + payout[p].amount
        BY <3>3, <4>1, AmountSumAdd
      <4> QED
        BY <4>2 DEF Total, AmountSum
    <3>5. Covers(p)
      BY <1>1, <3>2 DEF IInv, WithinShare
    <3> QED
      BY <2>1, <3>2, <3>4, <3>5 DEF Covers, NeverOvercommitted
  <2> QED
    BY <2>2, <2>3
<1> QED
  BY <1>1, PayoutsInductive, PTL

(* The racing, crashing and repeated calls implement the ledger.           *)
THEOREM PayoutsImplementLedger == PayoutSafetySpec => ImplementsLedger
<1>1. Init => Ledger!Init
  BY InitInductive
<1>2. IInv /\ [PayoutNext]_vars => [Ledger!Next]_(Ledger!vars)
  BY StepInductive DEF LedgerStep
<1> QED
  BY <1>1, <1>2, PayoutsInductive, PTL DEF PayoutSafetySpec, ImplementsLedger, Ledger!Spec
=============================================================================
