------------------------- MODULE StateEngineProofs -------------------------
(* Proofs about StateEngine, for every value of its constants.              *)
EXTENDS StateEngine, TLAPS, FiniteSetTheorems

-----------------------------------------------------------------------------
(* What one event does to an account.                                      *)

(* The parts of an account no event of the engine changes.                 *)
SameIdentity(old, new) ==
  /\ new.version = old.version
  /\ new.accountMode = old.accountMode
  /\ new.challengeType = old.challengeType

Consistent(acc) == ShutWhenBreached(acc) /\ PendingCommandValid(acc)

Evolves(old, new) ==
  /\ MetricsForward(old, new)
  /\ StaysBreached(old, new)
  /\ KeepsEvidence(old, new)

(* A legal outcome of handling an event on the account `acc`.              *)
Legal(acc, new) ==
  /\ new \in AccountDoc
  /\ SameIdentity(acc, new)
  /\ Consistent(new)
  /\ Evolves(acc, new)

(* Leaving the account as it is is legal.                                  *)
LEMMA SameAccountLegal ==
  ASSUME NEW acc \in AccountDoc, Consistent(acc)
  PROVE  Legal(acc, acc)
BY DEF Legal, SameIdentity, Consistent, Evolves, MetricsForward,
  StaysBreached, KeepsEvidence, ShutWhenBreached, AccountDoc, Valuation

(* Two legal outcomes in a row are one.                                    *)
LEMMA LegalTransitive ==
  ASSUME NEW a \in AccountDoc, NEW b, NEW c, Legal(a, b), Legal(b, c)
  PROVE  Legal(a, c)
<1>1. MetricsForward(a, c)
  BY DEF Legal, Evolves, MetricsForward, AccountDoc, Valuation
<1>2. StaysBreached(a, c)
  BY DEF Legal, Evolves, StaysBreached
<1>3. KeepsEvidence(a, c)
  BY DEF Legal, Evolves, KeepsEvidence
<1>4. SameIdentity(a, c)
  BY DEF Legal, SameIdentity
<1> QED
  BY <1>1, <1>2, <1>3, <1>4 DEF Legal, Evolves

(* A deal only counts.                                                     *)
LEMMA DealLegal ==
  ASSUME NEW acc \in AccountDoc, Consistent(acc),
         NEW e \in EventDoc, NEW n \in Nat
  PROVE  Legal(acc, DealOutcome(acc, e, n))
<1> DEFINE d == IF e.opens THEN n ELSE acc.tradingDays
           t == IF e.closes THEN acc.totalTrades + 1 ELSE acc.totalTrades
<1>1. d \in Nat /\ t \in Nat
  BY DEF AccountDoc
<1>2. DealOutcome(acc, e, n) = [acc EXCEPT !.tradingDays = d, !.totalTrades = t]
  BY DEF DealOutcome
<1> HIDE DEF d, t
<1> DEFINE new == [acc EXCEPT !.tradingDays = d, !.totalTrades = t]
<1>3. new \in AccountDoc
  BY <1>1 DEF AccountDoc
<1>4. SameIdentity(acc, new)
  BY DEF SameIdentity, AccountDoc
<1>5. Consistent(new)
  BY DEF Consistent, ShutWhenBreached, PendingCommandValid, CommandStillValid, AccountDoc
<1>6. Evolves(acc, new)
  BY DEF Consistent, Evolves, MetricsForward, StaysBreached, KeepsEvidence,
     ShutWhenBreached, AccountDoc, Valuation
<1> QED
  BY <1>2, <1>3, <1>4, <1>5, <1>6 DEF Legal

(* New metrics with a stamp, when they are not older than the last stamp.  *)
LEMMA StampedMetricsLegal ==
  ASSUME NEW acc \in AccountDoc, Consistent(acc), NEW e \in EventDoc,
         ~OlderThanLastAuthoritativeSnapshot(acc, e)
  PROVE  Legal(acc, Stamp(ApplyMetrics(acc, e), e))
<1> DEFINE q == IF e.sequence = NoSequence THEN acc.lastSnapshotSequence ELSE e.sequence
           v == [level |-> e.level, at |-> e.at]
           new == [acc EXCEPT !.valuation = v, !.lastSnapshotAt = e.at,
                              !.lastSnapshotSequence = q]
<1>1. q \in Nat /\ v \in Valuation /\ e.at \in Nat
  BY DEF AccountDoc, EventDoc, Valuation, SequenceNumbers
<1>2. Stamp(ApplyMetrics(acc, e), e) = new
  BY DEF Stamp, ApplyMetrics, AccountDoc
<1>3. /\ e.at >= acc.lastSnapshotAt
      /\ e.at = acc.lastSnapshotAt => q >= acc.lastSnapshotSequence
  BY DEF OlderThanLastAuthoritativeSnapshot, NotNewer, AccountDoc, EventDoc,
     SequenceNumbers, NoSequence
<1> HIDE DEF q, v
<1>4. v.at = e.at
  BY DEF v
<1>5. new \in AccountDoc
  BY <1>1 DEF AccountDoc
<1>6. SameIdentity(acc, new)
  BY DEF SameIdentity, AccountDoc
<1>7. Consistent(new)
  BY DEF Consistent, ShutWhenBreached, PendingCommandValid, CommandStillValid, AccountDoc
<1>8. Evolves(acc, new)
  BY <1>1, <1>3, <1>4 DEF Consistent, Evolves, MetricsForward, StaysBreached,
     KeepsEvidence, ShutWhenBreached, AccountDoc, Valuation
<1> QED
  BY <1>2, <1>5, <1>6, <1>7, <1>8 DEF Legal

(* A control event's metrics: stamped with its evidence, or unstamped.     *)
LEMMA ControlMetricsLegal ==
  ASSUME NEW acc \in AccountDoc, Consistent(acc), NEW e \in EventDoc
  PROVE  Legal(acc, ControlMetrics(acc, e))
<1>1. CASE ~e.metrics \/ ControlMetricsOlder(acc, e)
  BY <1>1, SameAccountLegal DEF ControlMetrics
<1>2. CASE e.metrics /\ ~ControlMetricsOlder(acc, e) /\ e.evidence
  <2>1. [e EXCEPT !.sequence = IF e.evidence THEN @ ELSE NoSequence] = e
    BY <1>2 DEF EventDoc
  <2>2. ~OlderThanLastAuthoritativeSnapshot(acc, e)
    BY <1>2, <2>1 DEF ControlMetricsOlder, OlderThanLastAuthoritativeSnapshot
  <2> QED
    BY <1>2, <2>2, StampedMetricsLegal DEF ControlMetrics
<1>3. CASE e.metrics /\ ~ControlMetricsOlder(acc, e) /\ ~e.evidence
  <2> DEFINE v == [level |-> e.level, at |-> e.at]
             new == [acc EXCEPT !.valuation = v]
  <2>1. ControlMetrics(acc, e) = new
    BY <1>3 DEF ControlMetrics, ApplyMetrics
  <2>2. v \in Valuation /\ v.at = e.at
    BY DEF EventDoc, Valuation
  <2>3. e.at >= acc.lastSnapshotAt
    BY <1>3 DEF ControlMetricsOlder, NotNewer, AccountDoc, EventDoc
  <2> HIDE DEF v
  <2>4. new \in AccountDoc
    BY <2>2 DEF AccountDoc
  <2>5. SameIdentity(acc, new)
    BY DEF SameIdentity, AccountDoc
  <2>6. Consistent(new)
    BY DEF Consistent, ShutWhenBreached, PendingCommandValid, CommandStillValid, AccountDoc
  <2>7. Evolves(acc, new)
    BY <2>2, <2>3 DEF Consistent, Evolves, MetricsForward, StaysBreached,
       KeepsEvidence, ShutWhenBreached, AccountDoc, Valuation
  <2> QED
    BY <2>1, <2>4, <2>5, <2>6, <2>7 DEF Legal
<1> QED
  BY <1>1, <1>2, <1>3

(* The status a control event reports for the record.                      *)
LEMMA RecordStatusLegal ==
  ASSUME NEW acc \in AccountDoc, Consistent(acc), NEW e \in EventDoc
  PROVE  Legal(acc, RecordStatus(acc, e))
<1>1. CASE acc.platformStatus[e.platformAccountId] = None
  BY <1>1, SameAccountLegal DEF RecordStatus
<1>2. CASE acc.platformStatus[e.platformAccountId] # None
  <2> DEFINE s == [acc.platformStatus EXCEPT ![e.platformAccountId] = e.status]
             new == [acc EXCEPT !.platformStatus = s]
  <2>1. RecordStatus(acc, e) = new
    BY <1>2 DEF RecordStatus
  <2>2. s \in [PlatformIds -> PlatformStatus \cup {None}]
    BY DEF AccountDoc, EventDoc
  <2> HIDE DEF s
  <2>3. new \in AccountDoc
    BY <2>2 DEF AccountDoc
  <2>4. SameIdentity(acc, new)
    BY DEF SameIdentity, AccountDoc
  <2>5. Consistent(new)
    BY DEF Consistent, ShutWhenBreached, PendingCommandValid, CommandStillValid, AccountDoc
  <2>6. Evolves(acc, new)
    BY DEF Consistent, Evolves, MetricsForward, StaysBreached,
       KeepsEvidence, ShutWhenBreached, AccountDoc, Valuation
  <2> QED
    BY <2>1, <2>3, <2>4, <2>5, <2>6 DEF Legal
<1> QED
  BY <1>1, <1>2

(* A Trader breach shuts the account whatever it was doing.                *)
LEMMA ControlBreachedLegal ==
  ASSUME NEW acc \in AccountDoc, Consistent(acc), NEW e \in EventDoc
  PROVE  Legal(acc, ControlBreached(acc, e))
<1> DEFINE b == IF ShouldReplaceBreachRecord(acc.breach, ControlBreach(e))
                THEN ControlBreach(e) ELSE acc.breach
           k == IF acc.accountMode = "DEMO" THEN FALSE ELSE acc.activeTrialKey
           r == IF acc.accountMode = "DEMO" THEN "BREACHED" ELSE acc.trialResult
           new == [acc EXCEPT !.status = "BREACHED", !.enabled = FALSE,
                              !.commandPending = None, !.lifecycleOperation = None,
                              !.activeTrialKey = k, !.trialResult = r, !.breach = b]
<1>1. ControlBreached(acc, e) = new
  <2>1. CASE acc.accountMode = "DEMO"
    BY <2>1 DEF ControlBreached, EndTrial, AccountDoc
  <2>2. CASE acc.accountMode # "DEMO"
    BY <2>2 DEF ControlBreached, EndTrial, AccountDoc
  <2> QED
    BY <2>1, <2>2
<1>2. ControlBreach(e) \in BreachRecord
  BY DEF ControlBreach, BreachReason, BreachRecord, EventDoc
<1>3. b \in BreachRecord
  BY <1>2 DEF ShouldReplaceBreachRecord, AccountDoc
<1>4. acc.breach # None /\ b # acc.breach
        => b.source = "TRADER_TRIGGER" /\ acc.breach.source # "TRADER_TRIGGER"
  BY DEF ShouldReplaceBreachRecord
<1>5. /\ k \in BOOLEAN
      /\ r \in TrialResults \cup {None}
      /\ acc.accountMode = "DEMO" => ~k /\ r = "BREACHED"
  BY DEF AccountDoc, TrialResults
<1>6. b # None
  BY <1>3, NoneIsNoData
<1> HIDE DEF b, k, r
<1>7. new \in AccountDoc
  BY <1>3, <1>5 DEF AccountDoc, AccountStatus
<1>8. SameIdentity(acc, new)
  BY DEF SameIdentity, AccountDoc
<1>9. Consistent(new)
  BY <1>5, <1>6 DEF Consistent, ShutWhenBreached, PendingCommandValid,
     CommandStillValid, AccountDoc
<1>10. Evolves(acc, new)
  BY <1>4, <1>6 DEF Consistent, Evolves, MetricsForward, StaysBreached,
     KeepsEvidence, ShutWhenBreached, AccountDoc, Valuation
<1> QED
  BY <1>1, <1>7, <1>8, <1>9, <1>10 DEF Legal

(* A decision is taken on undecided accounts only, and its command is one  *)
(* the command worker will accept.                                         *)
LEMMA DecisionCases ==
  ASSUME NEW acc \in AccountDoc
  PROVE  LET d == ResolveDecision(acc)
         IN  \/ d = NoDecision
             \/ /\ acc.status \notin Decided
                /\ d = [status |-> "BREACHED", command |-> "LOCK_ACCOUNT"]
             \/ /\ acc.status \notin Decided
                /\ d.status \in {"PASSED", "FUNDED_REVIEW"}
                /\ d.command \in Commands
                /\ d.status = "FUNDED_REVIEW" => d.command = "ENTER_FUNDED_REVIEW"
                /\ d.status = "PASSED" =>
                     \/ d.command = "CREATE_PHASE_2_ACCOUNT" /\ acc.challengeType = "TWO_STEP"
                     \/ d.command = "COMPLETE_TRIAL" /\ acc.accountMode = "DEMO"
BY DEF ResolveDecision, PhasePassed, Commands

(* A snapshot beyond a loss limit.                                         *)
LEMMA BreachDecisionLegal ==
  ASSUME NEW acc \in AccountDoc, Consistent(acc), NEW e \in EventDoc,
         acc.status \notin Decided,
         ResolveDecision(acc) = [status |-> "BREACHED", command |-> "LOCK_ACCOUNT"]
  PROVE  Legal(acc, Decide(acc, e))
<1> DEFINE b == IF acc.breach = None THEN SnapshotBreach(e) ELSE acc.breach
           k == IF acc.accountMode = "DEMO" THEN FALSE ELSE acc.activeTrialKey
           r == IF acc.accountMode = "DEMO" THEN "BREACHED" ELSE acc.trialResult
           new == [acc EXCEPT !.status = "BREACHED", !.enabled = FALSE,
                              !.commandPending = "LOCK_ACCOUNT",
                              !.lifecycleOperation = None,
                              !.activeTrialKey = k, !.trialResult = r, !.breach = b]
<1>1. Decide(acc, e) = new
  <2> DEFINE decided == [acc EXCEPT !.status = "BREACHED", !.enabled = FALSE,
                                    !.commandPending = "LOCK_ACCOUNT"]
  <2>1. Decide(acc, e) = SnapshotBreached(decided, e)
    BY DEF Decide, NoDecision
  <2>2. CASE acc.accountMode = "DEMO"
    <3>1. SnapshotBreached(decided, e) = new
      BY <2>2 DEF SnapshotBreached, EndTrial, AccountDoc
    <3> QED
      BY <2>1, <3>1
  <2>3. CASE acc.accountMode # "DEMO"
    <3>1. SnapshotBreached(decided, e) = new
      BY <2>3 DEF SnapshotBreached, EndTrial, AccountDoc
    <3> QED
      BY <2>1, <3>1
  <2> QED
    BY <2>2, <2>3
<1>2. SnapshotBreach(e) \in BreachRecord
  BY DEF SnapshotBreach, BreachReason, BreachRecord, EventDoc
<1>3. b \in BreachRecord /\ b # None
  BY <1>2, NoneIsNoData DEF AccountDoc
<1>4. acc.breach # None => b = acc.breach
  OBVIOUS
<1>5. /\ k \in BOOLEAN
      /\ r \in TrialResults \cup {None}
      /\ acc.accountMode = "DEMO" => ~k /\ r = "BREACHED"
  BY DEF AccountDoc, TrialResults
<1> HIDE DEF b, k, r
<1>6. new \in AccountDoc
  BY <1>3, <1>5 DEF AccountDoc, AccountStatus, Commands
<1>7. SameIdentity(acc, new)
  BY DEF SameIdentity, AccountDoc
<1>8. Consistent(new)
  BY <1>3, <1>5 DEF Consistent, ShutWhenBreached, PendingCommandValid,
     CommandStillValid, AccountDoc
<1>9. Evolves(acc, new)
  BY <1>3, <1>4 DEF Consistent, Evolves, MetricsForward, StaysBreached,
     KeepsEvidence, ShutWhenBreached, AccountDoc, Valuation
<1> QED
  BY <1>1, <1>6, <1>7, <1>8, <1>9 DEF Legal

(* Whatever a snapshot decides.                                            *)
LEMMA DecideLegal ==
  ASSUME NEW acc \in AccountDoc, Consistent(acc), NEW e \in EventDoc
  PROVE  Legal(acc, Decide(acc, e))
<1> DEFINE d == ResolveDecision(acc)
<1>1. CASE d = NoDecision
  BY <1>1, SameAccountLegal DEF Decide
<1>2. CASE acc.status \notin Decided
             /\ d = [status |-> "BREACHED", command |-> "LOCK_ACCOUNT"]
  BY <1>2, BreachDecisionLegal
<1>3. CASE /\ acc.status \notin Decided
           /\ d.status \in {"PASSED", "FUNDED_REVIEW"}
           /\ d.command \in Commands
           /\ d.status = "FUNDED_REVIEW" => d.command = "ENTER_FUNDED_REVIEW"
           /\ d.status = "PASSED" =>
                \/ d.command = "CREATE_PHASE_2_ACCOUNT" /\ acc.challengeType = "TWO_STEP"
                \/ d.command = "COMPLETE_TRIAL" /\ acc.accountMode = "DEMO"
  <2> DEFINE new == [acc EXCEPT !.status = d.status, !.enabled = FALSE,
                                !.commandPending = d.command]
  <2>1. Decide(acc, e) = new
    BY <1>3 DEF Decide, NoDecision
  <2> HIDE DEF d
  <2>2. new \in AccountDoc
    BY <1>3 DEF AccountDoc, AccountStatus
  <2>3. SameIdentity(acc, new)
    BY DEF SameIdentity, AccountDoc
  <2>4. Consistent(new)
    BY <1>3 DEF Consistent, ShutWhenBreached, PendingCommandValid,
       CommandStillValid, AccountDoc
  <2>5. Evolves(acc, new)
    BY <1>3 DEF Consistent, Evolves, MetricsForward, StaysBreached, KeepsEvidence,
       ShutWhenBreached, AccountDoc, Valuation, Decided
  <2> QED
    BY <2>1, <2>2, <2>3, <2>4, <2>5 DEF Legal
<1> QED
  BY <1>1, <1>2, <1>3, DecisionCases

(* A snapshot that applies.                                                *)
LEMMA SnapshotLegal ==
  ASSUME NEW acc \in AccountDoc, Consistent(acc), NEW e \in EventDoc,
         e.type = "SNAPSHOT", ~Ignored(acc, e)
  PROVE  Legal(acc, SnapshotOutcome(acc, e))
<1> DEFINE valued == Stamp(ApplyMetrics(acc, e), e)
<1>1. Legal(acc, valued)
  BY StampedMetricsLegal DEF Ignored
<1>2. valued \in AccountDoc /\ Consistent(valued)
  BY <1>1 DEF Legal
<1> HIDE DEF valued
<1>3. Legal(valued, Decide(valued, e))
  BY <1>2, DecideLegal
<1>4. Legal(acc, Decide(valued, e))
  BY <1>1, <1>3, LegalTransitive
<1> QED
  BY <1>1, <1>4 DEF SnapshotOutcome, valued

(* A control event, whatever it reports.                                   *)
LEMMA ControlLegal ==
  ASSUME NEW acc \in AccountDoc, Consistent(acc), NEW e \in EventDoc
  PROVE  Legal(acc, ControlOutcome(acc, e))
<1> DEFINE metrics == ControlMetrics(acc, e)
           controlled == RecordStatus(metrics, e)
<1>1. Legal(acc, metrics)
  BY ControlMetricsLegal
<1>2. metrics \in AccountDoc /\ Consistent(metrics)
  BY <1>1 DEF Legal
<1> HIDE DEF metrics
<1>3. Legal(metrics, controlled)
  BY <1>2, RecordStatusLegal
<1>4. Legal(acc, controlled)
  BY <1>1, <1>3, LegalTransitive
<1>5. controlled \in AccountDoc /\ Consistent(controlled)
  BY <1>3 DEF Legal
<1> HIDE DEF controlled
<1>6. Legal(controlled, ControlBreached(controlled, e))
  BY <1>5, ControlBreachedLegal
<1>7. Legal(acc, ControlBreached(controlled, e))
  BY <1>4, <1>6, LegalTransitive
<1> QED
  BY <1>4, <1>7 DEF ControlOutcome, metrics, controlled

-----------------------------------------------------------------------------
(* The inductive invariant. A worker holds a copy of the account that was  *)
(* current when it was read; as every commit increments the version, a     *)
(* copy with the account's version is the account. This is what makes the  *)
(* compare-and-set on the version enough: it needs no other guard.         *)
Handling == {"handle", "count", "save", "send"}

InFlight(w) ==
  pc[w] \in Handling =>
    /\ event[w] \in Events
    /\ read[w] \in AccountDoc
    /\ read[w].version <= account.version
    /\ read[w].version = account.version => read[w] = account
    /\ pc[w] = "send" => toSend[w] \in Commands

(* The part of it that types what the worker holds.                        *)
Carries(w) ==
  pc[w] \in Handling =>
    /\ event[w] \in Events
    /\ read[w] \in AccountDoc
    /\ pc[w] = "send" => toSend[w] \in Commands

IInv ==
  /\ TypeOK
  /\ IsFiniteSet(dayRows)
  /\ Consistent(account)
  /\ \A w \in Workers : InFlight(w)

WorkersTyped ==
  /\ job \in [Events -> [state : JobStates, retries : Nat]]
  /\ pc \in [Workers -> {"idle", "load", "handle", "count", "save", "send"}]
  /\ todo \in [Workers -> SUBSET Events]
  /\ done \in [Workers -> SUBSET Events]
  /\ read \in [Workers -> AccountDoc \cup {None}]
  /\ event \in [Workers -> Events \cup {None}]
  /\ days \in [Workers -> Nat]
  /\ toSend \in [Workers -> Commands \cup {None}]

OthersUnchanged(w) ==
  \A v \in Workers \ {w} :
    /\ pc'[v] = pc[v]
    /\ read'[v] = read[v]
    /\ event'[v] = event[v]
    /\ toSend'[v] = toSend[v]

(* The account is as it was, or a commit made a new version of it.         *)
AccountKept == account' = account

AccountCommitted ==
  /\ account' \in AccountDoc
  /\ Consistent(account)'
  /\ account'.version = account.version + 1
  /\ Evolves(account, account')

(* What is in flight at a worker stays right when the account stays as it  *)
(* is, or gets a new version.                                              *)
LEMMA InFlightKept ==
  ASSUME IInv, NEW w \in Workers, OthersUnchanged(w), InFlight(w)',
         AccountKept \/ AccountCommitted
  PROVE  \A v \in Workers : InFlight(v)'
<1> SUFFICES ASSUME NEW v \in Workers, v # w
             PROVE  InFlight(v)'
  OBVIOUS
<1>1. InFlight(v) /\ account \in AccountDoc
  BY DEF IInv, TypeOK
<1>2. pc'[v] = pc[v] /\ read'[v] = read[v] /\ event'[v] = event[v] /\ toSend'[v] = toSend[v]
  BY DEF OthersUnchanged
<1>3. CASE AccountKept
  BY <1>1, <1>2, <1>3 DEF InFlight, AccountKept
<1>4. CASE AccountCommitted
  <2> SUFFICES ASSUME pc'[v] \in Handling
               PROVE  InFlight(v)'
    BY DEF InFlight
  <2>1. /\ event[v] \in Events /\ read[v] \in AccountDoc
        /\ read[v].version <= account.version
        /\ pc[v] = "send" => toSend[v] \in Commands
    BY <1>1, <1>2 DEF InFlight
  <2>2. read[v].version \in Nat /\ account.version \in Nat
    BY <1>1, <2>1 DEF AccountDoc
  <2>3. read[v].version < account'.version
    BY <1>4, <2>1, <2>2 DEF AccountCommitted
  <2> QED
    BY <1>2, <2>1, <2>2, <2>3, <1>4 DEF InFlight, AccountCommitted
<1> QED
  BY <1>3, <1>4

(* A worker that finishes an event or fails its batch lets go of its copy. *)
LEMMA FinishLetsGo ==
  ASSUME TypeOK, NEW w \in Workers, event[w] \in Events, FinishEvent(w)
  PROVE  WorkersTyped' /\ OthersUnchanged(w) /\ InFlight(w)'
<1>1. PICK next \in {"idle", "load"} : Forget(w, next)
  BY DEF FinishEvent
<1>2. /\ pc' \in [Workers -> {"idle", "load", "handle", "count", "save", "send"}]
      /\ read' \in [Workers -> AccountDoc \cup {None}]
      /\ event' \in [Workers -> Events \cup {None}]
      /\ days' \in [Workers -> Nat]
      /\ toSend' \in [Workers -> Commands \cup {None}]
  BY <1>1 DEF Forget, TypeOK
<1>3. /\ todo' \in [Workers -> SUBSET Events]
      /\ done' \in [Workers -> SUBSET Events]
  BY DEF FinishEvent, TypeOK
<1>4. job' \in [Events -> [state : JobStates, retries : Nat]]
  BY DEF FinishEvent, TypeOK, JobStates
<1>5. OthersUnchanged(w) /\ pc'[w] \in {"idle", "load"}
  BY <1>1 DEF Forget, OthersUnchanged, TypeOK
<1> QED
  BY <1>2, <1>3, <1>4, <1>5 DEF WorkersTyped, InFlight, Handling

(* A job given back to the queue is a job.                                 *)
LEMMA RetriedTyped ==
  ASSUME NEW j \in [state : JobStates, retries : Nat], NEW e
  PROVE  Retried(j, e) \in [state : JobStates, retries : Nat]
BY DEF Retried, JobStates

(* A worker that fails its batch holds no copy.                            *)
LEMMA FailLetsGo ==
  ASSUME TypeOK, NEW w \in Workers, FailBatch(w)
  PROVE  WorkersTyped' /\ OthersUnchanged(w) /\ InFlight(w)'
<1>1. /\ pc' \in [Workers -> {"idle", "load", "handle", "count", "save", "send"}]
      /\ read' \in [Workers -> AccountDoc \cup {None}]
      /\ event' \in [Workers -> Events \cup {None}]
      /\ days' \in [Workers -> Nat]
      /\ toSend' \in [Workers -> Commands \cup {None}]
      /\ todo' \in [Workers -> SUBSET Events]
      /\ done' \in [Workers -> SUBSET Events]
  BY DEF FailBatch, Forget, TypeOK
<1>2. job' \in [Events -> [state : JobStates, retries : Nat]]
  BY RetriedTyped DEF FailBatch, TypeOK
<1>3. OthersUnchanged(w) /\ pc'[w] = "idle"
  BY DEF FailBatch, Forget, OthersUnchanged, TypeOK
<1> QED
  BY <1>1, <1>2, <1>3 DEF WorkersTyped, InFlight, Handling

(* A guarded commit writes the outcome of the account as it is.            *)
LEMMA CommitIsLegal ==
  ASSUME IInv, NEW w \in Workers, pc[w] \in Handling, NEW next,
         Legal(read[w], next), GuardHolds(w), Commit(w, next)
  PROVE  AccountCommitted
<1>1. read[w] = account /\ account \in AccountDoc /\ event[w] \in EventDoc
  BY EventsAssumption DEF IInv, InFlight, GuardHolds, TypeOK
<1> DEFINE marked == [next EXCEPT !.lastProcessedEventId = event[w].id]
<1>2. next \in AccountDoc /\ SameIdentity(account, next)
  BY <1>1 DEF Legal
<1>3. marked \in AccountDoc /\ SameIdentity(account, marked)
  BY <1>1, <1>2 DEF AccountDoc, EventDoc, SameIdentity
<1>4. WriteModified(account, account, marked) = marked
  BY <1>1, <1>3 DEF WriteModified, AccountDoc, SameIdentity
<1> DEFINE new == [next EXCEPT !.lastProcessedEventId = event[w].id,
                               !.version = account.version + 1]
<1>5. account' = new
  BY <1>1, <1>4 DEF Commit
<1>6. account.version + 1 \in Nat /\ event[w].id \in EventIds
  BY <1>1 DEF AccountDoc, EventDoc
<1>7. new \in AccountDoc /\ new.version = account.version + 1
  BY <1>2, <1>6 DEF AccountDoc
<1>8. Consistent(new)
  BY <1>2, <1>1 DEF Legal, Consistent, ShutWhenBreached, PendingCommandValid,
     CommandStillValid, AccountDoc
<1>9. Evolves(account, new)
  BY <1>1, <1>2 DEF Legal, Evolves, MetricsForward, StaysBreached, KeepsEvidence, AccountDoc
<1> QED
  BY <1>5, <1>7, <1>8, <1>9 DEF AccountCommitted, Consistent, ShutWhenBreached, PendingCommandValid,
     CommandStillValid

(* What a step of worker w has to show for the invariant.                  *)
WorkerStepSound(w) ==
  /\ AccountKept \/ AccountCommitted
  /\ WorkersTyped'
  /\ OthersUnchanged(w)
  /\ InFlight(w)'

(* The conditional save of a legal outcome, whether it succeeds or         *)
(* conflicts.                                                              *)
LEMMA SaveSound ==
  ASSUME IInv, NEW w \in Workers, pc[w] \in {"handle", "save"},
         NEW next, Legal(read[w], next),
         NEW command \in Commands \cup {None},
         SaveConditional(w, next, command)
  PROVE  WorkerStepSound(w)
<1>1. TypeOK /\ event[w] \in Events /\ pc[w] \in Handling
  BY DEF IInv, InFlight, Handling
<1>2. CASE GuardHolds(w) /\ Commit(w, next)
  <2>1. AccountCommitted
    BY <1>1, <1>2, CommitIsLegal
  <2>2. CASE command = None /\ FinishEvent(w)
    BY <1>1, <2>1, <2>2, FinishLetsGo DEF WorkerStepSound
  <2>3. CASE /\ command # None
             /\ pc' = [pc EXCEPT ![w] = "send"]
             /\ toSend' = [toSend EXCEPT ![w] = command]
             /\ UNCHANGED <<job, todo, done, read, event, days>>
    <3>1. WorkersTyped' /\ OthersUnchanged(w)
      BY <1>1, <2>3 DEF TypeOK, WorkersTyped, OthersUnchanged
    <3>2. pc'[w] = "send" /\ toSend'[w] = command
      BY <1>1, <2>3 DEF TypeOK
    <3>3. /\ event[w] \in Events
          /\ read[w] \in AccountDoc
          /\ read[w].version = account.version
          /\ account \in AccountDoc
      BY <1>1, <1>2 DEF IInv, InFlight, GuardHolds, TypeOK
    <3>4. read[w].version < account'.version
      BY <2>1, <3>3 DEF AccountCommitted, AccountDoc
    <3>5. read[w].version \in Nat /\ account'.version \in Nat
      BY <2>1, <3>3 DEF AccountCommitted, AccountDoc
    <3>6. InFlight(w)'
      BY <2>3, <3>2, <3>3, <3>4, <3>5 DEF InFlight
    <3> QED
      BY <2>1, <3>1, <3>6 DEF WorkerStepSound
  <2> QED
    BY <1>2, <2>2, <2>3 DEF SaveConditional, GuardHolds
<1>3. CASE FailBatch(w) /\ UNCHANGED account
  BY <1>1, <1>3, FailLetsGo DEF WorkerStepSound, AccountKept
<1> QED
  BY <1>2, <1>3 DEF SaveConditional

(* Every action in which a worker handles its event.                       *)
LEMMA WorkerActionsSound ==
  ASSUME IInv, NEW w \in Workers,
         TakeBatch(w) \/ WorkerStep(w) \/ SendFails(w) \/ Crash(w)
  PROVE  WorkerStepSound(w)
<1> USE DEF Handling
<1>0. TypeOK /\ InFlight(w) /\ Consistent(account) /\ account \in AccountDoc
  BY DEF IInv, TypeOK
<1>1. CASE TakeBatch(w)
  <2>1. PICK B \in Batches :
          /\ job' = [e \in Events |-> IF e \in B THEN [job[e] EXCEPT !.state = "active"] ELSE job[e]]
          /\ todo' = [todo EXCEPT ![w] = B]
    BY <1>1 DEF TakeBatch
  <2>2. B \subseteq Events
    BY DEF Batches
  <2>3. job' \in [Events -> [state : JobStates, retries : Nat]]
    BY <1>0, <2>1 DEF TypeOK, JobStates
  <2>4. pc' = [pc EXCEPT ![w] = "load"] /\ UNCHANGED <<account, done, read, event, days, toSend>>
    BY <1>1 DEF TakeBatch
  <2>5. WorkersTyped' /\ OthersUnchanged(w) /\ pc'[w] = "load"
    BY <1>0, <2>1, <2>2, <2>3, <2>4 DEF WorkersTyped, TypeOK, OthersUnchanged
  <2> QED
    BY <2>4, <2>5 DEF WorkerStepSound, InFlight, AccountKept
<1>2. CASE Load(w)
  <2>1. PICK e \in todo[w] : /\ event' = [event EXCEPT ![w] = e]
                             /\ todo' = [todo EXCEPT ![w] = todo[w] \ {e}]
    BY <1>2 DEF Load
  <2>2. /\ read' = [read EXCEPT ![w] = account]
        /\ pc' = [pc EXCEPT ![w] = "handle"]
        /\ UNCHANGED <<account, job, done, days, toSend>>
    BY <1>2 DEF Load
  <2>3. e \in Events
    BY <1>0 DEF TypeOK
  <2>4. WorkersTyped' /\ OthersUnchanged(w)
    BY <1>0, <2>1, <2>2, <2>3 DEF WorkersTyped, TypeOK, OthersUnchanged
  <2>5. pc'[w] = "handle" /\ event'[w] = e /\ read'[w] = account /\ account' = account
    BY <1>0, <2>1, <2>2 DEF TypeOK
  <2>6. InFlight(w)'
    BY <1>0, <2>3, <2>5 DEF InFlight, AccountDoc
  <2> QED
    BY <2>4, <2>5, <2>6 DEF WorkerStepSound, AccountKept
<1>3. CASE HandleDuplicate(w)
  <2>1. event[w] \in Events /\ read[w] \in AccountDoc /\ account' = account
    BY <1>0, <1>3 DEF InFlight, HandleDuplicate
  <2>2. CASE FinishEvent(w)
    BY <1>0, <2>1, <2>2, FinishLetsGo DEF WorkerStepSound, AccountKept
  <2>3. CASE /\ read[w].commandPending # None
             /\ pc' = [pc EXCEPT ![w] = "send"]
             /\ toSend' = [toSend EXCEPT ![w] = read[w].commandPending]
             /\ UNCHANGED <<job, todo, done, read, event, days>>
    <3>1. read[w].commandPending \in Commands
      BY <2>1, <2>3 DEF AccountDoc
    <3>2. WorkersTyped' /\ OthersUnchanged(w)
      BY <1>0, <2>3, <3>1 DEF WorkersTyped, TypeOK, OthersUnchanged
    <3>3. InFlight(w)'
      BY <1>0, <1>3, <2>1, <2>3, <3>1 DEF InFlight, TypeOK, HandleDuplicate
    <3> QED
      BY <2>1, <3>2, <3>3 DEF WorkerStepSound, AccountKept
  <2> QED
    BY <1>3, <2>2, <2>3 DEF HandleDuplicate
<1>4. CASE HandleIgnored(w) \/ HandleControl(w) \/ HandleDeal(w) \/ HandleSnapshot(w)
  <2>1. pc[w] \in {"handle", "save"} /\ event[w] \in Events /\ event[w] \in EventDoc /\ read[w] \in AccountDoc
    BY <1>0, <1>4, EventsAssumption DEF InFlight, HandleIgnored, HandleControl,
       HandleDeal, HandleSnapshot, Applies
  <2>2. days[w] \in Nat
    BY <1>0 DEF TypeOK
  <2>3. CASE ~GuardHolds(w)
    <3>1. FailBatch(w) /\ UNCHANGED account
      BY <1>4, <2>3 DEF HandleIgnored, HandleControl, HandleDeal, HandleSnapshot, SaveConditional
    <3> QED
      BY <1>0, <3>1, FailLetsGo DEF WorkerStepSound, AccountKept
  <2>4. CASE GuardHolds(w)
    <3>1. Consistent(read[w])
      BY <1>0, <2>1, <2>4 DEF InFlight, GuardHolds
    <3>2. CASE HandleIgnored(w)
      BY <2>1, <3>1, <3>2, SameAccountLegal, SaveSound DEF HandleIgnored
    <3>3. CASE HandleControl(w)
      BY <2>1, <3>1, <3>3, ControlLegal, SaveSound DEF HandleControl
    <3>4. CASE HandleDeal(w)
      BY <2>1, <2>2, <3>1, <3>4, DealLegal, SaveSound DEF HandleDeal
    <3>5. CASE HandleSnapshot(w)
      <4>1. Legal(read[w], SnapshotOutcome(read[w], event[w]))
        BY <2>1, <3>1, <3>5, SnapshotLegal DEF HandleSnapshot, Applies
      <4>2. Stamp(ApplyMetrics(read[w], event[w]), event[w]) \in AccountDoc
        BY <2>1, <3>1, <3>5, StampedMetricsLegal DEF HandleSnapshot, Applies, Ignored, Legal
      <4>3. SnapshotCommand(read[w], event[w]) \in Commands \cup {None}
        BY <4>2, DecisionCases DEF SnapshotCommand, NoDecision, Commands
      <4> QED
        BY <2>1, <3>5, <4>1, <4>3, SaveSound DEF HandleSnapshot
    <3> QED
      BY <1>4, <3>2, <3>3, <3>4, <3>5
  <2> QED
    BY <2>3, <2>4
<1>5. CASE RecordTradingDay(w)
  <2>1. /\ pc[w] = "handle" /\ pc' = [pc EXCEPT ![w] = "count"]
        /\ UNCHANGED <<account, job, todo, done, read, event, days, toSend>>
    BY <1>5 DEF RecordTradingDay, Applies, DayRowOf
  <2>2. WorkersTyped' /\ OthersUnchanged(w)
    BY <1>0, <2>1 DEF WorkersTyped, TypeOK, OthersUnchanged
  <2>3. InFlight(w)'
    BY <1>0, <2>1 DEF InFlight, TypeOK
  <2> QED
    BY <2>1, <2>2, <2>3 DEF WorkerStepSound, AccountKept
<1>6. CASE CountTradingDays(w)
  <2>1. /\ pc[w] = "count" /\ pc' = [pc EXCEPT ![w] = "save"]
        /\ UNCHANGED <<account, job, todo, done, read, event, toSend>>
    BY <1>6 DEF CountTradingDays
  <2> DEFINE rows == RowsFor(read[w].currentPhase, event[w].platformAccountId)
  <2>2. IsFiniteSet(rows)
    BY FS_Subset DEF IInv, RowsFor
  <2>3. Cardinality(rows) \in Nat
    BY <2>2, FS_CardinalityType
  <2>4. days' = [days EXCEPT ![w] = Cardinality(rows)]
    BY <1>6 DEF CountTradingDays
  <2>5. WorkersTyped' /\ OthersUnchanged(w)
    BY <1>0, <2>1, <2>3, <2>4 DEF WorkersTyped, TypeOK, OthersUnchanged
  <2>6. InFlight(w)'
    BY <1>0, <2>1 DEF InFlight, TypeOK
  <2> QED
    BY <2>1, <2>5, <2>6 DEF WorkerStepSound, AccountKept
<1>7. CASE SendCommand(w)
  BY <1>0, <1>7, FinishLetsGo DEF SendCommand, InFlight, WorkerStepSound, AccountKept
<1>8. CASE SendFails(w)
  BY <1>0, <1>8, FailLetsGo DEF SendFails, WorkerStepSound, AccountKept
<1>9. CASE Crash(w)
  <2>1. /\ Forget(w, "idle")
        /\ done' = [done EXCEPT ![w] = {}]
        /\ todo' = [todo EXCEPT ![w] = {}]
        /\ account' = account
    BY <1>9 DEF Crash
  <2>2. job' \in [Events -> [state : JobStates, retries : Nat]]
    BY <1>0, <1>9, RetriedTyped DEF Crash, TypeOK, JobStates
  <2>3. WorkersTyped' /\ OthersUnchanged(w) /\ pc'[w] = "idle"
    BY <1>0, <2>1, <2>2 DEF WorkersTyped, TypeOK, OthersUnchanged, Forget
  <2> QED
    BY <2>1, <2>3 DEF WorkerStepSound, InFlight, AccountKept
<1> QED
  BY <1>1, <1>2, <1>3, <1>4, <1>5, <1>6, <1>7, <1>8, <1>9 DEF WorkerStep

-----------------------------------------------------------------------------
(* The theorems.                                                           *)

LEMMA InitInductive == EngineInit => IInv
<1> SUFFICES ASSUME EngineInit
             PROVE  IInv
  OBVIOUS
<1>1. TypeOK
  BY InitialAccountsAssumption, EngineBoundsAssumption DEF EngineInit, TypeOK, JobStates
<1>2. IsFiniteSet(dayRows)
  BY FS_EmptySet DEF EngineInit
<1>3. Consistent(account)
  BY InitialAccountsAssumption DEF EngineInit, Consistent
<1>4. \A w \in Workers : InFlight(w)
  BY DEF EngineInit, InFlight, Handling
<1> QED
  BY <1>1, <1>2, <1>3, <1>4 DEF IInv

(* What the steps outside the workers' own state keep typed.               *)
QueuesTyped ==
  /\ dayRows \in SUBSET DayRow
  /\ IsFiniteSet(dayRows)
  /\ commandQueue \in [Commands -> 0..MaxQueued]
  /\ sweep \in Commands \cup {None}
  /\ faults \in 0..MaxFaults

(* Sending a command keeps the queue's type.                               *)
LEMMA EnqueueTyped ==
  ASSUME TypeOK, NEW c \in Commands, Enqueue(c)
  PROVE  commandQueue' \in [Commands -> 0..MaxQueued]
BY EngineBoundsAssumption DEF Enqueue, TypeOK

(* Every action of a worker keeps the command queue, the rows and the      *)
(* faults typed.                                                           *)
LEMMA WorkerQueuesTyped ==
  ASSUME TypeOK, IsFiniteSet(dayRows), NEW w \in Workers, Carries(w),
         TakeBatch(w) \/ WorkerStep(w) \/ SendFails(w) \/ Crash(w)
  PROVE  QueuesTyped'
<1>0. TypeOK /\ IsFiniteSet(dayRows) /\ Carries(w)
  OBVIOUS
<1>1. CASE \/ TakeBatch(w) \/ Load(w) \/ HandleDuplicate(w) \/ HandleIgnored(w)
           \/ HandleControl(w) \/ HandleDeal(w) \/ HandleSnapshot(w) \/ CountTradingDays(w)
  <2>1. UNCHANGED <<dayRows, commandQueue, sweep, faults>>
    BY <1>1 DEF TakeBatch, Load, HandleDuplicate, HandleIgnored, HandleControl,
       HandleDeal, HandleSnapshot, CountTradingDays, SaveConditional
  <2> QED
    BY <1>0, <2>1 DEF QueuesTyped, TypeOK
<1>2. CASE RecordTradingDay(w)
  <2> DEFINE row == [phase |-> read[w].currentPhase,
                     platformAccountId |-> event[w].platformAccountId,
                     day |-> event[w].day]
  <2>1. dayRows' = dayRows \cup {row} /\ UNCHANGED <<commandQueue, sweep, faults>>
    BY <1>2 DEF RecordTradingDay, DayRowOf
  <2>2. event[w] \in EventDoc /\ read[w] \in AccountDoc
    BY <1>0, <1>2, EventsAssumption DEF Carries, Handling, RecordTradingDay, Applies
  <2>3. row \in DayRow
    BY <2>2 DEF DayRow, EventDoc, AccountDoc
  <2> HIDE DEF row
  <2>4. IsFiniteSet(dayRows')
    BY <1>0, <2>1, FS_AddElement
  <2> QED
    BY <1>0, <2>1, <2>3, <2>4 DEF QueuesTyped, TypeOK
<1>3. CASE SendCommand(w)
  <2>1. toSend[w] \in Commands
    BY <1>0, <1>3 DEF Carries, Handling, SendCommand
  <2> QED
    BY <1>0, <1>3, <2>1, EnqueueTyped DEF SendCommand, QueuesTyped, TypeOK
<1>4. CASE SendFails(w) \/ Crash(w)
  <2>1. /\ faults < MaxFaults /\ faults' = faults + 1
        /\ UNCHANGED <<dayRows, commandQueue, sweep>>
    BY <1>4 DEF SendFails, Crash
  <2> QED
    BY <1>0, <2>1, EngineBoundsAssumption DEF QueuesTyped, TypeOK
<1> QED
  BY <1>1, <1>2, <1>3, <1>4 DEF WorkerStep

(* The invariant is inductive.                                             *)
LEMMA StepInductive ==
  ASSUME IInv, [EngineNext]_engineVars
  PROVE  IInv' /\ (AccountKept \/ AccountCommitted)
<1>0. TypeOK /\ IsFiniteSet(dayRows) /\ Consistent(account) /\ \A v \in Workers : InFlight(v)
  BY DEF IInv
<1>1. ASSUME NEW w \in Workers,
             TakeBatch(w) \/ WorkerStep(w) \/ SendFails(w) \/ Crash(w)
      PROVE  IInv' /\ (AccountKept \/ AccountCommitted)
  <2>1. WorkerStepSound(w)
    BY <1>1, WorkerActionsSound
  <2>2. QueuesTyped'
    BY <1>0, <1>1, WorkerQueuesTyped DEF InFlight, Carries
  <2>3. \A v \in Workers : InFlight(v)'
    BY <2>1, InFlightKept DEF WorkerStepSound
  <2>4. account' \in AccountDoc /\ Consistent(account)'
    BY <1>0, <2>1 DEF WorkerStepSound, AccountKept, AccountCommitted, TypeOK,
       Consistent, ShutWhenBreached, PendingCommandValid, CommandStillValid
  <2>5. TypeOK'
    BY <2>1, <2>2, <2>4 DEF TypeOK, QueuesTyped, WorkerStepSound, WorkersTyped
  <2> QED
    BY <2>1, <2>2, <2>3, <2>4, <2>5 DEF IInv, QueuesTyped, WorkerStepSound
<1>2. CASE \E e \in Events : Arrive(e)
  <2>1. PICK e \in Events : Arrive(e)
    BY <1>2
  <2>2. TypeOK' /\ AccountKept
    BY <1>0, <2>1 DEF Arrive, TypeOK, AccountKept, JobStates, workerVars
  <2>3. UNCHANGED <<account, dayRows, workerVars>>
    BY <2>1 DEF Arrive
  <2> QED
    BY <1>0, <2>2, <2>3 DEF IInv, InFlight, Consistent, ShutWhenBreached,
       PendingCommandValid, CommandStillValid, workerVars
<1>3. CASE Sweep
  <2>1. UNCHANGED <<account, dayRows, job, workerVars>>
    BY <1>3 DEF Sweep, SweepFinds, SweepSends
  <2>2. /\ commandQueue' \in [Commands -> 0..MaxQueued]
        /\ sweep' \in Commands \cup {None}
        /\ faults' \in 0..MaxFaults
    <3>1. CASE SweepFinds
      BY <1>0, <3>1 DEF SweepFinds, TypeOK
    <3>2. CASE SweepSends
      <4>1. sweep \in Commands
        BY <1>0, <3>2 DEF SweepSends, TypeOK
      <4> QED
        BY <1>0, <3>2, <4>1, EnqueueTyped, EngineBoundsAssumption DEF SweepSends, TypeOK
    <3> QED
      BY <1>3, <3>1, <3>2 DEF Sweep
  <2>3. TypeOK'
    BY <1>0, <2>1, <2>2 DEF TypeOK, workerVars
  <2> QED
    BY <1>0, <2>1, <2>3 DEF IInv, InFlight, Consistent, ShutWhenBreached,
       PendingCommandValid, CommandStillValid, workerVars, AccountKept
<1>4. CASE UNCHANGED engineVars
  <2>1. UNCHANGED <<account, dayRows, job, commandQueue, sweep, workerVars, faults>>
    BY <1>4 DEF engineVars
  <2>2. TypeOK'
    BY <1>0, <2>1 DEF TypeOK, workerVars
  <2> QED
    BY <1>0, <2>1, <2>2 DEF IInv, InFlight, Consistent, ShutWhenBreached,
       PendingCommandValid, CommandStillValid, workerVars, AccountKept
<1> QED
  BY <1>1, <1>2, <1>3, <1>4 DEF EngineNext

(* The invariant holds in every reachable state.                           *)
THEOREM InductiveInvariant == EngineSpec => []IInv
<1>1. IInv /\ [EngineNext]_engineVars => IInv'
  BY StepInductive
<1> QED
  BY InitInductive, <1>1, PTL DEF EngineSpec

(* Every variable keeps its type.                                          *)
THEOREM TypeCorrect == EngineSpec => []TypeOK
<1>1. IInv => TypeOK
  BY DEF IInv
<1> QED
  BY InductiveInvariant, <1>1, PTL

(* A breached account is shut in every respect, in every reachable state.  *)
THEOREM BreachedIsShut == EngineSpec => []BreachedAccountIsShut
<1>1. IInv => BreachedAccountIsShut
  BY DEF IInv, Consistent, BreachedAccountIsShut
<1> QED
  BY InductiveInvariant, <1>1, PTL

(* No interleaving leaves a pending command its status does not justify.   *)
THEOREM CommandsMatch == EngineSpec => []CommandMatchesStatus
<1>1. IInv => CommandMatchesStatus
  BY DEF IInv, Consistent, CommandMatchesStatus
<1> QED
  BY InductiveInvariant, <1>1, PTL

(* Every step lets the account evolve legally.                             *)
LEMMA StepEvolves ==
  ASSUME IInv, [EngineNext]_engineVars, account' # account
  PROVE  Evolves(account, account')
BY StepInductive DEF AccountKept, AccountCommitted

(* The ordering stamp never goes back, however events are delivered, and   *)
(* nothing valued before it changes the metrics: those that came with a    *)
(* stamp are never replaced by older ones.                                 *)
THEOREM StampedMetricsForward == EngineSpec => StampedMetricsNeverRollBack
<1>1. IInv /\ [EngineNext]_engineVars => [MetricsForward(account, account')]_account
  BY StepEvolves DEF Evolves
<1> QED
  BY InductiveInvariant, <1>1, PTL DEF EngineSpec, StampedMetricsNeverRollBack

(* A breach is terminal.                                                   *)
THEOREM BreachTerminal == EngineSpec => BreachIsTerminal
<1>1. IInv /\ [EngineNext]_engineVars => [StaysBreached(account, account')]_account
  BY StepEvolves DEF Evolves
<1> QED
  BY InductiveInvariant, <1>1, PTL DEF EngineSpec, BreachIsTerminal

(* Exact Trader evidence is never overwritten.                             *)
THEOREM EvidenceKept == EngineSpec => BreachEvidenceKept
<1>1. IInv /\ [EngineNext]_engineVars => [KeepsEvidence(account, account')]_account
  BY StepEvolves DEF Evolves
<1> QED
  BY InductiveInvariant, <1>1, PTL DEF EngineSpec, BreachEvidenceKept

-----------------------------------------------------------------------------
(* The deals accounted for. A deal is known once a commit has counted it:  *)
(* its job is done with, or the account, a copy of it or a batch remembers *)
(* it. The known opening deals have their rows, the trading days lie       *)
(* between the rows of the known deals and all rows of the phase, and no   *)
(* row is without a deal. When nothing is under way every deal that has    *)
(* arrived is known, so that the three are equal. A worker about to save   *)
(* counted after its own row was written; the compare-and-set tells that   *)
(* no other deal has become known since it read the account.               *)

(* The jobs that have arrived, and the deals of the account's phase.       *)
Seen == {e \in Events : job[e].state # "expected"}

Ours(e) ==
  e.type = "DEAL" /\ e.signed /\ e.platformAccountId = account.platformAccountId

OurRows == RowsFor(account.currentPhase, account.platformAccountId)

RowOf(e) ==
  [phase |-> account.currentPhase, platformAccountId |-> account.platformAccountId,
   day |-> e.day]

(* The deals a commit has counted and someone remembers: their job is done *)
(* with them, or they are the last event of the account or of a copy.      *)
Remembers(acc, e) == acc.lastProcessedEventId = e.id

Known(e) ==
  \/ job[e].state = "completed"
  \/ \E w \in Workers : e \in done[w]
  \/ Remembers(account, e)
  \/ \E w \in Workers : pc[w] \in Handling /\ Remembers(read[w], e)

KnownDeals == {e \in Events : Ours(e) /\ Known(e)}
KnownCloses == {e \in KnownDeals : e.closes}
KnownRows == {RowOf(e) : e \in {f \in KnownDeals : f.opens}}

Bounds(rows, n) == Cardinality(rows) <= n /\ n <= Cardinality(OurRows)

HoldsDeal(w) ==
  /\ todo[w] \cup done[w] \subseteq Seen
  /\ pc[w] \in Handling =>
       /\ event[w] \in Seen
       /\ read[w].currentPhase = account.currentPhase
       /\ read[w].platformAccountId = account.platformAccountId
  /\ pc[w] \in {"count", "save"} =>
       Ours(event[w]) /\ event[w].opens /\ RowOf(event[w]) \in dayRows
  /\ pc[w] = "save" /\ read[w].version = account.version =>
       Bounds(KnownRows \cup {RowOf(event[w])}, days[w])
  /\ pc[w] = "send" => Remembers(read[w], event[w]) \/ event[w].type = "SNAPSHOT"

DealInv ==
  /\ account.platformAccountId # None
  /\ IsFiniteSet(Seen)
  /\ \A e \in Events : Known(e) => e \in Seen
  /\ OurRows \subseteq {RowOf(e) : e \in {f \in Seen : Ours(f) /\ f.opens}}
  /\ KnownRows \subseteq OurRows
  /\ Bounds(KnownRows, account.tradingDays)
  /\ Cardinality(KnownCloses) <= account.totalTrades
  /\ \A w \in Workers : HoldsDeal(w)

-----------------------------------------------------------------------------
(* Rows are finitely many.                                                 *)
LEMMA RowsFinite ==
  ASSUME IsFiniteSet(dayRows), NEW rows \in SUBSET OurRows
  PROVE  /\ IsFiniteSet(OurRows) /\ IsFiniteSet(rows)
         /\ Cardinality(rows) \in Nat /\ Cardinality(OurRows) \in Nat
         /\ Cardinality(rows) <= Cardinality(OurRows)
<1>1. OurRows \subseteq dayRows
  BY DEF OurRows, RowsFor
<1>2. IsFiniteSet(OurRows)
  BY <1>1, FS_Subset
<1>3. IsFiniteSet(rows) /\ Cardinality(rows) <= Cardinality(OurRows)
  BY <1>2, FS_Subset
<1> QED
  BY <1>2, <1>3, FS_CardinalityType

(* The account stays in its phase, and no row goes.                        *)
SamePlace ==
  /\ account'.currentPhase = account.currentPhase
  /\ account'.platformAccountId = account.platformAccountId
  /\ dayRows \subseteq dayRows'
  /\ IsFiniteSet(dayRows) /\ IsFiniteSet(dayRows')

(* The rows of the phase stay, and so do the deals that are the phase's.   *)
LEMMA RowsStay ==
  ASSUME SamePlace
  PROVE  /\ OurRows \subseteq OurRows'
         /\ \A e : Ours(e)' <=> Ours(e)
         /\ \A e : RowOf(e)' = RowOf(e)
BY DEF SamePlace, OurRows, RowsFor, Ours, RowOf

(* Fewer rows of deals stay within a number's bounds.                      *)
LEMMA BoundsKept ==
  ASSUME SamePlace, NEW rows, rows \subseteq OurRows, NEW fewer, fewer \subseteq rows,
         NEW n \in Nat, Bounds(rows, n)
  PROVE  Cardinality(fewer) <= n /\ n <= Cardinality(OurRows')
<1>1. OurRows \subseteq OurRows'
  BY RowsStay
<1>2. IsFiniteSet(OurRows') /\ IsFiniteSet(rows)
  <2>1. OurRows' \subseteq dayRows'
    BY DEF OurRows, RowsFor
  <2> QED
    BY <2>1, FS_Subset, RowsFinite DEF SamePlace
<1>3. /\ Cardinality(fewer) <= Cardinality(rows) /\ Cardinality(OurRows) <= Cardinality(OurRows')
      /\ IsFiniteSet(fewer) /\ IsFiniteSet(OurRows)
  BY <1>1, <1>2, FS_Subset
<1>4. /\ Cardinality(fewer) \in Nat /\ Cardinality(rows) \in Nat
      /\ Cardinality(OurRows) \in Nat /\ Cardinality(OurRows') \in Nat
  BY <1>2, <1>3, FS_CardinalityType
<1> QED
  BY <1>3, <1>4 DEF Bounds

(* A step after which no more deals are known.                             *)
NoMoreKnown == \A e \in Events : Ours(e) /\ Known(e)' => Known(e)

(* Then there are fewer rows and fewer closing deals to account for.       *)
LEMMA KnownFewer ==
  ASSUME SamePlace, NoMoreKnown
  PROVE  KnownDeals' \subseteq KnownDeals /\ KnownRows' \subseteq KnownRows
           /\ KnownCloses' \subseteq KnownCloses
<1>1. KnownDeals' \subseteq KnownDeals
  BY RowsStay DEF NoMoreKnown, KnownDeals
<1> QED
  BY <1>1, RowsStay DEF KnownRows, KnownCloses

(* The deals known are among the jobs that have arrived, so finitely many. *)
LEMMA KnownFinite ==
  ASSUME DealInv, NEW deals \in SUBSET KnownDeals
  PROVE  IsFiniteSet(deals) /\ Cardinality(deals) \in Nat
<1>1. KnownDeals \subseteq Seen
  BY DEF KnownDeals, DealInv
<1>2. IsFiniteSet(deals)
  BY <1>1, FS_Subset DEF DealInv
<1> QED
  BY <1>2, FS_CardinalityType

(* What a worker that does nothing holds stays right.                      *)
Waits(v) ==
  /\ pc'[v] = pc[v] /\ read'[v] = read[v] /\ event'[v] = event[v]
  /\ todo'[v] = todo[v] /\ done'[v] = done[v] /\ days'[v] = days[v]

(* A copy of the same version is the account; any other cannot be saved.   *)
LEMMA WaitingHolds ==
  ASSUME IInv, DealInv, NEW v \in Workers, Waits(v), SamePlace, Seen \subseteq Seen',
         \/ AccountKept /\ NoMoreKnown
         \/ AccountCommitted
  PROVE  HoldsDeal(v)'
<1>1. /\ HoldsDeal(v) /\ InFlight(v) /\ days[v] \in Nat
      /\ account \in AccountDoc
  BY DEF DealInv, IInv, TypeOK
<1>2. /\ pc'[v] = pc[v] /\ read'[v] = read[v] /\ event'[v] = event[v]
      /\ todo'[v] = todo[v] /\ done'[v] = done[v] /\ days'[v] = days[v]
  BY DEF Waits
<1>0. PICK e : e = event[v] /\ e = event'[v]
  BY <1>2
<1>3. todo'[v] \cup done'[v] \subseteq Seen'
  BY <1>1, <1>2 DEF HoldsDeal
<1>4. pc'[v] \in Handling =>
        /\ event'[v] \in Seen'
        /\ read'[v].currentPhase = account'.currentPhase
        /\ read'[v].platformAccountId = account'.platformAccountId
  BY <1>1, <1>2 DEF HoldsDeal, SamePlace
<1>5. pc'[v] \in {"count", "save"} =>
        Ours(e)' /\ e.opens /\ RowOf(e)' \in dayRows'
  BY <1>1, <1>2, <1>0, RowsStay DEF HoldsDeal, SamePlace
<1>6. pc'[v] = "send" => Remembers(read'[v], event'[v]) \/ event'[v].type = "SNAPSHOT"
  BY <1>1, <1>2 DEF HoldsDeal, Remembers
<1>7. ASSUME pc'[v] = "save", read'[v].version = account'.version
      PROVE  Bounds(KnownRows \cup {RowOf(e)}, days[v])'
  <2>1. CASE AccountCommitted
    <3>1. read[v] \in AccountDoc /\ read[v].version <= account.version
      BY <1>1, <1>2, <1>7 DEF InFlight, Handling
    <3>2. read[v].version \in Nat /\ account.version \in Nat
      BY <1>1, <3>1 DEF AccountDoc
    <3>3. read[v].version = account.version + 1
      BY <1>2, <1>7, <2>1 DEF AccountCommitted
    <3> QED
      BY <3>1, <3>2, <3>3
  <2>2. CASE AccountKept /\ NoMoreKnown
    <3>1. PICK row : row = RowOf(event[v])
      OBVIOUS
    <3>2. Bounds(KnownRows \cup {row}, days[v]) /\ row \in OurRows
      BY <1>1, <1>2, <1>7, <2>2, <3>1
         DEF HoldsDeal, AccountKept, OurRows, RowsFor, RowOf
    <3>3. KnownRows' \cup {row} \subseteq KnownRows \cup {row}
      BY <2>2, KnownFewer
    <3>4. KnownRows \cup {row} \subseteq OurRows
      BY <3>2 DEF DealInv
    <3>5. Cardinality(KnownRows' \cup {row}) <= days[v] /\ days[v] <= Cardinality(OurRows')
      BY <1>1, <3>2, <3>3, <3>4, BoundsKept
    <3>6. RowOf(e)' = row
      BY <1>0, <3>1, RowsStay
    <3> QED
      BY <1>2, <3>5, <3>6 DEF Bounds
  <2> QED
    BY <2>1, <2>2
<1> QED
  BY <1>0, <1>3, <1>4, <1>5, <1>6, <1>7 DEF HoldsDeal

OthersKept(w) ==
  /\ OthersUnchanged(w)
  /\ \A v \in Workers \ {w} :
       todo'[v] = todo[v] /\ done'[v] = done[v] /\ days'[v] = days[v]

(* The same of every worker but the one that steps.                        *)
LEMMA OthersHold ==
  ASSUME IInv, DealInv, NEW w \in Workers, OthersKept(w), SamePlace, Seen \subseteq Seen',
         \/ AccountKept /\ NoMoreKnown
         \/ AccountCommitted
  PROVE  \A v \in Workers \ {w} : HoldsDeal(v)'
<1>1. \A v \in Workers \ {w} : Waits(v)
  BY DEF OthersKept, OthersUnchanged, Waits
<1> QED
  BY <1>1, WaitingHolds

(* A step that counts nothing.                                             *)
LEMMA QuietStep ==
  ASSUME IInv, DealInv, IInv', SamePlace, NoMoreKnown,
         account'.tradingDays = account.tradingDays, account'.totalTrades = account.totalTrades,
         Seen \subseteq Seen', IsFiniteSet(Seen'), \A e \in Events : Known(e)' => e \in Seen',
         dayRows' \subseteq dayRows \cup {RowOf(e) : e \in {f \in Seen : Ours(f) /\ f.opens}},
         \A v \in Workers : HoldsDeal(v)'
  PROVE  DealInv'
<1>1. account \in AccountDoc /\ account.tradingDays \in Nat /\ account.totalTrades \in Nat
  <2>1. account \in AccountDoc
    BY DEF IInv, TypeOK
  <2> QED
    BY <2>1 DEF AccountDoc
<1>2. account'.platformAccountId # None
  BY DEF DealInv, SamePlace
<1>3. OurRows' \subseteq {RowOf(e) : e \in {f \in Seen : Ours(f) /\ f.opens}}
  <2> SUFFICES ASSUME NEW r \in OurRows', r \in dayRows
               PROVE  r \in {RowOf(e) : e \in {f \in Seen : Ours(f) /\ f.opens}}
    BY DEF OurRows, RowsFor
  <2>1. r \in OurRows
    BY DEF OurRows, RowsFor, SamePlace
  <2> QED
    BY <2>1 DEF DealInv
<1>4. OurRows' \subseteq {RowOf(e)' : e \in {f \in Seen' : Ours(f)' /\ f.opens}}
  BY <1>3, RowsStay
<1>5. KnownRows' \subseteq OurRows'
  BY KnownFewer, RowsStay DEF DealInv
<1>6. Bounds(KnownRows, account.tradingDays)'
  BY <1>1, KnownFewer, BoundsKept DEF DealInv, Bounds
<1>7. Cardinality(KnownCloses') <= account'.totalTrades
  <2>1. KnownCloses \subseteq KnownDeals /\ KnownCloses' \subseteq KnownCloses
    BY KnownFewer DEF KnownCloses
  <2>2. IsFiniteSet(KnownCloses) /\ Cardinality(KnownCloses) \in Nat
    BY <2>1, KnownFinite
  <2>3. Cardinality(KnownCloses') <= Cardinality(KnownCloses) /\ Cardinality(KnownCloses') \in Nat
    BY <2>1, <2>2, FS_Subset, FS_CardinalityType
  <2> QED
    BY <1>1, <2>2, <2>3 DEF DealInv
<1> QED
  BY <1>2, <1>4, <1>5, <1>6, <1>7 DEF DealInv

-----------------------------------------------------------------------------
(* What a worker's step does to the deals known.                           *)

(* Finishing an event makes known that event and no other.                 *)
LEMMA FinishKnown ==
  ASSUME IInv, DealInv, NEW w \in Workers, pc[w] \in Handling, FinishEvent(w)
  PROVE  /\ OthersKept(w) /\ Seen' = Seen
         /\ pc'[w] \in {"idle", "load"} /\ todo'[w] = todo[w]
         /\ done'[w] \subseteq done[w] \cup {event[w]}
         /\ \A e \in Events : Known(e)' => Known(e) \/ e = event[w] \/ Remembers(account', e)
<1>1. /\ TypeOK /\ event[w] \in Events /\ event[w] \in Seen /\ done[w] \subseteq Seen
      /\ done \in [Workers -> SUBSET Events]
      /\ job \in [Events -> [state : JobStates, retries : Nat]]
      /\ pc \in [Workers -> {"idle", "load", "handle", "count", "save", "send"}]
      /\ read \in [Workers -> AccountDoc \cup {None}]
  BY DEF IInv, InFlight, DealInv, HoldsDeal, TypeOK
<1>2. PICK next \in {"idle", "load"} : Forget(w, next)
  BY DEF FinishEvent
<1>3. OthersUnchanged(w)
  BY <1>1, FinishLetsGo
<1>4. /\ pc'[w] = next /\ todo' = todo
      /\ \A v \in Workers \ {w} : done'[v] = done[v] /\ days'[v] = days[v]
      /\ done'[w] \subseteq done[w] \cup {event[w]}
  BY <1>1, <1>2 DEF FinishEvent, Forget, TypeOK
<1>5. \A e \in Events :
        \/ job'[e] = job[e]
        \/ e \in done[w] \cup {event[w]} /\ job'[e].state = "completed"
  BY <1>1 DEF FinishEvent
<1>6. Seen' = Seen
  BY <1>1, <1>5 DEF Seen
<1>7. ASSUME NEW e \in Events, Known(e)'
      PROVE  Known(e) \/ e = event[w] \/ Remembers(account', e)
  <2>1. CASE job'[e].state = "completed"
    BY <1>5, <2>1 DEF Known
  <2>2. CASE \E v \in Workers : e \in done'[v]
    BY <1>4, <2>2 DEF Known
  <2>3. ASSUME NEW v \in Workers, pc'[v] \in Handling, Remembers(read'[v], e)
        PROVE  Known(e)
    <3>1. v # w
      BY <1>4, <2>3 DEF Handling
    <3> QED
      BY <1>3, <2>3, <3>1 DEF Known, OthersUnchanged
  <2> QED
    BY <1>7, <2>1, <2>2, <2>3 DEF Known
<1> QED
  BY <1>3, <1>4, <1>6, <1>7 DEF OthersKept

(* A batch that fails is given back to the queue.                          *)
GivesBack(w) ==
  /\ Forget(w, "idle")
  /\ done' = [done EXCEPT ![w] = {}]
  /\ todo' = [todo EXCEPT ![w] = {}]
  /\ \A e \in Events :
       \/ job'[e] = job[e]
       \/ /\ e \in done[w] \cup todo[w] \cup {event[w]}
          /\ job'[e].state \in {"queued", "failed"}

(* A job retried is queued again, or failed.                               *)
LEMMA RetriedIs ==
  ASSUME NEW j \in [state : JobStates, retries : Nat], NEW e
  PROVE  Retried(j, e).state \in {"queued", "failed"}
BY DEF Retried

(* Failing and dying both give the batch back.                             *)
LEMMA FailGivesBack ==
  ASSUME IInv, NEW w \in Workers, FailBatch(w) \/ Crash(w)
  PROVE  GivesBack(w)
<1>1. job \in [Events -> [state : JobStates, retries : Nat]]
  BY DEF IInv, TypeOK
<1>2. CASE FailBatch(w)
  BY <1>1, <1>2, RetriedIs DEF FailBatch, GivesBack
<1>3. CASE Crash(w)
  BY <1>1, <1>3, RetriedIs DEF Crash, GivesBack
<1> QED
  BY <1>2, <1>3

(* What is given back is forgotten: fewer deals are known.                 *)
LEMMA GivenBack ==
  ASSUME IInv, DealInv, IInv', NEW w \in Workers, GivesBack(w), UNCHANGED <<account, dayRows>>
  PROVE  DealInv'
<1>1. /\ TypeOK /\ done[w] \cup todo[w] \subseteq Seen
      /\ done \in [Workers -> SUBSET Events] /\ todo \in [Workers -> SUBSET Events]
      /\ pc \in [Workers -> {"idle", "load", "handle", "count", "save", "send"}]
      /\ IsFiniteSet(dayRows)
  BY DEF IInv, DealInv, HoldsDeal, TypeOK
<1>2. /\ OthersKept(w) /\ pc'[w] = "idle" /\ todo'[w] = {} /\ done'[w] = {}
  BY <1>1 DEF GivesBack, Forget, OthersKept, OthersUnchanged, TypeOK
<1>3. SamePlace
  BY <1>1 DEF SamePlace
<1>4. Seen \subseteq Seen' /\ Seen' \subseteq Seen \cup {event[w]}
  BY <1>1 DEF GivesBack, Seen
<1>5. IsFiniteSet(Seen')
  <2>1. IsFiniteSet(Seen \cup {event[w]})
    BY FS_AddElement DEF DealInv
  <2> QED
    BY <1>4, <2>1, FS_Subset
<1>6. ASSUME NEW e \in Events, Known(e)'
      PROVE  Known(e)
  <2>1. CASE job'[e].state = "completed"
    BY <2>1 DEF Known, GivesBack
  <2>2. CASE \E v \in Workers : e \in done'[v]
    BY <1>2, <2>2 DEF Known, OthersKept
  <2>3. CASE Remembers(account, e)
    BY <2>3 DEF Known
  <2>4. ASSUME NEW v \in Workers, pc'[v] \in Handling, Remembers(read'[v], e)
        PROVE  Known(e)
    <3>1. v # w
      BY <1>2, <2>4 DEF Handling
    <3> QED
      BY <1>2, <2>4, <3>1 DEF Known, OthersKept, OthersUnchanged
  <2> QED
    BY <1>6, <2>1, <2>2, <2>3, <2>4 DEF Known
<1>7. NoMoreKnown /\ \A e \in Events : Known(e)' => e \in Seen'
  BY <1>4, <1>6 DEF NoMoreKnown, DealInv
<1>8. HoldsDeal(w)'
  BY <1>2 DEF HoldsDeal, Handling
<1>9. \A v \in Workers : HoldsDeal(v)'
  BY <1>2, <1>3, <1>4, <1>7, <1>8, OthersHold DEF AccountKept
<1> QED
  BY <1>3, <1>4, <1>5, <1>7, <1>9, QuietStep

(* Jobs that have arrived are taken.                                       *)
LEMMA TakeBatchDeals ==
  ASSUME IInv, DealInv, IInv', NEW w \in Workers, TakeBatch(w)
  PROVE  DealInv'
<1>1. PICK B \in Batches :
        /\ job' = [e \in Events |-> IF e \in B THEN [job[e] EXCEPT !.state = "active"] ELSE job[e]]
        /\ todo' = [todo EXCEPT ![w] = B]
  BY DEF TakeBatch
<1>2. /\ pc' = [pc EXCEPT ![w] = "load"]
      /\ UNCHANGED <<account, dayRows, done, read, event, days, toSend>>
  BY DEF TakeBatch
<1>3. /\ TypeOK /\ IsFiniteSet(dayRows)
      /\ job \in [Events -> [state : JobStates, retries : Nat]]
      /\ pc \in [Workers -> {"idle", "load", "handle", "count", "save", "send"}]
      /\ todo \in [Workers -> SUBSET Events]
  BY DEF IInv, TypeOK
<1>4. B \subseteq Seen /\ B \subseteq Events
  BY DEF Batches, Seen
<1>5. \A e \in Events : job'[e] = job[e] \/ (e \in B /\ job'[e].state = "active")
  BY <1>1, <1>3
<1>6. Seen' = Seen
  BY <1>4, <1>5 DEF Seen
<1>7. /\ OthersKept(w) /\ pc'[w] = "load" /\ todo'[w] = B /\ done'[w] = done[w]
  BY <1>1, <1>2, <1>3 DEF OthersKept, OthersUnchanged
<1>8. SamePlace
  BY <1>2, <1>3 DEF SamePlace
<1>9. ASSUME NEW e \in Events, Known(e)' PROVE Known(e)
  <2>1. job'[e].state = "completed" => job[e].state = "completed"
    BY <1>5
  <2>2. \A v \in Workers : pc'[v] \in Handling => pc[v] \in Handling
    BY <1>2, <1>3 DEF Handling
  <2> QED
    BY <1>2, <1>9, <2>1, <2>2 DEF Known
<1>10. NoMoreKnown /\ \A e \in Events : Known(e)' => e \in Seen'
  BY <1>6, <1>9 DEF NoMoreKnown, DealInv
<1>11. HoldsDeal(w)'
  BY <1>4, <1>6, <1>7 DEF HoldsDeal, Handling, DealInv
<1>12. \A v \in Workers : HoldsDeal(v)'
  BY <1>2, <1>6, <1>7, <1>8, <1>10, <1>11, OthersHold DEF AccountKept
<1>13. IsFiniteSet(Seen')
  BY <1>6 DEF DealInv
<1> QED
  BY <1>2, <1>6, <1>8, <1>10, <1>12, <1>13, QuietStep

(* The copy read is the account, so it remembers nothing more.             *)
LEMMA LoadDeals ==
  ASSUME IInv, DealInv, IInv', NEW w \in Workers, Load(w)
  PROVE  DealInv'
<1>1. PICK e \in todo[w] : /\ event' = [event EXCEPT ![w] = e]
                           /\ todo' = [todo EXCEPT ![w] = todo[w] \ {e}]
  BY DEF Load
<1>2. /\ read' = [read EXCEPT ![w] = account]
      /\ pc' = [pc EXCEPT ![w] = "handle"]
      /\ UNCHANGED <<account, dayRows, job, done, days, toSend>>
  BY DEF Load
<1>3. /\ TypeOK /\ IsFiniteSet(dayRows)
      /\ pc \in [Workers -> {"idle", "load", "handle", "count", "save", "send"}]
      /\ todo \in [Workers -> SUBSET Events] /\ read \in [Workers -> AccountDoc \cup {None}]
      /\ event \in [Workers -> Events \cup {None}] /\ account \in AccountDoc
  BY DEF IInv, TypeOK
<1>4. /\ OthersKept(w) /\ pc'[w] = "handle" /\ todo'[w] \subseteq todo[w] /\ event'[w] = e
      /\ read'[w] = account /\ done'[w] = done[w] /\ Seen' = Seen
  BY <1>1, <1>2, <1>3 DEF OthersKept, OthersUnchanged, Seen
<1>5. SamePlace
  BY <1>2, <1>3 DEF SamePlace
<1>6. ASSUME NEW f \in Events, Known(f)' PROVE Known(f)
  <2>1. ASSUME NEW v \in Workers, pc'[v] \in Handling, Remembers(read'[v], f)
        PROVE  Known(f)
    <3>1. CASE v = w
      BY <1>4, <2>1, <3>1 DEF Known
    <3>2. CASE v # w
      BY <1>4, <2>1, <3>2 DEF Known, OthersKept, OthersUnchanged
    <3> QED
      BY <3>1, <3>2
  <2> QED
    BY <1>2, <1>6, <2>1 DEF Known
<1>7. NoMoreKnown /\ \A f \in Events : Known(f)' => f \in Seen'
  BY <1>4, <1>6 DEF NoMoreKnown, DealInv
<1>8. HoldsDeal(w)'
  <2>1. todo[w] \cup done[w] \subseteq Seen
    BY DEF DealInv, HoldsDeal
  <2> QED
    BY <1>1, <1>2, <1>4, <2>1 DEF HoldsDeal
<1>9. \A v \in Workers : HoldsDeal(v)'
  BY <1>2, <1>4, <1>5, <1>7, <1>8, OthersHold DEF AccountKept
<1>10. IsFiniteSet(Seen')
  BY <1>4 DEF DealInv
<1> QED
  BY <1>2, <1>4, <1>5, <1>7, <1>9, <1>10, QuietStep

(* An event let go of that was counted before, or counts for nothing.      *)
LEMMA FinishQuiet ==
  ASSUME IInv, DealInv, IInv', NEW w \in Workers, pc[w] \in Handling, FinishEvent(w),
         UNCHANGED <<account, dayRows>>, Known(event[w]) \/ ~Ours(event[w])
  PROVE  DealInv'
<1>1. /\ OthersKept(w) /\ Seen' = Seen
      /\ pc'[w] \in {"idle", "load"} /\ todo'[w] = todo[w]
      /\ done'[w] \subseteq done[w] \cup {event[w]}
      /\ \A e \in Events : Known(e)' => Known(e) \/ e = event[w] \/ Remembers(account', e)
  BY FinishKnown
<1>2. /\ IsFiniteSet(dayRows) /\ todo[w] \cup done[w] \subseteq Seen /\ event[w] \in Seen
  BY DEF IInv, DealInv, HoldsDeal
<1>3. SamePlace
  BY <1>2 DEF SamePlace
<1>4. \A e \in Events : Known(e)' => Known(e) \/ e = event[w]
  BY <1>1 DEF Known
<1>5. NoMoreKnown /\ \A e \in Events : Known(e)' => e \in Seen'
  BY <1>1, <1>2, <1>4 DEF NoMoreKnown, DealInv
<1>6. HoldsDeal(w)'
  BY <1>1, <1>2 DEF HoldsDeal, Handling
<1>7. \A v \in Workers : HoldsDeal(v)'
  BY <1>1, <1>3, <1>5, <1>6, OthersHold DEF AccountKept
<1>8. IsFiniteSet(Seen')
  BY <1>1 DEF DealInv
<1> QED
  BY <1>1, <1>3, <1>5, <1>7, <1>8, QuietStep

(* A duplicate is known: the copy that was read remembers it.              *)
LEMMA HandleDuplicateDeals ==
  ASSUME IInv, DealInv, IInv', NEW w \in Workers, HandleDuplicate(w)
  PROVE  DealInv'
<1>1. /\ pc[w] = "handle" /\ Remembers(read[w], event[w])
      /\ UNCHANGED <<account, dayRows, commandQueue, sweep, faults>>
  BY DEF HandleDuplicate, Duplicate, AppliedLast, Remembers
<1>2. pc[w] \in Handling /\ event[w] \in Events /\ HoldsDeal(w)
  BY <1>1 DEF Handling, IInv, InFlight, DealInv
<1>3. CASE FinishEvent(w)
  <2>1. Known(event[w])
    BY <1>1, <1>2 DEF Known
  <2> QED
    BY <1>1, <1>2, <1>3, <2>1, FinishQuiet
<1>4. CASE /\ pc' = [pc EXCEPT ![w] = "send"]
           /\ toSend' = [toSend EXCEPT ![w] = read[w].commandPending]
           /\ UNCHANGED <<job, todo, done, read, event, days>>
  <2>1. toSend \in [Workers -> Commands \cup {None}]
          /\ pc \in [Workers -> {"idle", "load", "handle", "count", "save", "send"}]
    BY DEF IInv, TypeOK
  <2>2. SamePlace /\ Seen' = Seen /\ IsFiniteSet(Seen')
    BY <1>1, <1>4 DEF SamePlace, IInv, Seen, DealInv
  <2>3. pc'[w] = "send" /\ \A v \in Workers \ {w} : pc'[v] = pc[v]
    BY <1>4, <2>1
  <2>4. ASSUME NEW e \in Events, Known(e)' PROVE Known(e)
    <3>1. \A v \in Workers : pc'[v] \in Handling => pc[v] \in Handling
      BY <1>2, <2>3
    <3> QED
      BY <1>1, <1>4, <2>4, <3>1 DEF Known
  <2>5. NoMoreKnown /\ \A e \in Events : Known(e)' => e \in Seen'
    BY <2>2, <2>4 DEF NoMoreKnown, DealInv
  <2>6. HoldsDeal(w)'
    <3>1. Remembers(read[w], event[w])' /\ read' = read /\ event' = event /\ account' = account
      BY <1>1, <1>4 DEF Remembers
    <3> QED
      BY <1>2, <1>4, <2>2, <2>3, <3>1 DEF HoldsDeal
  <2>7. OthersKept(w)
    BY <1>4, <2>3 DEF OthersKept, OthersUnchanged
  <2>8. \A v \in Workers : HoldsDeal(v)'
    BY <1>1, <2>2, <2>5, <2>6, <2>7, OthersHold DEF AccountKept
  <2> QED
    BY <1>1, <2>2, <2>5, <2>6, <2>8, QuietStep
<1> QED
  BY <1>1, <1>3, <1>4 DEF HandleDuplicate

(* After a send the event is done with; it was known, or a snapshot.       *)
LEMMA SendCommandDeals ==
  ASSUME IInv, DealInv, IInv', NEW w \in Workers, SendCommand(w)
  PROVE  DealInv'
<1>1. /\ pc[w] = "send" /\ pc[w] \in Handling /\ FinishEvent(w)
      /\ UNCHANGED <<account, dayRows>>
  BY DEF SendCommand, Handling
<1>2. Remembers(read[w], event[w]) \/ event[w].type = "SNAPSHOT"
  BY <1>1 DEF DealInv, HoldsDeal
<1>3. Known(event[w]) \/ ~Ours(event[w])
  BY <1>1, <1>2 DEF Known, Ours
<1> QED
  BY <1>1, <1>3, FinishQuiet

(* A refused send, a crash and a conflict all give the batch back.         *)
LEMMA GiveBackDeals ==
  ASSUME IInv, DealInv, IInv', NEW w \in Workers,
         SendFails(w) \/ Crash(w) \/ (FailBatch(w) /\ UNCHANGED <<account, dayRows>>)
  PROVE  DealInv'
<1>1. GivesBack(w) /\ UNCHANGED <<account, dayRows>>
  BY FailGivesBack DEF SendFails, Crash
<1> QED
  BY <1>1, GivenBack

(* A worker moves on with its event, and the account and the jobs stay.    *)
Continues(w) ==
  /\ pc[w] \in Handling
  /\ pc'[w] \in Handling \ {"send"}
  /\ OthersKept(w)
  /\ UNCHANGED <<account, job, todo, done, read, event>>

(* Going on with an event makes nothing known.                             *)
LEMMA ContinuesKnown ==
  ASSUME IInv, DealInv, NEW w \in Workers, Continues(w)
  PROVE  /\ Seen' = Seen
         /\ \A e \in Events : Known(e)' => Known(e)
<1>1. Seen' = Seen
  BY DEF Continues, Seen
<1>2. \A v \in Workers : pc'[v] \in Handling => pc[v] \in Handling
  BY DEF Continues, OthersKept, OthersUnchanged
<1> QED
  BY <1>1, <1>2 DEF Continues, Known

(* The row recorded is that of a deal of the account's phase.              *)
LEMMA RecordTradingDayDeals ==
  ASSUME IInv, DealInv, IInv', NEW w \in Workers, RecordTradingDay(w)
  PROVE  DealInv'
<1> DEFINE row == [phase |-> read[w].currentPhase,
                   platformAccountId |-> event[w].platformAccountId,
                   day |-> event[w].day]
<1>1. /\ pc[w] = "handle" /\ ~Ignored(read[w], event[w])
      /\ event[w].type = "DEAL" /\ event[w].opens
      /\ dayRows' = dayRows \cup {row}
      /\ pc' = [pc EXCEPT ![w] = "count"]
      /\ UNCHANGED <<account, job, todo, done, read, event, days, toSend>>
  BY DEF RecordTradingDay, Applies, DayRowOf
<1>2. /\ pc \in [Workers -> {"idle", "load", "handle", "count", "save", "send"}]
      /\ IsFiniteSet(dayRows) /\ IsFiniteSet(dayRows')
      /\ HoldsDeal(w) /\ account.platformAccountId # None
  BY DEF IInv, TypeOK, DealInv
<1>3. Continues(w) /\ pc'[w] = "count"
  BY <1>1, <1>2 DEF Continues, OthersKept, OthersUnchanged, Handling
<1>4. SamePlace
  BY <1>1, <1>2 DEF SamePlace
<1>5. /\ event[w] \in Seen /\ read[w].currentPhase = account.currentPhase
      /\ read[w].platformAccountId = account.platformAccountId
  BY <1>1, <1>2 DEF HoldsDeal, Handling
<1>6. Ours(event[w]) /\ row = RowOf(event[w])
  BY <1>1, <1>2, <1>5 DEF Ignored, EventForCurrentPlatformAccount, Ours, RowOf
<1>7. Seen' = Seen /\ \A e \in Events : Known(e)' => Known(e)
  BY <1>3, ContinuesKnown
<1>8. NoMoreKnown /\ (\A e \in Events : Known(e)' => e \in Seen') /\ IsFiniteSet(Seen')
  BY <1>7 DEF NoMoreKnown, DealInv
<1>9. HoldsDeal(w)'
  <2>1. PICK e : e = event[w] /\ e = event'[w]
    BY <1>1
  <2>2. Ours(e)' /\ RowOf(e)' = row
    BY <1>4, <1>6, <2>1, RowsStay
  <2> QED
    BY <1>1, <1>2, <1>3, <1>5, <1>7, <2>1, <2>2 DEF HoldsDeal
<1>10. \A v \in Workers : HoldsDeal(v)'
  BY <1>1, <1>3, <1>4, <1>7, <1>8, <1>9, OthersHold DEF Continues, AccountKept
<1>11. row \in {RowOf(e) : e \in {f \in Seen : Ours(f) /\ f.opens}}
  BY <1>1, <1>5, <1>6
<1> QED
  BY <1>1, <1>4, <1>7, <1>8, <1>10, <1>11, QuietStep

(* The count is the number of rows, the deal's own among them.             *)
LEMMA CountTradingDaysDeals ==
  ASSUME IInv, DealInv, IInv', NEW w \in Workers, CountTradingDays(w)
  PROVE  DealInv'
<1> DEFINE n == Cardinality(RowsFor(read[w].currentPhase, event[w].platformAccountId))
<1>1. /\ pc[w] = "count" /\ days' = [days EXCEPT ![w] = n]
      /\ pc' = [pc EXCEPT ![w] = "save"]
      /\ UNCHANGED <<account, dayRows, job, todo, done, read, event, toSend>>
  BY DEF CountTradingDays
<1>2. /\ pc \in [Workers -> {"idle", "load", "handle", "count", "save", "send"}]
      /\ days \in [Workers -> Nat]
      /\ IsFiniteSet(dayRows) /\ HoldsDeal(w)
  BY DEF IInv, TypeOK, DealInv
<1>3. Continues(w) /\ pc'[w] = "save" /\ days'[w] = n
  BY <1>1, <1>2 DEF Continues, OthersKept, OthersUnchanged, Handling
<1>4. SamePlace
  BY <1>1, <1>2 DEF SamePlace
<1>5. /\ event[w] \in Seen /\ read[w].currentPhase = account.currentPhase
      /\ Ours(event[w]) /\ event[w].opens /\ RowOf(event[w]) \in dayRows
  BY <1>1, <1>2 DEF HoldsDeal, Handling
<1>6. n = Cardinality(OurRows)
  BY <1>5 DEF OurRows, Ours
<1>7. Seen' = Seen /\ \A e \in Events : Known(e)' => Known(e)
  BY <1>3, ContinuesKnown
<1>8. NoMoreKnown /\ (\A e \in Events : Known(e)' => e \in Seen') /\ IsFiniteSet(Seen')
  BY <1>7 DEF NoMoreKnown, DealInv
<1>9. HoldsDeal(w)'
  <2>1. PICK e : e = event[w] /\ e = event'[w]
    BY <1>1
  <2>2. Ours(e)' /\ RowOf(e)' = RowOf(e) /\ OurRows' = OurRows
    BY <1>1, <1>4, <1>5, <2>1, RowsStay DEF OurRows, RowsFor
  <2>3. KnownRows' \cup {RowOf(e)} \subseteq OurRows
    BY <1>4, <1>5, <1>8, <2>1, KnownFewer DEF DealInv, OurRows, RowsFor, RowOf
  <2>4. Bounds(KnownRows' \cup {RowOf(e)}, n)
    BY <1>2, <1>6, <2>3, RowsFinite DEF Bounds
  <2>5. Bounds(KnownRows \cup {RowOf(e)}, days[w])'
    BY <1>3, <2>2, <2>4 DEF Bounds
  <2> QED
    BY <1>1, <1>2, <1>3, <1>5, <1>7, <2>1, <2>2, <2>5 DEF HoldsDeal, Handling
<1>10. \A v \in Workers : HoldsDeal(v)'
  BY <1>1, <1>3, <1>4, <1>7, <1>8, <1>9, OthersHold DEF Continues, AccountKept
<1> QED
  BY <1>1, <1>4, <1>7, <1>8, <1>10, QuietStep

(* What only a deal changes, and where the account is.                     *)
CountsKept(old, new) ==
  /\ new.tradingDays = old.tradingDays
  /\ new.totalTrades = old.totalTrades
  /\ new.currentPhase = old.currentPhase
  /\ new.platformAccountId = old.platformAccountId

(* No metrics, stamp or reported status counts a deal.                     *)
LEMMA MetricsCount ==
  ASSUME NEW acc \in AccountDoc, NEW e
  PROVE  /\ CountsKept(acc, Stamp(ApplyMetrics(acc, e), e))
         /\ CountsKept(acc, ControlMetrics(acc, e))
         /\ CountsKept(acc, RecordStatus(acc, e))
         /\ CountsKept(acc, EndTrial(acc, "BREACHED"))
BY DEF CountsKept, Stamp, ApplyMetrics, ControlMetrics, RecordStatus, EndTrial, AccountDoc

(* Nor does a breach.                                                      *)
LEMMA BreachesCount ==
  ASSUME NEW acc \in AccountDoc, NEW e
  PROVE  CountsKept(acc, ControlBreached(acc, e)) /\ CountsKept(acc, SnapshotBreached(acc, e))
<1>1. CASE acc.accountMode = "DEMO"
  BY <1>1 DEF CountsKept, ControlBreached, SnapshotBreached, EndTrial, AccountDoc
<1>2. CASE acc.accountMode # "DEMO"
  BY <1>2 DEF CountsKept, ControlBreached, SnapshotBreached, EndTrial, AccountDoc
<1> QED
  BY <1>1, <1>2

(* Nor does a control event.                                               *)
LEMMA ControlCounts ==
  ASSUME NEW acc \in AccountDoc, Consistent(acc), NEW e \in EventDoc
  PROVE  CountsKept(acc, ControlOutcome(acc, e))
<1> DEFINE metrics == ControlMetrics(acc, e)
           controlled == RecordStatus(metrics, e)
<1>1. CountsKept(acc, metrics) /\ Legal(acc, metrics)
  BY MetricsCount, ControlMetricsLegal
<1>2. metrics \in AccountDoc /\ Consistent(metrics)
  BY <1>1 DEF Legal
<1> HIDE DEF metrics
<1>3. CountsKept(metrics, controlled) /\ controlled \in AccountDoc
  BY <1>2, MetricsCount, RecordStatusLegal DEF Legal
<1> HIDE DEF controlled
<1>4. CountsKept(controlled, ControlBreached(controlled, e))
  BY <1>3, BreachesCount
<1>5. ControlOutcome(acc, e) \in {controlled, ControlBreached(controlled, e)}
  BY DEF ControlOutcome, metrics, controlled
<1> QED
  BY <1>1, <1>3, <1>4, <1>5 DEF CountsKept

(* Nor does a decision.                                                    *)
LEMMA StatusCounts ==
  ASSUME NEW acc \in AccountDoc, NEW s \in AccountStatus, NEW c \in Commands \cup {None}
  PROVE  LET new == [acc EXCEPT !.status = s, !.enabled = FALSE, !.commandPending = c]
         IN  CountsKept(acc, new) /\ new \in AccountDoc
<1> DEFINE new == [acc EXCEPT !.status = s, !.enabled = FALSE, !.commandPending = c]
<1>1. CountsKept(acc, new)
  BY DEF CountsKept, AccountDoc
<1>2. new \in AccountDoc
  BY DEF AccountDoc
<1> QED
  BY <1>1, <1>2

(* Nor does a snapshot.                                                    *)
LEMMA SnapshotCounts ==
  ASSUME NEW acc \in AccountDoc, Consistent(acc), NEW e \in EventDoc,
         e.type = "SNAPSHOT", ~Ignored(acc, e)
  PROVE  CountsKept(acc, SnapshotOutcome(acc, e))
<1> DEFINE valued == Stamp(ApplyMetrics(acc, e), e)
           decision == ResolveDecision(valued)
           decided == [valued EXCEPT !.status = decision.status, !.enabled = FALSE,
                                     !.commandPending = decision.command]
<1>1. CountsKept(acc, valued)
  BY MetricsCount
<1>2. valued \in AccountDoc
  BY StampedMetricsLegal DEF Ignored, Legal
<1>3. SnapshotOutcome(acc, e) \in {valued, SnapshotBreached(decided, e), decided}
  BY DEF SnapshotOutcome, Decide
<1> HIDE DEF valued
<1>4. decision.status \in AccountStatus /\ decision.command \in Commands \cup {None}
  BY <1>2, DecisionCases DEF AccountStatus, Commands, NoDecision
<1> HIDE DEF decision
<1>5. CountsKept(valued, decided) /\ decided \in AccountDoc
  BY <1>2, <1>4, StatusCounts
<1> HIDE DEF decided
<1>6. CountsKept(decided, SnapshotBreached(decided, e))
  BY <1>5, BreachesCount
<1> QED
  BY <1>1, <1>3, <1>5, <1>6 DEF CountsKept

(* A guarded commit writes the outcome and remembers the event.            *)
LEMMA CommitWrites ==
  ASSUME IInv, NEW w \in Workers, pc[w] \in Handling, NEW next,
         Legal(read[w], next), GuardHolds(w), Commit(w, next)
  PROVE  /\ read[w] = account /\ account' \in AccountDoc
         /\ CountsKept(next, account')
         /\ account'.lastProcessedEventId = event[w].id
<1>1. read[w] = account /\ account \in AccountDoc /\ event[w] \in EventDoc
  BY EventsAssumption DEF IInv, InFlight, GuardHolds, TypeOK
<1> DEFINE marked == [next EXCEPT !.lastProcessedEventId = event[w].id]
<1>2. next \in AccountDoc /\ SameIdentity(account, next)
  BY <1>1 DEF Legal
<1>3. marked \in AccountDoc /\ SameIdentity(account, marked) /\ CountsKept(next, marked)
  BY <1>1, <1>2 DEF AccountDoc, EventDoc, SameIdentity, CountsKept
<1>4. WriteModified(account, account, marked) = marked
  BY <1>1, <1>3 DEF WriteModified, AccountDoc, SameIdentity
<1>5. account' = [next EXCEPT !.lastProcessedEventId = event[w].id,
                              !.version = account.version + 1]
  BY <1>1, <1>4 DEF Commit
<1>6. account'.lastProcessedEventId = event[w].id /\ CountsKept(next, account')
  BY <1>2, <1>5 DEF AccountDoc, CountsKept
<1>7. account' \in AccountDoc
  BY CommitIsLegal DEF AccountCommitted
<1> QED
  BY <1>1, <1>6, <1>7

(* A worker lets go of its event, or goes on to send a snapshot's command. *)
SendsSnapshot(w) ==
  /\ event[w].type = "SNAPSHOT"
  /\ pc' = [pc EXCEPT ![w] = "send"]
  /\ \E command \in Commands : toSend' = [toSend EXCEPT ![w] = command]
  /\ UNCHANGED <<job, todo, done, read, event, days>>

(* Either makes known the event at hand and no other.                      *)
LEMMA LetsGoKnown ==
  ASSUME IInv, DealInv, NEW w \in Workers, pc[w] \in Handling,
         FinishEvent(w) \/ SendsSnapshot(w)
  PROVE  /\ OthersKept(w) /\ Seen' = Seen /\ todo'[w] \cup done'[w] \subseteq Seen
         /\ \/ pc'[w] \in {"idle", "load"}
            \/ /\ pc'[w] = "send" /\ event[w].type = "SNAPSHOT"
               /\ event'[w] = event[w] /\ read'[w] = read[w]
         /\ \A e \in Events : Known(e)' => Known(e) \/ e = event[w] \/ Remembers(account', e)
<1>1. HoldsDeal(w) /\ pc \in [Workers -> {"idle", "load", "handle", "count", "save", "send"}]
      /\ toSend \in [Workers -> Commands \cup {None}]
  BY DEF IInv, TypeOK, DealInv
<1>2. CASE FinishEvent(w)
  BY <1>1, <1>2, FinishKnown DEF HoldsDeal
<1>3. CASE SendsSnapshot(w)
  <2>1. pc'[w] = "send" /\ OthersKept(w) /\ Seen' = Seen
    BY <1>1, <1>3 DEF SendsSnapshot, OthersKept, OthersUnchanged, Seen
  <2>2. \A v \in Workers : pc'[v] \in Handling => pc[v] \in Handling
    BY <2>1 DEF OthersKept, OthersUnchanged
  <2>3. \A e \in Events : Known(e)' => Known(e) \/ Remembers(account', e)
    BY <1>3, <2>2 DEF SendsSnapshot, Known
  <2> QED
    BY <1>1, <1>3, <2>1, <2>3 DEF SendsSnapshot, HoldsDeal
<1> QED
  BY <1>2, <1>3

(* What a committed outcome counts: a deal of the account's phase that     *)
(* opens takes the days counted before, one that closes is one trade more. *)
CountsEvent(w, next) ==
  LET e == event[w]
  IN  /\ next.tradingDays = IF Ours(e) /\ e.opens THEN days[w] ELSE account.tradingDays
      /\ next.totalTrades = account.totalTrades + IF Ours(e) /\ e.closes THEN 1 ELSE 0
      /\ next.currentPhase = account.currentPhase
      /\ next.platformAccountId = account.platformAccountId
      /\ Ours(e) /\ e.opens => pc[w] = "save"

(* A commit makes its event known and counts it if it is the phase's.      *)
LEMMA CommittedDeals ==
  ASSUME IInv, DealInv, IInv', NEW w \in Workers, pc[w] \in Handling, NEW next,
         Legal(read[w], next), GuardHolds(w), Commit(w, next), CountsEvent(w, next),
         dayRows' = dayRows, FinishEvent(w) \/ SendsSnapshot(w)
  PROVE  DealInv'
<1>1. PICK e : e = event[w]
  OBVIOUS
<1>2. /\ read[w] = account /\ account' \in AccountDoc /\ CountsKept(next, account')
      /\ account'.lastProcessedEventId = e.id
      /\ AccountCommitted
  BY <1>1, CommitWrites, CommitIsLegal
<1>3. /\ OthersKept(w) /\ Seen' = Seen /\ todo'[w] \cup done'[w] \subseteq Seen
      /\ \/ pc'[w] \in {"idle", "load"}
         \/ /\ pc'[w] = "send" /\ e.type = "SNAPSHOT"
            /\ event'[w] = e /\ read'[w] = read[w]
      /\ \A f \in Events : Known(f)' => Known(f) \/ f = e \/ Remembers(account', f)
  BY <1>1, LetsGoKnown
<1>4. /\ e \in Events /\ e \in Seen /\ HoldsDeal(w) /\ IsFiniteSet(dayRows)
      /\ account \in AccountDoc /\ days[w] \in Nat
  BY <1>1 DEF IInv, InFlight, DealInv, HoldsDeal, TypeOK
<1>5. \A f \in Events : Known(f)' => Known(f) \/ f = e
  BY <1>2, <1>3, <1>4, EventsAssumption DEF Remembers
<1>6. /\ account'.tradingDays = IF Ours(e) /\ e.opens THEN days[w] ELSE account.tradingDays
      /\ account'.totalTrades = account.totalTrades + IF Ours(e) /\ e.closes THEN 1 ELSE 0
      /\ SamePlace
      /\ Ours(e) /\ e.opens => pc[w] = "save"
  BY <1>1, <1>2, <1>4 DEF CountsEvent, CountsKept, SamePlace
<1>7. OurRows' = OurRows
  BY <1>6 DEF SamePlace, OurRows, RowsFor
<1>8. /\ KnownDeals' \subseteq KnownDeals \cup {e}
      /\ ~Ours(e) => KnownDeals' \subseteq KnownDeals
  BY <1>5, <1>6, RowsStay DEF KnownDeals
<1>9. /\ KnownRows' \subseteq KnownRows \cup {RowOf(e)}
      /\ ~(Ours(e) /\ e.opens) => KnownRows' \subseteq KnownRows
      /\ KnownCloses' \subseteq KnownCloses \cup {e}
      /\ ~(Ours(e) /\ e.closes) => KnownCloses' \subseteq KnownCloses
  BY <1>6, <1>8, RowsStay DEF KnownRows, KnownCloses
<1>10. /\ account.tradingDays \in Nat /\ account.totalTrades \in Nat
       /\ KnownRows \subseteq OurRows
       /\ Bounds(KnownRows, account.tradingDays)
  <2>1. account.tradingDays \in Nat /\ account.totalTrades \in Nat
    BY <1>4 DEF AccountDoc
  <2> QED
    BY <2>1 DEF DealInv
<1>11. KnownRows' \subseteq OurRows /\ Bounds(KnownRows, account.tradingDays)'
  <2>1. CASE Ours(e) /\ e.opens
    <3>1. RowOf(e) \in OurRows
      BY <1>1, <1>4, <1>6, <2>1 DEF HoldsDeal, OurRows, RowsFor, RowOf
    <3>2. Bounds(KnownRows \cup {RowOf(e)}, days[w])
      BY <1>1, <1>2, <1>4, <1>6, <2>1 DEF HoldsDeal
    <3>3. Cardinality(KnownRows') <= days[w] /\ days[w] <= Cardinality(OurRows')
      BY <1>4, <1>6, <1>9, <1>10, <3>1, <3>2, BoundsKept
    <3> QED
      BY <1>6, <1>9, <1>10, <2>1, <3>1, <3>3 DEF Bounds
  <2>2. CASE ~(Ours(e) /\ e.opens)
    <3>1. Cardinality(KnownRows') <= account.tradingDays
          /\ account.tradingDays <= Cardinality(OurRows')
      BY <1>6, <1>9, <1>10, <2>2, BoundsKept
    <3> QED
      BY <1>6, <1>9, <1>10, <2>2, <3>1 DEF Bounds
  <2> QED
    BY <2>1, <2>2
<1>12. Cardinality(KnownCloses)' <= account'.totalTrades
  <2>1. KnownCloses \subseteq KnownDeals /\ Cardinality(KnownCloses) <= account.totalTrades
    BY DEF KnownCloses, DealInv
  <2>2. IsFiniteSet(KnownCloses) /\ Cardinality(KnownCloses) \in Nat
    BY <2>1, KnownFinite
  <2>3. CASE ~(Ours(e) /\ e.closes)
    <3>1. Cardinality(KnownCloses') <= Cardinality(KnownCloses) /\ Cardinality(KnownCloses') \in Nat
      BY <1>9, <2>2, <2>3, FS_Subset, FS_CardinalityType
    <3> QED
      BY <1>6, <1>10, <2>1, <2>2, <2>3, <3>1
  <2>4. CASE Ours(e) /\ e.closes
    <3>0. /\ IsFiniteSet(KnownCloses \cup {e})
          /\ Cardinality(KnownCloses \cup {e}) = IF e \in KnownCloses THEN Cardinality(KnownCloses)
                                               ELSE Cardinality(KnownCloses) + 1
      BY <2>2, FS_AddElement
    <3>1. /\ IsFiniteSet(KnownCloses \cup {e})
          /\ Cardinality(KnownCloses \cup {e}) <= Cardinality(KnownCloses) + 1
          /\ Cardinality(KnownCloses \cup {e}) \in Nat
      BY <2>2, <3>0
    <3>2. Cardinality(KnownCloses') <= Cardinality(KnownCloses \cup {e})
          /\ Cardinality(KnownCloses') \in Nat
      BY <1>9, <3>1, FS_Subset, FS_CardinalityType
    <3> QED
      BY <1>6, <1>10, <2>1, <2>2, <2>4, <3>1, <3>2
  <2> QED
    BY <2>3, <2>4
<1>13. HoldsDeal(w)'
  <2>1. CASE pc'[w] \in {"idle", "load"}
    BY <1>3, <2>1 DEF HoldsDeal, Handling
  <2>2. CASE /\ pc'[w] = "send" /\ e.type = "SNAPSHOT"
             /\ event'[w] = e /\ read'[w] = read[w]
    BY <1>2, <1>3, <1>4, <1>6, <2>2 DEF HoldsDeal, SamePlace
  <2> QED
    BY <1>3, <2>1, <2>2
<1>14. \A v \in Workers : HoldsDeal(v)'
  BY <1>2, <1>3, <1>6, <1>13, OthersHold
<1>15. /\ account'.platformAccountId # None /\ IsFiniteSet(Seen')
       /\ \A f \in Events : Known(f)' => f \in Seen'
  BY <1>3, <1>4, <1>5, <1>6 DEF DealInv, SamePlace
<1>16. OurRows' \subseteq {RowOf(f)' : f \in {g \in Seen' : Ours(g)' /\ g.opens}}
  BY <1>3, <1>6, <1>7, RowsStay DEF DealInv
<1> QED
  BY <1>7, <1>11, <1>12, <1>14, <1>15, <1>16 DEF DealInv

(* The conditional save: committed, or the batch given back.               *)
LEMMA SaveDeals ==
  ASSUME IInv, DealInv, IInv', NEW w \in Workers, pc[w] \in Handling,
         NEW next, NEW command \in Commands \cup {None},
         SaveConditional(w, next, command),
         GuardHolds(w) => Legal(read[w], next) /\ CountsEvent(w, next),
         command # None => event[w].type = "SNAPSHOT"
  PROVE  DealInv'
<1>1. dayRows' = dayRows
  BY DEF SaveConditional
<1>2. CASE GuardHolds(w)
  <2>1. Commit(w, next) /\ (FinishEvent(w) \/ SendsSnapshot(w))
    BY <1>2 DEF SaveConditional, SendsSnapshot
  <2> QED
    BY <1>1, <1>2, <2>1, CommittedDeals
<1>3. CASE ~GuardHolds(w)
  <2>1. FailBatch(w) /\ UNCHANGED <<account, dayRows>>
    BY <1>1, <1>3 DEF SaveConditional
  <2> QED
    BY <2>1, GiveBackDeals
<1> QED
  BY <1>2, <1>3

(* Only the deals that apply are of the account's phase.                   *)
LEMMA HandlersDeals ==
  ASSUME IInv, DealInv, IInv', NEW w \in Workers,
         HandleIgnored(w) \/ HandleControl(w) \/ HandleDeal(w) \/ HandleSnapshot(w)
  PROVE  DealInv'
<1>1. /\ pc[w] \in {"handle", "save"} /\ pc[w] \in Handling
      /\ event[w] \in EventDoc /\ read[w] \in AccountDoc /\ HoldsDeal(w)
      /\ days[w] \in Nat /\ account \in AccountDoc
      /\ GuardHolds(w) => read[w] = account /\ Consistent(account)
  <2>1. pc[w] \in {"handle", "save"} /\ pc[w] \in Handling
    BY DEF HandleIgnored, HandleControl, HandleDeal, HandleSnapshot, Applies, Handling
  <2> QED
    BY <2>1, EventsAssumption DEF IInv, InFlight, TypeOK, DealInv, GuardHolds
<1>2. /\ read[w].platformAccountId = account.platformAccountId
      /\ account.platformAccountId # None
      /\ account.tradingDays \in Nat /\ account.totalTrades \in Nat
  <2>1. account.tradingDays \in Nat /\ account.totalTrades \in Nat
    BY <1>1 DEF AccountDoc
  <2> QED
    BY <1>1, <2>1 DEF HoldsDeal, DealInv
<1>3. CASE HandleIgnored(w)
  <2>1. ~Ours(event[w])
    BY <1>1, <1>2, <1>3 DEF HandleIgnored, Ignored, EventForCurrentPlatformAccount, Ours
  <2>2. GuardHolds(w) => Legal(read[w], read[w]) /\ CountsEvent(w, read[w])
    BY <1>1, <1>2, <2>1, SameAccountLegal DEF CountsEvent
  <2> QED
    BY <1>1, <1>3, <2>2, SaveDeals DEF HandleIgnored
<1>4. CASE HandleControl(w)
  <2> DEFINE next == ControlOutcome(read[w], event[w])
  <2>1. ~Ours(event[w])
    BY <1>4 DEF HandleControl, Applies, Ours
  <2>2. GuardHolds(w) => Legal(read[w], next) /\ CountsKept(account, next)
    BY <1>1, ControlLegal, ControlCounts
  <2>3. GuardHolds(w) => CountsEvent(w, next)
    BY <1>2, <2>1, <2>2 DEF CountsEvent, CountsKept
  <2> QED
    BY <1>1, <1>4, <2>2, <2>3, SaveDeals DEF HandleControl
<1>5. CASE HandleSnapshot(w)
  <2> DEFINE next == SnapshotOutcome(read[w], event[w])
             command == SnapshotCommand(read[w], event[w])
  <2>1. event[w].type = "SNAPSHOT" /\ ~Ignored(read[w], event[w])
    BY <1>5 DEF HandleSnapshot, Applies
  <2>2. GuardHolds(w) => Legal(read[w], next) /\ CountsKept(account, next)
    BY <1>1, <2>1, SnapshotLegal, SnapshotCounts
  <2>3. GuardHolds(w) => CountsEvent(w, next)
    BY <1>2, <2>1, <2>2 DEF CountsEvent, CountsKept, Ours
  <2>4. command \in Commands \cup {None}
    BY DEF SnapshotCommand, ResolveDecision, PhasePassed, NoDecision, Commands
  <2> QED
    BY <1>1, <1>5, <2>1, <2>2, <2>3, <2>4, SaveDeals DEF HandleSnapshot
<1>6. CASE HandleDeal(w)
  <2> DEFINE next == DealOutcome(read[w], event[w], days[w])
  <2>1. Ours(event[w]) /\ (event[w].opens => pc[w] = "save")
    <3>1. CASE pc[w] = "save"
      BY <1>1, <3>1 DEF HoldsDeal
    <3>2. CASE Applies(w, "DEAL") /\ ~event[w].opens
      BY <1>2, <3>2 DEF Applies, Ignored, EventForCurrentPlatformAccount, Ours
    <3> QED
      BY <1>6, <3>1, <3>2 DEF HandleDeal
  <2>2. GuardHolds(w) => Legal(read[w], next)
    BY <1>1, DealLegal
  <2>3. GuardHolds(w) => CountsEvent(w, next)
    <3>1. ASSUME NEW acc \in AccountDoc, NEW e, NEW n
          PROVE  LET new == DealOutcome(acc, e, n)
                 IN  /\ new.tradingDays = IF e.opens THEN n ELSE acc.tradingDays
                     /\ new.totalTrades = IF e.closes THEN acc.totalTrades + 1 ELSE acc.totalTrades
                     /\ new.currentPhase = acc.currentPhase
                     /\ new.platformAccountId = acc.platformAccountId
      BY <3>1 DEF DealOutcome, AccountDoc
    <3> QED
      BY <1>1, <1>2, <2>1, <3>1 DEF CountsEvent
  <2> QED
    BY <1>1, <1>6, <2>2, <2>3, SaveDeals DEF HandleDeal
<1> QED
  BY <1>3, <1>4, <1>5, <1>6

(* An event that arrives is one more that was seen, and known to no one.   *)
LEMMA ArriveDeals ==
  ASSUME IInv, DealInv, IInv', NEW e \in Events, Arrive(e)
  PROVE  DealInv'
<1>1. /\ job[e].state = "expected" /\ job' = [job EXCEPT ![e].state = "queued"]
      /\ UNCHANGED <<account, dayRows, pc, todo, done, read, event, days, toSend>>
  BY DEF Arrive, workerVars
<1>2. IsFiniteSet(dayRows) /\ job \in [Events -> [state : JobStates, retries : Nat]]
  BY DEF IInv, TypeOK
<1>3. SamePlace
  BY <1>1, <1>2 DEF SamePlace
<1>4. /\ \A f \in Events \ {e} : job'[f] = job[f]
      /\ job'[e].state = "queued"
  BY <1>1, <1>2
<1>5. Seen' = Seen \cup {e}
  BY <1>4 DEF Seen
<1>6. IsFiniteSet(Seen')
  BY <1>5, FS_AddElement DEF DealInv
<1>7. \A f \in Events : Known(f)' => Known(f)
  BY <1>1, <1>4 DEF Known, Remembers
<1>8. NoMoreKnown /\ \A f \in Events : Known(f)' => f \in Seen'
  BY <1>5, <1>7 DEF NoMoreKnown, DealInv
<1>9. \A v \in Workers : HoldsDeal(v)'
  <2>1. \A v \in Workers : Waits(v)
    BY <1>1 DEF Waits
  <2> QED
    BY <1>1, <1>3, <1>5, <1>8, <2>1, WaitingHolds DEF AccountKept
<1> QED
  BY <1>1, <1>3, <1>5, <1>6, <1>8, <1>9, QuietStep

(* What leaves the account, the jobs and the workers as they are.          *)
LEMMA ElsewhereDeals ==
  ASSUME IInv, DealInv, IInv', UNCHANGED <<account, dayRows, job, workerVars>>
  PROVE  DealInv'
<1>1. /\ UNCHANGED <<account, dayRows, job, pc, todo, done, read, event, days, toSend>>
      /\ IsFiniteSet(dayRows)
  BY DEF IInv, workerVars
<1>2. SamePlace /\ Seen' = Seen /\ IsFiniteSet(Seen')
  BY <1>1 DEF SamePlace, Seen, DealInv
<1>3. \A f \in Events : Known(f)' => Known(f)
  BY <1>1 DEF Known, Remembers
<1>4. NoMoreKnown /\ \A f \in Events : Known(f)' => f \in Seen'
  BY <1>2, <1>3 DEF NoMoreKnown, DealInv
<1>5. \A v \in Workers : Waits(v)
  BY <1>1 DEF Waits
<1>6. \A v \in Workers : HoldsDeal(v)'
  BY <1>1, <1>2, <1>4, <1>5, WaitingHolds DEF AccountKept
<1> QED
  BY <1>1, <1>2, <1>4, <1>6, QuietStep

(* The invariant of the deals is inductive beside the engine's.            *)
LEMMA DealsInductive ==
  ASSUME IInv, DealInv, [EngineNext]_engineVars
  PROVE  DealInv'
<1>0. IInv'
  BY StepInductive
<1>1. ASSUME NEW e \in Events, Arrive(e) PROVE DealInv'
  BY <1>0, <1>1, ArriveDeals
<1>2. ASSUME NEW w \in Workers, TakeBatch(w) PROVE DealInv'
  BY <1>0, <1>2, TakeBatchDeals
<1>3. ASSUME NEW w \in Workers, WorkerStep(w) PROVE DealInv'
  BY <1>0, <1>3, LoadDeals, HandleDuplicateDeals, HandlersDeals, RecordTradingDayDeals,
     CountTradingDaysDeals, SendCommandDeals DEF WorkerStep
<1>4. ASSUME NEW w \in Workers, SendFails(w) \/ Crash(w) PROVE DealInv'
  BY <1>0, <1>4, GiveBackDeals
<1>5. CASE Sweep
  BY <1>0, <1>5, ElsewhereDeals DEF Sweep, SweepFinds, SweepSends
<1>6. CASE UNCHANGED engineVars
  BY <1>0, <1>6, ElsewhereDeals DEF engineVars
<1> QED
  BY <1>1, <1>2, <1>3, <1>4, <1>5, <1>6 DEF EngineNext

(* An account that has counted nothing yet and has its Trader account.     *)
FreshStart ==
  \A acc \in InitialAccounts :
    acc.tradingDays = 0 /\ acc.lastProcessedEventId = None /\ acc.platformAccountId # None

(* It holds of fresh accounts before anything has arrived.                 *)
LEMMA DealsStart ==
  ASSUME FreshStart, EngineInit
  PROVE  DealInv
<1>1. /\ account \in InitialAccounts /\ account \in AccountDoc
      /\ account.tradingDays = 0 /\ account.lastProcessedEventId = None
      /\ account.platformAccountId # None /\ account.totalTrades \in Nat
  <2>1. account \in InitialAccounts /\ account \in AccountDoc
    BY InitialAccountsAssumption DEF EngineInit
  <2> QED
    BY <2>1 DEF FreshStart, AccountDoc
<1>2. Seen = {} /\ \A e \in Events : job[e].state = "expected"
  BY DEF EngineInit, Seen
<1>3. ASSUME NEW e \in Events PROVE ~Known(e)
  <2>1. e.id # None
    BY EventsAssumption, NoneAssumption DEF EventDoc
  <2> QED
    BY <1>1, <1>2, <2>1 DEF EngineInit, Known, Remembers, Handling
<1>4. OurRows = {} /\ KnownRows = {} /\ KnownCloses = {}
  BY <1>3 DEF EngineInit, OurRows, RowsFor, KnownRows, KnownCloses, KnownDeals
<1>5. Bounds(KnownRows, account.tradingDays) /\ Cardinality(KnownCloses) <= account.totalTrades
  BY <1>1, <1>4, FS_EmptySet DEF Bounds
<1>6. \A w \in Workers : HoldsDeal(w)
  BY DEF EngineInit, HoldsDeal, Handling
<1> QED
  BY <1>1, <1>2, <1>3, <1>4, <1>5, <1>6, FS_EmptySet DEF DealInv

(* When nothing is under way, the rows are the days of the deals done.     *)
LEMMA DealsCounted ==
  ASSUME IInv, DealInv
  PROVE  DealsAccountedFor
<1> SUFFICES ASSUME Quiescent
             PROVE  /\ account.tradingDays = Cardinality({e.day : e \in {d \in AppliedDeals : d.opens}})
                    /\ account.totalTrades >= Cardinality({d \in AppliedDeals : d.closes})
  BY DEF DealsAccountedFor
<1>1. /\ account.platformAccountId # None /\ account \in AccountDoc
      /\ IsFiniteSet(Seen) /\ IsFiniteSet(dayRows)
      /\ account.tradingDays \in Nat /\ account.totalTrades \in Nat
  <2>1. account \in AccountDoc
    BY DEF IInv, TypeOK
  <2> QED
    BY <2>1 DEF DealInv, IInv, AccountDoc
<1>2. AppliedDeals = {e \in Seen : Ours(e)}
  BY <1>1 DEF Quiescent, AppliedDeals, EventForCurrentPlatformAccount, Seen, Ours
<1>3. AppliedDeals \subseteq KnownDeals
  BY <1>2 DEF Quiescent, Seen, KnownDeals, Known
<1> DEFINE opening == {d \in AppliedDeals : d.opens}
           closing == {d \in AppliedDeals : d.closes}
           dates   == {e.day : e \in opening}
<1>4. KnownRows = OurRows
  BY <1>2, <1>3 DEF DealInv, KnownRows
<1>5. account.tradingDays = Cardinality(OurRows) /\ IsFiniteSet(OurRows)
  <2>1. IsFiniteSet(OurRows) /\ Cardinality(OurRows) \in Nat
    BY <1>1, RowsFinite
  <2> QED
    BY <1>1, <1>4, <2>1 DEF DealInv, Bounds
<1>6. OurRows = {RowOf(e) : e \in opening}
  BY <1>2, <1>3, <1>4 DEF DealInv, KnownRows
<1>7. Cardinality(dates) = Cardinality(OurRows)
  <2> DEFINE f == [r \in OurRows |-> r.day]
  <2>1. f \in Bijection(OurRows, dates)
    <3>1. f \in [OurRows -> dates]
      BY <1>6 DEF RowOf
    <3>2. \A a, b \in OurRows : f[a] = f[b] => a = b
      BY <1>6 DEF RowOf
    <3>3. ASSUME NEW d \in dates PROVE \E r \in OurRows : f[r] = d
      <4>1. PICK e \in opening : e.day = d
        OBVIOUS
      <4>2. RowOf(e) \in OurRows /\ RowOf(e).day = d
        BY <1>6, <4>1 DEF RowOf
      <4> HIDE DEF opening, dates
      <4> QED
        BY <4>2
    <3> HIDE DEF f, dates
    <3>4. IsInjective(f)
      BY <3>1, <3>2 DEF IsInjective
    <3> QED
      BY <3>1, <3>3, <3>4 DEF Bijection, Injection, Surjection
  <2> QED
    BY <1>5, <2>1, FS_Bijection DEF ExistsBijection
<1>8. Cardinality(closing) <= account.totalTrades
  <2>1. closing \subseteq KnownCloses /\ KnownCloses \subseteq KnownDeals
    BY <1>3 DEF KnownCloses
  <2>2. IsFiniteSet(KnownCloses) /\ Cardinality(KnownCloses) \in Nat
    BY <2>1, KnownFinite
  <2>3. Cardinality(closing) <= Cardinality(KnownCloses) /\ Cardinality(closing) \in Nat
    BY <2>1, <2>2, FS_Subset, FS_CardinalityType
  <2> QED
    BY <1>1, <2>2, <2>3 DEF DealInv
<1>9. Cardinality(closing) \in Nat
  <2>1. closing \subseteq Seen
    BY <1>2
  <2> QED
    BY <1>1, <2>1, FS_Subset, FS_CardinalityType
<1> QED
  BY <1>1, <1>5, <1>7, <1>8, <1>9

(* From a fresh account, when nothing is under way the trading days are    *)
(* exactly the distinct days of the processed opening deals, and every     *)
(* processed closing deal has been counted as a trade.                     *)
THEOREM DealsAreAccounted == FreshStart /\ EngineSpec => []DealsAccountedFor
<1>1. FreshStart /\ EngineInit => DealInv
  BY DealsStart
<1>2. IInv /\ DealInv /\ [EngineNext]_engineVars => DealInv'
  BY DealsInductive
<1>3. IInv /\ DealInv => DealsAccountedFor
  BY DealsCounted
<1> QED
  BY <1>1, <1>2, <1>3, InductiveInvariant, PTL DEF EngineSpec

-----------------------------------------------------------------------------
(* The events applied in turn. A commit that passes the compare-and-set    *)
(* was decided on the account itself. What an opening deal was given       *)
(* before its save stays right: the account does not leave its phase, rows *)
(* are only added, and its own is one of those that were counted.          *)
CountsDeal(w) ==
  /\ ~Duplicate(w) /\ ~Ignored(read[w], event[w])
  /\ event[w].type = "DEAL" /\ event[w].opens
  /\ DayRowOf(account, event[w]) \in dayRows

TurnOf(w) ==
  /\ pc[w] \in Handling =>
       /\ read[w].currentPhase = account.currentPhase
       /\ read[w].platformAccountId = account.platformAccountId
  /\ pc[w] \in {"count", "save"} => CountsDeal(w)
  /\ pc[w] = "save" => days[w] \in DaysFound(event[w])

TurnInv == \A w \in Workers : TurnOf(w)

(* An event applied in turn leaves the account in its place.               *)
LEMMA TurnKeepsPlace ==
  ASSUME account \in AccountDoc, Consistent(account), NEW e \in EventDoc, ApplyEvent(e)
  PROVE  /\ account'.currentPhase = account.currentPhase
         /\ account'.platformAccountId = account.platformAccountId
<1>1. ASSUME NEW next \in AccountDoc, Becomes(next, e), CountsKept(account, next)
      PROVE  /\ account'.currentPhase = account.currentPhase
             /\ account'.platformAccountId = account.platformAccountId
  BY <1>1 DEF Becomes, AccountDoc, CountsKept
<1>2. CASE Ignore(e)
  BY <1>1, <1>2 DEF Ignore, CountsKept
<1>3. CASE ApplyControl(e)
  BY <1>1, <1>3, ControlLegal, ControlCounts DEF ApplyControl, Legal
<1>4. CASE ApplySnapshot(e)
  BY <1>1, <1>4, SnapshotLegal, SnapshotCounts DEF ApplySnapshot, Legal
<1>5. CASE ApplyDeal(e)
  <2>1. PICK n : Becomes(DealOutcome(account, e, n), e)
    BY <1>5 DEF ApplyDeal
  <2> QED
    BY <2>1 DEF Becomes, DealOutcome, AccountDoc
<1> QED
  BY <1>2, <1>3, <1>4, <1>5 DEF ApplyEvent

(* A guarded commit is the account becoming the outcome.                   *)
LEMMA CommitBecomes ==
  ASSUME IInv, NEW w \in Workers, pc[w] \in Handling, NEW next,
         Legal(read[w], next), GuardHolds(w), Commit(w, next)
  PROVE  Becomes(next, event[w])
<1>1. read[w] = account /\ account \in AccountDoc /\ event[w] \in EventDoc
  BY EventsAssumption DEF IInv, InFlight, GuardHolds, TypeOK
<1> DEFINE marked == [next EXCEPT !.lastProcessedEventId = event[w].id]
<1>2. next \in AccountDoc /\ SameIdentity(account, next)
  BY <1>1 DEF Legal
<1>3. marked \in AccountDoc /\ SameIdentity(account, marked)
  BY <1>1, <1>2 DEF AccountDoc, EventDoc, SameIdentity
<1>4. WriteModified(account, account, marked) = marked
  BY <1>1, <1>3 DEF WriteModified, AccountDoc, SameIdentity
<1> QED
  BY <1>1, <1>4 DEF Commit, Becomes

(* A conditional save applies its event to the account or leaves it alone. *)
LEMMA HandlersInTurn ==
  ASSUME IInv, TurnInv, NEW w \in Workers,
         HandleIgnored(w) \/ HandleControl(w) \/ HandleDeal(w) \/ HandleSnapshot(w)
  PROVE  UNCHANGED dayRows /\ (UNCHANGED account \/ ApplyEvent(event[w]))
<1>1. /\ pc[w] \in {"handle", "save"} /\ pc[w] \in Handling
      /\ event[w] \in Events /\ event[w] \in EventDoc /\ read[w] \in AccountDoc
      /\ days[w] \in Nat /\ account \in AccountDoc /\ Consistent(account)
      /\ GuardHolds(w) => read[w] = account
  <2>1. pc[w] \in {"handle", "save"} /\ pc[w] \in Handling
    BY DEF HandleIgnored, HandleControl, HandleDeal, HandleSnapshot, Applies, Handling
  <2> QED
    BY <2>1, EventsAssumption DEF IInv, InFlight, TypeOK, GuardHolds
<1>2. ASSUME NEW next, NEW command, SaveConditional(w, next, command),
             GuardHolds(w) => Legal(account, next)
      PROVE  /\ UNCHANGED dayRows
             /\ UNCHANGED account \/ (GuardHolds(w) /\ Becomes(next, event[w]))
  BY <1>1, <1>2, CommitBecomes DEF SaveConditional
<1>3. CASE HandleIgnored(w)
  <2>1. UNCHANGED dayRows /\ (UNCHANGED account \/ (GuardHolds(w) /\ Becomes(read[w], event[w])))
    BY <1>1, <1>2, <1>3, SameAccountLegal DEF HandleIgnored
  <2> QED
    BY <1>1, <1>3, <2>1 DEF HandleIgnored, Duplicate, ApplyEvent, Ignore
<1>4. CASE HandleControl(w)
  <2>1. ~Duplicate(w) /\ ~Ignored(read[w], event[w]) /\ event[w].type = "CONTROL"
        /\ SaveConditional(w, ControlOutcome(read[w], event[w]), None)
    BY <1>4 DEF HandleControl, Applies
  <2>2. UNCHANGED dayRows /\ (UNCHANGED account
          \/ (GuardHolds(w) /\ Becomes(ControlOutcome(read[w], event[w]), event[w])))
    BY <1>1, <1>2, <2>1, ControlLegal
  <2> QED
    BY <1>1, <2>1, <2>2 DEF Duplicate, ApplyEvent, ApplyControl
<1>5. CASE HandleSnapshot(w)
  <2>1. ~Duplicate(w) /\ ~Ignored(read[w], event[w]) /\ event[w].type = "SNAPSHOT"
        /\ \E command : SaveConditional(w, SnapshotOutcome(read[w], event[w]), command)
    BY <1>5 DEF HandleSnapshot, Applies
  <2>2. UNCHANGED dayRows /\ (UNCHANGED account
          \/ (GuardHolds(w) /\ Becomes(SnapshotOutcome(read[w], event[w]), event[w])))
    BY <1>1, <1>2, <2>1, SnapshotLegal
  <2> QED
    BY <1>1, <2>1, <2>2 DEF Duplicate, ApplyEvent, ApplySnapshot
<1>6. CASE HandleDeal(w)
  <2>1. /\ ~Duplicate(w) /\ ~Ignored(read[w], event[w]) /\ event[w].type = "DEAL"
        /\ event[w].opens =>
             DayRowOf(account, event[w]) \in dayRows /\ days[w] \in DaysFound(event[w])
    BY <1>6 DEF HandleDeal, Applies, TurnInv, TurnOf, CountsDeal
  <2>2. UNCHANGED dayRows /\ (UNCHANGED account
          \/ (GuardHolds(w) /\ Becomes(DealOutcome(read[w], event[w], days[w]), event[w])))
    BY <1>1, <1>2, <1>6, DealLegal DEF HandleDeal
  <2>3. ~event[w].opens =>
          DealOutcome(account, event[w], days[w]) = DealOutcome(account, event[w], 0)
    BY DEF DealOutcome
  <2> QED
    BY <1>1, <2>1, <2>2, <2>3 DEF Duplicate, ApplyEvent, ApplyDeal
<1> QED
  BY <1>3, <1>4, <1>5, <1>6

(* Every step of the engine is one of the sequential account, or none.     *)
LEMMA StepInTurn ==
  ASSUME IInv, TurnInv, [EngineNext]_engineVars
  PROVE  \/ UNCHANGED <<account, dayRows>>
         \/ \E e \in Events : NoteDay(e)
         \/ \E e \in Events : ApplyEvent(e) /\ UNCHANGED dayRows
<1>1. ASSUME NEW w \in Workers, RecordTradingDay(w)
      PROVE  \E e \in Events : NoteDay(e)
  <2>1. /\ event[w] \in Events
        /\ read[w].currentPhase = account.currentPhase
        /\ read[w].platformAccountId = account.platformAccountId
    BY <1>1 DEF RecordTradingDay, Applies, IInv, InFlight, Handling,
       TurnInv, TurnOf
  <2>2. ~Ignored(account, event[w])
    BY <1>1, <2>1 DEF RecordTradingDay, Applies, Ignored, EventForCurrentPlatformAccount
  <2> QED
    BY <1>1, <2>1, <2>2 DEF RecordTradingDay, Applies, NoteDay, DayRowOf
<1>2. ASSUME NEW w \in Workers,
             HandleIgnored(w) \/ HandleControl(w) \/ HandleDeal(w) \/ HandleSnapshot(w)
      PROVE  UNCHANGED <<account, dayRows>>
               \/ \E e \in Events : ApplyEvent(e) /\ UNCHANGED dayRows
  <2>1. event[w] \in Events
    BY <1>2 DEF HandleIgnored, HandleControl, HandleDeal, HandleSnapshot, Applies, Handling,
       IInv, InFlight
  <2> QED
    BY <1>2, <2>1, HandlersInTurn
<1>3. ASSUME NEW w \in Workers,
             \/ TakeBatch(w) \/ Load(w) \/ HandleDuplicate(w) \/ CountTradingDays(w)
             \/ SendCommand(w) \/ SendFails(w) \/ Crash(w)
      PROVE  UNCHANGED <<account, dayRows>>
  BY <1>3 DEF TakeBatch, Load, HandleDuplicate, CountTradingDays, SendCommand, SendFails, Crash
<1>4. CASE (\E e \in Events : Arrive(e)) \/ Sweep \/ UNCHANGED engineVars
  BY <1>4 DEF Arrive, Sweep, SweepFinds, SweepSends, engineVars
<1> QED
  BY <1>1, <1>2, <1>3, <1>4 DEF EngineNext, WorkerStep

(* The account stays in its place and rows are only added.                 *)
LEMMA StepKeepsPlace ==
  ASSUME IInv, TurnInv, [EngineNext]_engineVars
  PROVE  SamePlace
<1>1. /\ account \in AccountDoc /\ Consistent(account) /\ Events \subseteq EventDoc
      /\ IsFiniteSet(dayRows) /\ IsFiniteSet(dayRows')
  BY StepInductive, EventsAssumption DEF IInv, TypeOK
<1>2. ASSUME NEW e \in Events, ApplyEvent(e), UNCHANGED dayRows
      PROVE  SamePlace
  BY <1>1, <1>2, TurnKeepsPlace DEF SamePlace
<1>3. ASSUME NEW e \in Events, NoteDay(e)
      PROVE  SamePlace
  BY <1>1, <1>3 DEF SamePlace, NoteDay
<1>4. CASE UNCHANGED <<account, dayRows>>
  BY <1>1, <1>4 DEF SamePlace
<1> QED
  BY <1>2, <1>3, <1>4, StepInTurn

(* What was found of the days stays within what is noted.                  *)
LEMMA DaysStayFound ==
  ASSUME SamePlace, NEW e, NEW n \in DaysFound(e)
  PROVE  n \in DaysFound(e)'
<1> DEFINE rows == RowsFor(account.currentPhase, e.platformAccountId)
<1>1. rows \subseteq rows' /\ rows' \subseteq dayRows'
  BY DEF SamePlace, RowsFor
<1>2. IsFiniteSet(rows') /\ IsFiniteSet(rows)
  BY <1>1, FS_Subset DEF SamePlace
<1>3. Cardinality(rows) <= Cardinality(rows')
  BY <1>1, <1>2, FS_Subset
<1>4. Cardinality(rows) \in Nat /\ Cardinality(rows') \in Nat
  BY <1>2, FS_CardinalityType
<1> QED
  BY <1>3, <1>4 DEF DaysFound

(* The days found by a count are those of the rows, the deal's own included.*)
LEMMA OwnDayFound ==
  ASSUME IsFiniteSet(dayRows), NEW e, DayRowOf(account, e) \in dayRows
  PROVE  Cardinality(RowsFor(account.currentPhase, e.platformAccountId)) \in DaysFound(e)
<1> DEFINE rows == RowsFor(account.currentPhase, e.platformAccountId)
<1>1. DayRowOf(account, e) \in rows
  BY DEF DayRowOf, RowsFor
<1>2. IsFiniteSet(rows)
  BY FS_Subset DEF RowsFor
<1>3. Cardinality(rows) \in Nat /\ Cardinality(rows) # 0
  BY <1>1, <1>2, FS_CardinalityType, FS_EmptySet
<1> QED
  BY <1>3 DEF DaysFound

(* A worker that does not step holds what it held.                         *)
LEMMA WaitingInTurn ==
  ASSUME SamePlace, NEW v \in Workers, TurnOf(v),
         pc'[v] = pc[v], read'[v] = read[v], event'[v] = event[v], days'[v] = days[v]
  PROVE  TurnOf(v)'
<1>1. CountsDeal(v) => CountsDeal(v)'
  BY DEF SamePlace, CountsDeal, Duplicate, DayRowOf
<1>2. PICK e : e = event[v] /\ e = event'[v]
  OBVIOUS
<1>3. days[v] \in DaysFound(e) => days[v] \in DaysFound(e)'
  BY DaysStayFound
<1> QED
  BY <1>1, <1>2, <1>3 DEF TurnOf, SamePlace, DaysFound

(* A worker moves, and the others keep what they hold.                     *)
StepsAlone(w, next) ==
  /\ pc'[w] \in next
  /\ \A v \in Workers \ {w} :
       pc'[v] = pc[v] /\ read'[v] = read[v] /\ event'[v] = event[v] /\ days'[v] = days[v]

LEMMA LetsGoInTurn ==
  ASSUME TypeOK, NEW w \in Workers,
         TakeBatch(w) \/ FinishEvent(w) \/ FailBatch(w) \/ Crash(w)
  PROVE  StepsAlone(w, {"idle", "load"})
<1>1. CASE TakeBatch(w)
  BY <1>1 DEF TakeBatch, StepsAlone, TypeOK
<1>2. CASE FinishEvent(w) \/ FailBatch(w) \/ Crash(w)
  <2>1. PICK next \in {"idle", "load"} : Forget(w, next)
    BY <1>2 DEF FinishEvent, FailBatch, Crash
  <2> QED
    BY <2>1 DEF Forget, StepsAlone, TypeOK
<1> QED
  BY <1>1, <1>2

(* Having committed, a worker sends the command with the copy it has.      *)
LEMMA SendsInTurn ==
  ASSUME TypeOK, NEW w \in Workers,
         pc' = [pc EXCEPT ![w] = "send"], UNCHANGED <<read, event, days>>
  PROVE  StepsAlone(w, {"send"}) /\ read'[w] = read[w]
BY DEF StepsAlone, TypeOK

(* What every worker holds of its event stays right.                       *)
LEMMA TurnInductive ==
  ASSUME IInv, TurnInv, [EngineNext]_engineVars
  PROVE  TurnInv'
<1>0. TypeOK /\ SamePlace /\ IsFiniteSet(dayRows) /\ \A v \in Workers : TurnOf(v)
  BY StepKeepsPlace DEF IInv, TurnInv
<1>1. ASSUME NEW w \in Workers, NEW next, StepsAlone(w, next), TurnOf(w)'
      PROVE  TurnInv'
  BY <1>0, <1>1, WaitingInTurn DEF StepsAlone, TurnInv
<1>2. ASSUME NEW w \in Workers, StepsAlone(w, {"idle", "load"})
      PROVE  TurnInv'
  BY <1>1, <1>2 DEF StepsAlone, TurnOf, Handling
<1>3. ASSUME NEW w \in Workers, pc[w] \in Handling,
             pc' = [pc EXCEPT ![w] = "send"], UNCHANGED <<read, event, days>>
      PROVE  TurnInv'
  <2>1. StepsAlone(w, {"send"}) /\ read'[w] = read[w]
    BY <1>0, <1>3, SendsInTurn
  <2>2. TurnOf(w)'
    BY <1>0, <1>3, <2>1 DEF StepsAlone, TurnOf, SamePlace
  <2> QED
    BY <1>1, <2>1, <2>2
<1>4. ASSUME NEW w \in Workers, Load(w)
      PROVE  TurnInv'
  <2>1. StepsAlone(w, {"handle"}) /\ read'[w] = account'
    BY <1>0, <1>4 DEF Load, StepsAlone, TypeOK
  <2>2. TurnOf(w)'
    BY <2>1 DEF StepsAlone, TurnOf
  <2> QED
    BY <1>1, <2>1, <2>2
<1>5. ASSUME NEW w \in Workers, RecordTradingDay(w)
      PROVE  TurnInv'
  <2>1. /\ ~Duplicate(w) /\ ~Ignored(read[w], event[w])
        /\ event[w].type = "DEAL" /\ event[w].opens
        /\ DayRowOf(read[w], event[w]) \in dayRows'
        /\ UNCHANGED <<account, read, event, days>>
    BY <1>5 DEF RecordTradingDay, Applies
  <2>2. StepsAlone(w, {"count"}) /\ pc[w] \in Handling
    BY <1>0, <1>5 DEF RecordTradingDay, Applies, StepsAlone, TypeOK, Handling
  <2>3. DayRowOf(account, event[w]) \in dayRows'
    BY <1>0, <2>1, <2>2 DEF TurnOf, DayRowOf
  <2>4. TurnOf(w)'
    BY <1>0, <2>1, <2>2, <2>3 DEF TurnOf, CountsDeal, Duplicate, StepsAlone
  <2> QED
    BY <1>1, <2>2, <2>4
<1>6. ASSUME NEW w \in Workers, CountTradingDays(w)
      PROVE  TurnInv'
  <2>1. UNCHANGED <<account, dayRows, read, event>> /\ pc[w] = "count"
    BY <1>6 DEF CountTradingDays
  <2>2. /\ StepsAlone(w, {"save"})
        /\ days'[w] = Cardinality(RowsFor(read[w].currentPhase, event[w].platformAccountId))
    BY <1>0, <1>6 DEF CountTradingDays, StepsAlone, TypeOK
  <2>3. CountsDeal(w) /\ read[w].currentPhase = account.currentPhase
    BY <1>0, <2>1 DEF TurnOf, Handling
  <2>4. days'[w] \in DaysFound(event[w])
    BY <1>0, <2>2, <2>3, OwnDayFound DEF CountsDeal
  <2>5. TurnOf(w)'
    BY <1>0, <2>1, <2>2, <2>3, <2>4 DEF TurnOf, CountsDeal, Duplicate, StepsAlone, Handling, DaysFound,
       RowsFor
  <2> QED
    BY <1>1, <2>2, <2>5
<1>7. ASSUME NEW w \in Workers, HandleDuplicate(w)
      PROVE  TurnInv'
  BY <1>0, <1>2, <1>3, <1>7, LetsGoInTurn DEF HandleDuplicate, Handling
<1>8. ASSUME NEW w \in Workers, pc[w] \in Handling, NEW next, NEW command,
             SaveConditional(w, next, command)
      PROVE  TurnInv'
  BY <1>0, <1>2, <1>3, <1>8, LetsGoInTurn DEF SaveConditional
<1>9. ASSUME NEW w \in Workers,
             HandleIgnored(w) \/ HandleControl(w) \/ HandleDeal(w) \/ HandleSnapshot(w)
      PROVE  TurnInv'
  BY <1>8, <1>9 DEF HandleIgnored, HandleControl, HandleDeal, HandleSnapshot, Applies, Handling
<1>10. ASSUME NEW w \in Workers, TakeBatch(w) \/ SendCommand(w) \/ SendFails(w) \/ Crash(w)
       PROVE  TurnInv'
  BY <1>0, <1>2, <1>10, LetsGoInTurn DEF SendCommand, SendFails
<1>11. CASE (\E e \in Events : Arrive(e)) \/ Sweep \/ UNCHANGED engineVars
  <2>1. UNCHANGED <<pc, read, event, days>>
    BY <1>11 DEF Arrive, Sweep, SweepFinds, SweepSends, engineVars, workerVars
  <2> QED
    BY <1>0, <2>1, WaitingInTurn DEF TurnInv
<1> QED
  BY <1>4, <1>5, <1>6, <1>7, <1>9, <1>10, <1>11 DEF EngineNext, WorkerStep

(* The engine with its workers, batches, redeliveries and crashes is the   *)
(* account to which events are applied in turn: what the compare-and-set   *)
(* of saveAccountConditional is for.                                       *)
THEOREM EngineAppliesInTurn == EngineSpec => AppliesEventsInTurn
<1>1. EngineInit => TurnInv /\ SequentialInit
  BY DEF EngineInit, TurnInv, TurnOf, Handling, SequentialInit
<1>2. IInv /\ TurnInv /\ [EngineNext]_engineVars => TurnInv'
  BY TurnInductive
<1>3. IInv /\ TurnInv /\ [EngineNext]_engineVars => [SequentialNext]_<<account, dayRows>>
  BY StepInTurn DEF SequentialNext, ApplyEvent
<1> QED
  BY <1>1, <1>2, <1>3, InductiveInvariant, PTL DEF EngineSpec, SequentialSpec, AppliesEventsInTurn
=============================================================================
