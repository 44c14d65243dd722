-------------------------- MODULE TradingAccount --------------------------
(***************************************************************************)
(* The Funded account document and the pure decisions the state engine     *)
(* takes about it (accounts/account.model.js, workers/state-engine/*.js).  *)
(*                                                                         *)
(* Data is abstracted to what decisions distinguish:                       *)
(*  - a valuation (balance, equity, margin, the loss projections) is the   *)
(*    level it puts the account at under its phase rules, and the time of  *)
(*    the platform state it describes;                                     *)
(*  - times are positive numbers, 0 being an unset (null) date;            *)
(*  - valuation sequences are numbers; NoSequence is one that an event     *)
(*    does not have, and a null is compared as 0;                          *)
(*  - the account is on the "acg-trader" platform and has its rules, so    *)
(*    evaluateRules never throws.                                          *)
(***************************************************************************)
EXTENDS Integers

CONSTANTS
  None,                \* JavaScript null
  EventIds,            \* identifiers of signed webhook events
  PlatformIds,         \* identifiers of Trader accounts
  Operations,          \* lifecycleOperationId values (master approvals)
  MinimumTradingDays   \* rules.minimumTradingDays

ASSUME NoneAssumption ==
  /\ None \notin EventIds
  /\ None \notin PlatformIds
  /\ None \notin Operations

ASSUME MinimumDaysAssumption == MinimumTradingDays \in Nat

-----------------------------------------------------------------------------
(* Types.                                                                  *)

AccountStatus ==
  {"NEW", "ACTIVE", "BREACHED", "LOCKED", "PASSED", "PHASE_2",
   "FUNDED_REVIEW", "FUNDED", "EXPIRED", "CLOSED"}

Commands ==
  {"LOCK_ACCOUNT", "CREATE_PHASE_2_ACCOUNT", "COMPLETE_TRIAL",
   "ENTER_FUNDED_REVIEW"}

(* Status of an account on the Trader side, and of its record in the       *)
(* account's platformAccounts array.                                       *)
PlatformStatus ==
  {"ACTIVE", "PAUSED", "DISABLED", "BREACHED", "CLOSED", "COMPLETED"}

(* Where a valuation puts the account: a daily or maximum loss at or above *)
(* its limit (or both), balance and equity at the profit target, or none.  *)
Levels == {"NORMAL", "TARGET", "DAILY", "MAX", "BOTH"}

NoSequence == -1

SequenceNumbers == Nat \cup {NoSequence}

Valuation == [level : Levels, at : Nat]

BreachRecord ==
  [source : {"FUNDED_SNAPSHOT", "TRADER_TRIGGER", "CONTROL_FALLBACK"},
   reason : {"DAILY_DRAWDOWN", "MAX_DRAWDOWN"},
   at     : Nat]

ASSUME NoneIsNoData ==
  None \notin BreachRecord /\ None \notin Commands /\ None \notin PlatformStatus

TrialResults == {"PASSED", "BREACHED", "EXPIRED", "CANCELLED"}

AccountDoc ==
  [version              : Nat,
   status               : AccountStatus,
   enabled              : BOOLEAN,
   commandPending       : Commands \cup {None},
   lifecycleOperation   : Operations \cup {None},
   accountMode          : {"CHALLENGE", "DEMO"},
   challengeType        : {"ONE_STEP", "TWO_STEP"},
   currentPhase         : {1, 2},
   platformAccountId    : PlatformIds \cup {None},
   platformStatus       : [PlatformIds -> PlatformStatus \cup {None}],
   valuation            : Valuation,
   lastSnapshotAt       : Nat,
   lastSnapshotSequence : Nat,
   tradingDays          : Nat,
   totalTrades          : Nat,
   breach               : BreachRecord \cup {None},
   lastProcessedEventId : EventIds \cup {None},
   activeTrialKey       : BOOLEAN,
   trialResult          : TrialResults \cup {None}]

(* An event as the engine reads it. A field that has no meaning for an     *)
(* event's type holds an arbitrary member of its type.                     *)
EventDoc ==
  [id                : EventIds,
   type              : {"SNAPSHOT", "DEAL", "CONTROL", "OTHER"},
   signed            : BOOLEAN,     \* crossed the signed webhook boundary
   platformAccountId : PlatformIds, \* required by validateEnvelope
   at                : Nat \ {0},   \* occurredAt, or the evidence's valuedAtMs
   sequence          : SequenceNumbers,
   live              : BOOLEAN,     \* complete and valuationStatus LIVE
   metrics           : BOOLEAN,     \* a control event carrying metrics
   level             : Levels,
   evidence          : BOOLEAN,     \* a control event carrying breachEvidence
   status            : PlatformStatus,
   opens             : BOOLEAN,     \* deal types OPEN, REVERSE_OPEN
   closes            : BOOLEAN,     \* deal types CLOSE, STOP_LOSS, ...
   day               : Nat]         \* UTC calendar day of the deal

-----------------------------------------------------------------------------
(* Which events apply.                                                     *)

EventForCurrentPlatformAccount(acc, e) ==
  \/ acc.platformAccountId = None
  \/ e.platformAccountId = acc.platformAccountId

(* Faulty: the time alone decides, the sequence breaks no tie.             *)
NotNewerByTime(acc, e) == e.at < acc.lastSnapshotAt

(* The order of valuations, as the account's stamp and an event give it:   *)
(* time first, the sequence only as a tie-breaker when the event has one.  *)
NotNewer(acc, e) ==
  \/ e.at < acc.lastSnapshotAt
  \/ /\ e.at = acc.lastSnapshotAt
     /\ e.sequence # NoSequence
     /\ e.sequence <= acc.lastSnapshotSequence

OlderThanLastAuthoritativeSnapshot(acc, e) ==
  acc.lastSnapshotAt # 0 /\ NotNewer(acc, e)

(* The control variant compares the evidence's sequence, which an event    *)
(* without evidence does not have.                                         *)
ControlMetricsOlder(acc, e) ==
  acc.lastSnapshotAt # 0
    /\ NotNewer(acc, [e EXCEPT !.sequence = IF e.evidence THEN @ ELSE NoSequence])

-----------------------------------------------------------------------------
(* Rules and decisions.                                                    *)

DailyLossBreached(acc) == acc.valuation.level \in {"DAILY", "BOTH"}
MaxLossBreached(acc)   == acc.valuation.level \in {"MAX", "BOTH"}
ProfitTargetHit(acc)   == acc.valuation.level = "TARGET"
MinimumDaysMet(acc)    == acc.tradingDays >= MinimumTradingDays

Decided == {"BREACHED", "LOCKED", "PASSED", "FUNDED_REVIEW", "EXPIRED",
            "CLOSED", "FUNDED"}

NoDecision == [status |-> "NEW", command |-> None]

(* What passing the current phase leads to.                                *)
PhasePassed(acc) ==
  IF acc.currentPhase = 1 /\ acc.challengeType = "TWO_STEP"
  THEN [status |-> "PASSED", command |-> "CREATE_PHASE_2_ACCOUNT"]
  ELSE IF acc.accountMode = "DEMO"
       THEN [status |-> "PASSED", command |-> "COMPLETE_TRIAL"]
       ELSE [status |-> "FUNDED_REVIEW", command |-> "ENTER_FUNDED_REVIEW"]

ResolveDecision(acc) ==
  IF acc.status \in Decided THEN NoDecision
  ELSE IF DailyLossBreached(acc) \/ MaxLossBreached(acc)
       THEN [status |-> "BREACHED", command |-> "LOCK_ACCOUNT"]
       ELSE IF ProfitTargetHit(acc) /\ MinimumDaysMet(acc)
            THEN PhasePassed(acc)
            ELSE NoDecision

CommandStillValid(acc, command) ==
  /\ acc.commandPending = command
  /\ \/ command = "LOCK_ACCOUNT" /\ acc.status = "BREACHED"
     \/ /\ command = "CREATE_PHASE_2_ACCOUNT"
        /\ acc.challengeType = "TWO_STEP"
        /\ acc.status \in {"PASSED", "PHASE_2"}
     \/ /\ command = "COMPLETE_TRIAL"
        /\ acc.accountMode = "DEMO"
        /\ acc.status = "PASSED"
     \/ command = "ENTER_FUNDED_REVIEW" /\ acc.status = "FUNDED_REVIEW"

-----------------------------------------------------------------------------
(* Breach records.                                                         *)

(* Faulty: the level itself is taken for the reason.                       *)
BreachReasonUnmapped(level) == level

BreachReason(level) ==
  IF level \in {"MAX", "BOTH"} THEN "MAX_DRAWDOWN" ELSE "DAILY_DRAWDOWN"

SnapshotBreach(e) ==
  [source |-> "FUNDED_SNAPSHOT", reason |-> BreachReason(e.level), at |-> e.at]

ControlBreach(e) ==
  [source |-> IF e.evidence THEN "TRADER_TRIGGER" ELSE "CONTROL_FALLBACK",
   reason |-> BreachReason(e.level),
   at     |-> e.at]

(* Faulty: any other source of evidence replaces the record.               *)
ReplaceByOtherSource(existing, candidate) ==
  existing = None \/ candidate.source # existing.source

ShouldReplaceBreachRecord(existing, candidate) ==
  \/ existing = None
  \/ /\ candidate.source = "TRADER_TRIGGER"
     /\ existing.source # "TRADER_TRIGGER"

EndTrial(acc, result) ==
  IF acc.accountMode = "DEMO"
  THEN [acc EXCEPT !.activeTrialKey = FALSE, !.trialResult = result]
  ELSE acc

-----------------------------------------------------------------------------
(* What each kind of event does to the copy of the account a worker read.  *)

(* The metrics of a snapshot or control event (applySnapshotEvent,         *)
(* applySnapshotMetrics).                                                  *)
ApplyMetrics(acc, e) ==
  [acc EXCEPT !.valuation = [level |-> e.level, at |-> e.at]]

(* The ordering stamp: a missing sequence leaves the previous one.         *)
Stamp(acc, e) ==
  [acc EXCEPT !.lastSnapshotAt = e.at,
              !.lastSnapshotSequence =
                 IF e.sequence = NoSequence THEN @ ELSE e.sequence]

ControlMetrics(acc, e) ==
  IF ~e.metrics \/ ControlMetricsOlder(acc, e) THEN acc
  ELSE IF e.evidence THEN Stamp(ApplyMetrics(acc, e), e)
       ELSE ApplyMetrics(acc, e)

RecordStatus(acc, e) ==
  IF acc.platformStatus[e.platformAccountId] = None THEN acc
  ELSE [acc EXCEPT !.platformStatus[e.platformAccountId] = e.status]

(* Faulty: the pending command outlives the breach.                        *)
ControlBreachedCommandKept(acc, e) ==
  EndTrial([acc EXCEPT !.status = "BREACHED", !.enabled = FALSE,
                       !.lifecycleOperation = None,
                       !.breach = ControlBreach(e)], "BREACHED")

ControlBreached(acc, e) ==
  LET ended == EndTrial([acc EXCEPT !.status = "BREACHED",
                                    !.enabled = FALSE,
                                    !.commandPending = None,
                                    !.lifecycleOperation = None],
                        "BREACHED")
  IN  [ended EXCEPT !.breach =
         IF ShouldReplaceBreachRecord(@, ControlBreach(e))
         THEN ControlBreach(e) ELSE @]

ControlOutcome(acc, e) ==
  LET controlled == RecordStatus(ControlMetrics(acc, e), e)
  IN  IF e.status = "BREACHED" /\ acc.status # "CLOSED"
      THEN ControlBreached(controlled, e)
      ELSE controlled

(* A deal: `days` is what countDocuments returned for the current phase    *)
(* and platform account, read only when the deal opens exposure.           *)
DealOutcome(acc, e, days) ==
  [acc EXCEPT !.tradingDays = IF e.opens THEN days ELSE @,
              !.totalTrades = IF e.closes THEN @ + 1 ELSE @]

(* Faulty: the breach is recorded and the trial slot stays taken.          *)
SnapshotBreachedSlotKept(acc, e) ==
  [acc EXCEPT !.lifecycleOperation = None, !.breach = SnapshotBreach(e)]

SnapshotBreached(acc, e) ==
  LET ended == EndTrial([acc EXCEPT !.lifecycleOperation = None], "BREACHED")
  IN  [ended EXCEPT !.breach = IF @ = None THEN SnapshotBreach(e) ELSE @]

(* A decision with a command disables the account at once: dashboard       *)
(* launches stop while the platform-side command is pending.               *)
Decide(acc, e) ==
  LET decision == ResolveDecision(acc)
      decided  == [acc EXCEPT !.status = decision.status,
                              !.enabled = FALSE,
                              !.commandPending = decision.command]
  IN  IF decision = NoDecision THEN acc
      ELSE IF decision.status = "BREACHED" THEN SnapshotBreached(decided, e)
           ELSE decided

(* BREACHED, LOCKED and FUNDED accounts take the metrics and no decision.  *)
SnapshotOutcome(acc, e) ==
  LET valued == Stamp(ApplyMetrics(acc, e), e)
  IN  IF acc.status \in {"BREACHED", "LOCKED", "FUNDED"} THEN valued
      ELSE Decide(valued, e)

SnapshotCommand(acc, e) ==
  IF acc.status \in {"BREACHED", "LOCKED", "FUNDED"} THEN None
  ELSE ResolveDecision(Stamp(ApplyMetrics(acc, e), e)).command

(* Events the engine marks as processed and otherwise ignores.             *)
Ignored(acc, e) ==
  \/ ~e.signed
  \/ ~EventForCurrentPlatformAccount(acc, e)
  \/ e.type = "OTHER"
  \/ /\ e.type = "SNAPSHOT"
     /\ \/ acc.status \in {"CLOSED", "EXPIRED"}
        \/ ~e.live
        \/ OlderThanLastAuthoritativeSnapshot(acc, e)

-----------------------------------------------------------------------------
(* A Mongoose document saves only the paths that were modified since it    *)
(* was read: `read` is the copy that was loaded, `next` the copy with its  *)
(* modifications and `current` what the collection holds now. The version  *)
(* is never written from a copy.                                           *)
WriteModified(current, read, next) ==
  LET Pick(new, old, stored) == IF new # old THEN new ELSE stored
  IN  [version              |-> current.version,
       status               |-> Pick(next.status, read.status, current.status),
       enabled              |-> Pick(next.enabled, read.enabled, current.enabled),
       commandPending       |-> Pick(next.commandPending, read.commandPending,
                                     current.commandPending),
       lifecycleOperation   |-> Pick(next.lifecycleOperation,
                                     read.lifecycleOperation,
                                     current.lifecycleOperation),
       accountMode          |-> current.accountMode,
       challengeType        |-> current.challengeType,
       currentPhase         |-> Pick(next.currentPhase, read.currentPhase,
                                     current.currentPhase),
       platformAccountId    |-> Pick(next.platformAccountId,
                                     read.platformAccountId,
                                     current.platformAccountId),
       platformStatus       |-> [p \in PlatformIds |->
                                  Pick(next.platformStatus[p],
                                       read.platformStatus[p],
                                       current.platformStatus[p])],
       valuation            |-> Pick(next.valuation, read.valuation,
                                     current.valuation),
       lastSnapshotAt       |-> Pick(next.lastSnapshotAt, read.lastSnapshotAt,
                                     current.lastSnapshotAt),
       lastSnapshotSequence |-> Pick(next.lastSnapshotSequence,
                                     read.lastSnapshotSequence,
                                     current.lastSnapshotSequence),
       tradingDays          |-> Pick(next.tradingDays, read.tradingDays,
                                     current.tradingDays),
       totalTrades          |-> Pick(next.totalTrades, read.totalTrades,
                                     current.totalTrades),
       breach               |-> Pick(next.breach, read.breach, current.breach),
       lastProcessedEventId |-> Pick(next.lastProcessedEventId,
                                     read.lastProcessedEventId,
                                     current.lastProcessedEventId),
       activeTrialKey       |-> Pick(next.activeTrialKey, read.activeTrialKey,
                                     current.activeTrialKey),
       trialResult          |-> Pick(next.trialResult, read.trialResult,
                                     current.trialResult)]

=============================================================================
