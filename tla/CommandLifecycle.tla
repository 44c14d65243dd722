-------------------------- MODULE CommandLifecycle --------------------------
(***************************************************************************)
(* The command worker (workers/command-worker.js) beside the state engine: *)
(* it carries lifecycle commands out on the Trader platform and writes the *)
(* result to the account document that the engine writes too.              *)
(*                                                                         *)
(* A command is a sequence of database and platform calls; the engine, the *)
(* platform and crashes step in between any two of them. The worker keeps  *)
(* the account document it read in memory: `copy` is the document with its *)
(* modifications and `base` the document as it was last read or saved, so  *)
(* a save writes the paths in which they differ, without any guard. Only   *)
(* the promotion's commits are conditional updates.                        *)
(*                                                                         *)
(* Abstracted: customers are not blocked and trials do not expire while a  *)
(* command runs; flattening changes positions, which are not modelled, so  *)
(* it is one step with the read of the remote account that follows it;     *)
(* saves of provisioning progress write no modelled field.                 *)
(***************************************************************************)
EXTENDS StateEngine

CONSTANTS
  CommandWorkers,   \* processes consuming account-commands, one job at a time
  PhaseAccount,     \* PhaseAccount[n]: the Trader account of phase n
  TradedLevels      \* bound on the levels trading can reach

ASSUME PhaseAccountAssumption ==
  /\ PhaseAccount \in [{1, 2} -> PlatformIds]
  /\ PhaseAccount[1] # PhaseAccount[2]

ASSUME TradedLevelsAssumption == TradedLevels \subseteq Levels

(* The accounts the behaviours start from have records of their phases'     *)
(* Trader accounts only, the second one's after the first one was shut.    *)
ASSUME InitialRecordsAssumption ==
  \A acc \in InitialAccounts :
    /\ \A p \in PlatformIds \ {PhaseAccount[1], PhaseAccount[2]} : acc.platformStatus[p] = None
    /\ acc.currentPhase = 2 \/ acc.platformStatus[PhaseAccount[2]] # None
         => acc.platformStatus[PhaseAccount[1]] \notin {"ACTIVE", "PAUSED"}

(* Only an account in its first phase is to be promoted (decisions.js).    *)
ASSUME InitialPhaseAssumption ==
  \A acc \in InitialAccounts :
    acc.currentPhase = 2 /\ acc.status = "PASSED"
      => acc.commandPending # "CREATE_PHASE_2_ACCOUNT"

VARIABLES
  trader,                          \* the Trader platform's accounts
  cpc, command, copy, base         \* of each command worker

commandVars == <<cpc, command, copy, base>>
lifecycleVars == <<engineVars, trader, commandVars>>

TraderAccount == [status : PlatformStatus \cup {None}, level : Levels]

CommandStates ==
  {"idle", "start", "lock", "disableLaunch", "fetch", "resume", "save",
   "disable", "complete", "provision", "savePhase", "commit", "superseded",
   "activate", "open", "unstage", "shut", "trial", "review", "clear"}

LifecycleTypeOK ==
  /\ TypeOK
  /\ trader \in [PlatformIds -> TraderAccount]
  /\ cpc \in [CommandWorkers -> CommandStates]
  /\ command \in [CommandWorkers -> Commands \cup {None}]
  /\ copy \in [CommandWorkers -> AccountDoc \cup {None}]
  /\ base \in [CommandWorkers -> AccountDoc \cup {None}]

(* The platform holds the accounts the document has records of.            *)
LifecycleInit ==
  /\ EngineInit
  /\ trader = [p \in PlatformIds |->
                 [status |-> account.platformStatus[p],
                  level  |-> account.valuation.level]]
  /\ cpc = [c \in CommandWorkers |-> "idle"]
  /\ command = [c \in CommandWorkers |-> None]
  /\ copy = [c \in CommandWorkers |-> None]
  /\ base = [c \in CommandWorkers |-> None]

-----------------------------------------------------------------------------
(* The Trader platform, as the code uses it.                               *)

Tradable(p) == trader[p].status = "ACTIVE"

(* Trading moves an open account between levels.                           *)
TraderMoves(p) ==
  /\ Tradable(p)
  /\ \E l \in TradedLevels : trader' = [trader EXCEPT ![p].level = l]
  /\ UNCHANGED <<engineVars, commandVars>>

(* An event leaves the platform when its account is in the state the event *)
(* reports; the platform's own breach and its control event are one step.  *)
EventArrives(e) ==
  /\ Arrive(e)
  /\ Tradable(e.platformAccountId)
  /\ e.type = "SNAPSHOT" => trader[e.platformAccountId].level = e.level
  /\ trader' = IF e.type = "CONTROL"
               THEN [trader EXCEPT ![e.platformAccountId] =
                       [status |-> e.status, level |-> e.level]]
               ELSE trader
  /\ UNCHANGED commandVars

(* The status an account may be put in from its present one: the platform  *)
(* refuses to leave a final status, and a repeated request is accepted.    *)
Accepts(p, status) ==
  \/ trader[p].status \in {"ACTIVE", "PAUSED", status}
  \/ status = "BREACHED" /\ trader[p].status = "DISABLED"

SetStatus(p, status) == trader' = [trader EXCEPT ![p].status = status]

(* stageAccount, whose errors the callers modelled here ignore.            *)
Stage(p) ==
  \/ /\ trader' = [trader EXCEPT ![p].status = IF @ = "ACTIVE" THEN "PAUSED" ELSE @]
     /\ UNCHANGED faults
  \/ /\ faults < MaxFaults
     /\ faults' = faults + 1
     /\ UNCHANGED trader

-----------------------------------------------------------------------------
(* A command job.                                                          *)

At(c, state) == cpc[c] = state
Goto(c, state) == cpc' = [cpc EXCEPT ![c] = state]

TakeCommand(c) ==
  /\ At(c, "idle")
  /\ \E k \in Commands :
       /\ commandQueue[k] > 0
       /\ commandQueue' = [commandQueue EXCEPT ![k] = @ - 1]
       /\ command' = [command EXCEPT ![c] = k]
  /\ Goto(c, "start")
  /\ UNCHANGED <<account, dayRows, job, sweep, workerVars, faults, trader,
                 copy, base>>

(* The job ends: completed, or thrown and then retried by the queue unless *)
(* its retries are used up.                                                *)
EndJob(c) ==
  /\ cpc' = [cpc EXCEPT ![c] = "idle"]
  /\ command' = [command EXCEPT ![c] = None]
  /\ copy' = [copy EXCEPT ![c] = None]
  /\ base' = [base EXCEPT ![c] = None]

FailJob(c) ==
  /\ EndJob(c)
  /\ \/ Enqueue(command[c])
     \/ UNCHANGED commandQueue

(* The phase a command finalizes, and the Trader account of it.            *)
FinalizedPhase(k, acc) == IF k = "CREATE_PHASE_2_ACCOUNT" THEN 1 ELSE acc.currentPhase

Record(c) == PhaseAccount[FinalizedPhase(command[c], copy[c])]

ActivePhaseTwo(acc) ==
  /\ acc.currentPhase = 2
  /\ acc.status = "PHASE_2"
  /\ acc.enabled
  /\ acc.platformStatus[PhaseAccount[2]] = "ACTIVE"

(* What comes after the current phase's result is confirmed.               *)
Confirmed(k) ==
  CASE k = "CREATE_PHASE_2_ACCOUNT" -> "provision"
    [] k = "COMPLETE_TRIAL"         -> "trial"
    [] k = "ENTER_FUNDED_REVIEW"    -> "review"

(* Faulty: the current phase is taken as finalized.                        *)
FirstStepUnconfirmed(k, acc) ==
  IF ~CommandStillValid(acc, k) THEN "clear"
  ELSE IF k = "LOCK_ACCOUNT" THEN "lock" ELSE Confirmed(k)

FirstStep(k, acc) ==
  IF ~CommandStillValid(acc, k) THEN "clear"
  ELSE IF k = "LOCK_ACCOUNT" THEN "lock"
  ELSE IF k = "CREATE_PHASE_2_ACCOUNT" /\ ActivePhaseTwo(acc) THEN "clear"
  ELSE IF acc.platformStatus[PhaseAccount[FinalizedPhase(k, acc)]] = "COMPLETED"
       THEN Confirmed(k) ELSE "fetch"

ReadAccount(c) ==
  /\ At(c, "start")
  /\ copy' = [copy EXCEPT ![c] = account]
  /\ base' = [base EXCEPT ![c] = account]
  /\ Goto(c, FirstStep(command[c], account))
  /\ UNCHANGED <<engineVars, trader, command>>

(* The modified paths of the copy are written, whatever the account is now. *)
Save(c, modified) ==
  /\ account' = WriteModified(account, base[c], modified)
  /\ copy' = [copy EXCEPT ![c] = modified]
  /\ base' = [base EXCEPT ![c] = modified]

EngineExceptAccount == <<dayRows, job, commandQueue, sweep, workerVars, faults>>

-----------------------------------------------------------------------------
(* LOCK_ACCOUNT.                                                           *)

(* Faulty: the platform call is lost and taken as done.                    *)
LockRemoteLost(c) ==
  /\ At(c, "lock")
  /\ Goto(c, "disableLaunch")
  /\ UNCHANGED <<engineVars, trader, command, copy, base>>

LockRemote(c) ==
  /\ At(c, "lock")
  /\ Accepts(copy[c].platformAccountId, "BREACHED")
  /\ SetStatus(copy[c].platformAccountId, "BREACHED")
  /\ Goto(c, "disableLaunch")
  /\ UNCHANGED <<engineVars, command, copy, base>>

DisableLaunch(c) ==
  /\ At(c, "disableLaunch")
  /\ account' = [account EXCEPT !.enabled = FALSE]
  /\ Goto(c, "clear")
  /\ UNCHANGED <<EngineExceptAccount, trader, command, copy, base>>

-----------------------------------------------------------------------------
(* finalizeCurrentPhase.                                                   *)

(* Faulty: the result is saved with the command still pending.             *)
TerminalCopyPending(acc, p, status) ==
  [acc EXCEPT !.platformStatus[p] = status, !.status = status, !.enabled = FALSE]

(* The remote account closed or breached the phase: that result is saved.  *)
TerminalCopy(acc, p, status) ==
  LET ended == [acc EXCEPT !.platformStatus[p] = status,
                           !.status = status,
                           !.enabled = FALSE,
                           !.commandPending = None]
  IN  IF status = "BREACHED" THEN EndTrial(ended, "BREACHED")
      ELSE IF acc.accountMode = "DEMO" THEN [ended EXCEPT !.activeTrialKey = FALSE]
      ELSE ended

PhaseCompletion(acc) == ProfitTargetHit(acc) /\ MinimumDaysMet(acc)

FetchRemote(c) ==
  /\ At(c, "fetch")
  /\ LET p      == Record(c)
         remote == trader[p]
         valued == [copy[c] EXCEPT !.valuation.level = remote.level]
     IN  \/ /\ remote.status \in {"BREACHED", "CLOSED"}
            /\ copy' = [copy EXCEPT ![c] = TerminalCopy(valued, p, remote.status)]
            /\ Goto(c, "save")
            /\ UNCHANGED <<engineVars, command, base>>
         \/ /\ remote.status \notin {"BREACHED", "CLOSED", "DISABLED"}
            /\ copy' = [copy EXCEPT ![c] = valued]
            /\ Goto(c, IF PhaseCompletion(valued) THEN "disable" ELSE "resume")
            /\ UNCHANGED <<engineVars, command, base>>
         \/ /\ remote.status = "DISABLED"
            /\ PhaseCompletion(valued)
            /\ copy' = [copy EXCEPT ![c] = valued]
            /\ Goto(c, "complete")
            /\ UNCHANGED <<engineVars, command, base>>
         \/ /\ remote.status = "DISABLED"       \* PHASE_FINALIZATION_STATE_CONFLICT
            /\ ~PhaseCompletion(valued)
            /\ FailJob(c)
            /\ UNCHANGED <<account, dayRows, job, sweep, workerVars, faults>>
  /\ UNCHANGED trader

(* Faulty: the phase is taken for the status.                              *)
PhaseAsStatus(acc, phase) == IF phase = 2 THEN "PHASE_2" ELSE "PHASE_1"

TradablePhaseStatus(acc, phase) ==
  IF phase = 2 /\ acc.challengeType = "TWO_STEP" THEN "PHASE_2" ELSE "ACTIVE"

(* The recheck failed: trading goes on.                                    *)
Resume(c) ==
  /\ At(c, "resume")
  /\ Accepts(Record(c), "ACTIVE")
  /\ SetStatus(Record(c), "ACTIVE")
  /\ copy' = [copy EXCEPT ![c].platformStatus[Record(c)] = "ACTIVE",
                          ![c].status =
                            TradablePhaseStatus(copy[c], FinalizedPhase(command[c], copy[c])),
                          ![c].enabled = TRUE,
                          ![c].commandPending = None]
  /\ Goto(c, "save")
  /\ UNCHANGED <<engineVars, command, base>>

SaveResult(c) ==
  /\ At(c, "save")
  /\ Save(c, copy[c])
  /\ Goto(c, "clear")
  /\ UNCHANGED <<EngineExceptAccount, trader, command>>

(* Faulty: the platform call is lost and taken as done.                    *)
DisableRemoteLost(c) ==
  /\ At(c, "disable")
  /\ Goto(c, "complete")
  /\ UNCHANGED <<engineVars, trader, command, copy, base>>

DisableRemote(c) ==
  /\ At(c, "disable")
  /\ Accepts(Record(c), "DISABLED")
  /\ SetStatus(Record(c), "DISABLED")
  /\ Goto(c, "complete")
  /\ UNCHANGED <<engineVars, command, copy, base>>

CompletePhase(c) ==
  /\ At(c, "complete")
  /\ Save(c, [copy[c] EXCEPT !.platformStatus[Record(c)] = "COMPLETED"])
  /\ Goto(c, Confirmed(command[c]))
  /\ UNCHANGED <<EngineExceptAccount, trader, command>>

-----------------------------------------------------------------------------
(* CREATE_PHASE_2_ACCOUNT.                                                 *)

(* Provisioning is idempotent: it returns the account of the phase, staged *)
(* when it is new.                                                         *)
Provision(c) ==
  LET p == PhaseAccount[2]
      status == IF trader[p].status = None THEN "PAUSED" ELSE trader[p].status
  IN  /\ At(c, "provision")
      /\ trader' = IF trader[p].status # None THEN trader
                   ELSE [trader EXCEPT ![p] = [status |-> "PAUSED", level |-> "NORMAL"]]
      /\ copy' = [copy EXCEPT ![c].platformStatus[p] = status,
                              ![c].platformAccountId = p]
      /\ Goto(c, "savePhase")
      /\ UNCHANGED <<engineVars, command, base>>

(* A new record is appended to the account's; one that is replaced writes  *)
(* the whole array, the other phase's record included, as it was read.     *)
SavePhase(c) ==
  /\ At(c, "savePhase")
  /\ LET saved    == WriteModified(account, base[c], copy[c])
         appended == base[c].platformStatus[PhaseAccount[2]] = None
     IN  account' = IF appended THEN saved
                    ELSE [saved EXCEPT !.platformStatus = copy[c].platformStatus]
  /\ base' = [base EXCEPT ![c] = copy[c]]
  /\ UNCHANGED copy
  /\ Goto(c, "commit")
  /\ UNCHANGED <<EngineExceptAccount, trader, command>>

PhaseTwoReset(acc) ==
  [acc EXCEPT !.currentPhase = 2, !.status = "PHASE_2", !.enabled = FALSE,
              !.commandPending = "CREATE_PHASE_2_ACCOUNT",
              !.valuation = [level |-> "NORMAL", at |-> 0],
              !.lastSnapshotAt = 0, !.lastSnapshotSequence = 0,
              !.tradingDays = 0, !.totalTrades = 0, !.breach = None]

(* Faulty: the commit is an update without conditions.                     *)
CommitsAlways(acc) == TRUE

MayCommitPhaseTwo(acc) ==
  acc.status = "PASSED" /\ acc.commandPending = "CREATE_PHASE_2_ACCOUNT"

CommitPhaseTwo(c) ==
  /\ At(c, "commit")
  /\ \/ /\ MayCommitPhaseTwo(account)
        /\ account' = PhaseTwoReset(account)
        /\ copy' = [copy EXCEPT ![c] = account']
        /\ base' = [base EXCEPT ![c] = account']
        /\ Goto(c, "activate")
     \/ /\ ~MayCommitPhaseTwo(account)
        /\ Goto(c, "superseded")
        /\ UNCHANGED <<account, copy, base>>
  /\ UNCHANGED <<EngineExceptAccount, trader, command>>

(* The commit was superseded: the new account stays staged, and the job    *)
(* counts as a success.                                                    *)
StageSuperseded(c) ==
  /\ At(c, "superseded")
  /\ Stage(copy[c].platformAccountId)
  /\ Goto(c, "clear")
  /\ UNCHANGED <<account, dayRows, job, commandQueue, sweep, workerVars,
                 command, copy, base>>

Activate(c) ==
  /\ At(c, "activate")
  /\ Accepts(copy[c].platformAccountId, "ACTIVE")
  /\ SetStatus(copy[c].platformAccountId, "ACTIVE")
  /\ Goto(c, "open")
  /\ UNCHANGED <<engineVars, command, copy, base>>

MayOpen(acc) ==
  acc.status = "PHASE_2" /\ acc.commandPending = "CREATE_PHASE_2_ACCOUNT"

OpenPhaseTwo(c) ==
  /\ At(c, "open")
  /\ \/ /\ MayOpen(account)
        /\ account' = [account EXCEPT !.enabled = TRUE,
                         !.platformStatus[copy[c].platformAccountId] = "ACTIVE"]
        /\ Goto(c, "clear")
     \/ /\ ~MayOpen(account)
        /\ Goto(c, "unstage")
        /\ UNCHANGED account
  /\ UNCHANGED <<EngineExceptAccount, trader, command, copy, base>>

Unstage(c) ==
  /\ At(c, "unstage")
  /\ Stage(copy[c].platformAccountId)
  /\ Goto(c, "shut")
  /\ UNCHANGED <<account, dayRows, job, commandQueue, sweep, workerVars,
                 command, copy, base>>

Shut(c) ==
  /\ At(c, "shut")
  /\ account' = IF MayOpen(account) THEN [account EXCEPT !.enabled = FALSE] ELSE account
  /\ FailJob(c)
  /\ UNCHANGED <<dayRows, job, sweep, workerVars, faults, trader>>

-----------------------------------------------------------------------------
(* COMPLETE_TRIAL, ENTER_FUNDED_REVIEW, and the end of every command.      *)

CompleteTrial(c) ==
  /\ At(c, "trial")
  /\ account' = IF /\ account.accountMode = "DEMO"
                   /\ account.status = "PASSED"
                   /\ account.commandPending = "COMPLETE_TRIAL"
                THEN EndTrial([account EXCEPT !.enabled = FALSE], "PASSED")
                ELSE account
  /\ Goto(c, "clear")
  /\ UNCHANGED <<EngineExceptAccount, trader, command, copy, base>>

EnterFundedReview(c) ==
  /\ At(c, "review")
  /\ Save(c, [copy[c] EXCEPT !.enabled = FALSE,
                             !.status = "FUNDED_REVIEW",
                             !.platformStatus[Record(c)] = "COMPLETED"])
  /\ Goto(c, "clear")
  /\ UNCHANGED <<EngineExceptAccount, trader, command>>

(* executeExternalSideEffect returned, whatever its result: the command is *)
(* no longer pending, if it is the one that is.                            *)
ClearPending(c) ==
  /\ At(c, "clear")
  /\ account' = IF account.commandPending = command[c]
                THEN [account EXCEPT !.commandPending = None] ELSE account
  /\ EndJob(c)
  /\ UNCHANGED <<EngineExceptAccount, trader>>

-----------------------------------------------------------------------------
(* Failures.                                                               *)

(* The platform refuses, or cannot be reached: a failed activation is      *)
(* undone before the job fails.                                            *)
CallFails(c) ==
  /\ \/ At(c, "activate")
        /\ Goto(c, "unstage")
        /\ UNCHANGED <<command, copy, base, commandQueue>>
     \/ /\ cpc[c] \in {"lock", "fetch", "resume", "disable", "provision"}
        /\ FailJob(c)
  /\ UNCHANGED <<account, dayRows, job, sweep, workerVars, trader>>

Refused(c) ==
  /\ \/ At(c, "lock") /\ ~Accepts(copy[c].platformAccountId, "BREACHED")
     \/ At(c, "resume") /\ ~Accepts(Record(c), "ACTIVE")
     \/ At(c, "disable") /\ ~Accepts(Record(c), "DISABLED")
     \/ At(c, "activate") /\ ~Accepts(copy[c].platformAccountId, "ACTIVE")
  /\ CallFails(c)
  /\ UNCHANGED faults

Outage(c) ==
  /\ faults < MaxFaults
  /\ faults' = faults + 1
  /\ CallFails(c)

CommandCrash(c) ==
  /\ ~At(c, "idle")
  /\ faults < MaxFaults
  /\ faults' = faults + 1
  /\ FailJob(c)
  /\ UNCHANGED <<account, dayRows, job, sweep, workerVars, trader>>

-----------------------------------------------------------------------------
(* The engine, the command workers and the platform together.              *)

CommandStep(c) ==
  \/ TakeCommand(c) \/ ReadAccount(c)
  \/ LockRemote(c) \/ DisableLaunch(c)
  \/ FetchRemote(c) \/ Resume(c) \/ SaveResult(c) \/ DisableRemote(c) \/ CompletePhase(c)
  \/ Provision(c) \/ SavePhase(c) \/ CommitPhaseTwo(c) \/ StageSuperseded(c)
  \/ Activate(c) \/ OpenPhaseTwo(c) \/ Unstage(c) \/ Shut(c)
  \/ CompleteTrial(c) \/ EnterFundedReview(c) \/ ClearPending(c)
  \/ Refused(c)

EngineStep ==
  /\ \/ \E w \in Workers : TakeBatch(w) \/ WorkerStep(w) \/ SendFails(w) \/ Crash(w)
     \/ Sweep
  /\ UNCHANGED <<trader, commandVars>>

LifecycleNext ==
  \/ EngineStep
  \/ \E e \in Events : EventArrives(e)
  \/ \E p \in PlatformIds : TraderMoves(p)
  \/ \E c \in CommandWorkers : CommandStep(c) \/ Outage(c) \/ CommandCrash(c)

LifecycleFairness ==
  /\ \A w \in Workers :
       WF_lifecycleVars((TakeBatch(w) \/ WorkerStep(w)) /\ UNCHANGED <<trader, commandVars>>)
  /\ WF_lifecycleVars(Sweep /\ UNCHANGED <<trader, commandVars>>)
  /\ \A c \in CommandWorkers : WF_lifecycleVars(CommandStep(c))

LifecycleSpec == LifecycleInit /\ [][LifecycleNext]_lifecycleVars /\ LifecycleFairness

-----------------------------------------------------------------------------
(* Properties.                                                             *)

(* Never two Trader accounts of one Funded account open for trading: a new  *)
(* phase opens only after the old one's account was shut on the platform,  *)
(* wherever a promotion crashes, is retried or is overtaken.               *)
OneLiveTraderAccount == Cardinality({p \in PlatformIds : Tradable(p)}) <= 1

(* "Old Phase 1 rejects new exposure" (lifecycle-acceptance-runner.md): an  *)
(* account whose record says its phase is completed, and the first phase's *)
(* account once the second has begun, cannot trade on the platform.        *)
CompletedPhaseRejectsExposure ==
  /\ \A p \in PlatformIds : account.platformStatus[p] = "COMPLETED" => ~Tradable(p)
  /\ account.currentPhase = 2 => ~Tradable(PhaseAccount[1])

StaysInPhaseTwo(old, new) ==
  old.currentPhase = 2 =>
    /\ new.currentPhase = 2
    /\ new.lastSnapshotAt >= old.lastSnapshotAt
    /\ new.totalTrades >= old.totalTrades

(* The second phase begins once: no second replica, redelivered command,   *)
(* stale copy or engine commit takes an account back to its first phase,   *)
(* or resets the progress it has made in the second.                       *)
PhaseTwoBeginsOnce == [][StaysInPhaseTwo(account, account')]_account

(* "BREACHED must win and no active successor may survive"                 *)
(* (lifecycle-acceptance-runner.md): while the account stays BREACHED,     *)
(* every Trader account of it is shut in the end.                          *)
BreachReachesTrader ==
  account.status = "BREACHED"
    ~> account.status # "BREACHED" \/ \A p \in PlatformIds : ~Tradable(p)

(* "In-progress staged Phase 2 activation remains retryable"               *)
(* (launch-lifecycle-contract.test.js): the promotion stays pending until  *)
(* the second phase is open.                                               *)
StagedPhaseTwoRetryable ==
  [][/\ account.status = "PHASE_2" /\ account.commandPending = "CREATE_PHASE_2_ACCOUNT"
     /\ account'.status = "PHASE_2" /\ account'.commandPending = None
     => account'.enabled]_account

(* "Review remains non-tradable" (lifecycle-acceptance-runner.md), once the *)
(* command that enters it has run.                                         *)
ReviewIsNotTradable ==
  account.status = "FUNDED_REVIEW" /\ account.commandPending = None
    => ~Tradable(account.platformAccountId)

=============================================================================
