---------------------------- MODULE StateEngine ----------------------------
(***************************************************************************)
(* The state engine (workers/state-engine-worker.js,                       *)
(* workers/state-engine/processEvent.js): concurrent workers apply Trader  *)
(* events to one account document. A worker takes a batch of jobs, reads   *)
(* the account, and commits with a compare-and-set on the version and the  *)
(* status it read; a conflict fails the whole batch, which the queue       *)
(* delivers again. A commit that decides a lifecycle command is followed   *)
(* by a separate send to the command queue, which a crash or an outage can *)
(* prevent: a redelivered job and the periodic recovery sweep replay it.   *)
(*                                                                         *)
(* Snapshots reach processEvent through the snapshot projector, one at a   *)
(* time and retried without limit; deals and control events through the    *)
(* durable state-events queue, in batches and with a retry limit. The      *)
(* queue gives no order between events, so a batch is a set.               *)
(***************************************************************************)
EXTENDS SequentialAccount

CONSTANTS
  Workers,       \* state engine workers and snapshot projectors
  BatchSize,     \* jobs fetched at once (50 in the code)
  RetryLimit,    \* redeliveries of a state-events job (5 in the code)
  MaxEvents,     \* bound on the events that arrive in one behaviour
  MaxQueued,     \* the queue counts copies of a command up to this bound
  MaxFaults      \* bound on crashes and queue outages

ASSUME EngineBoundsAssumption ==
  /\ BatchSize \in Nat \ {0}
  /\ RetryLimit \in Nat
  /\ MaxEvents \in Nat
  /\ MaxQueued \in Nat \ {0}
  /\ MaxFaults \in Nat

VARIABLES
  job,           \* job[e]: where the job of event e is, and its redeliveries
  commandQueue,  \* commandQueue[c]: copies of command c in account-commands
  sweep,         \* the command a recovery sweep has found and not yet sent
  pc, todo, done, read, event, days, toSend,    \* of each worker
  faults         \* crashes and outages so far

workerVars == <<pc, todo, done, read, event, days, toSend>>
engineVars == <<account, dayRows, job, commandQueue, sweep, workerVars, faults>>

(* What every account satisfies, and an engine step must keep.             *)
ShutWhenBreached(acc) ==
  acc.status = "BREACHED" =>
    /\ ~acc.enabled
    /\ acc.breach # None
    /\ acc.lifecycleOperation = None
    /\ acc.commandPending \in {None, "LOCK_ACCOUNT"}
    /\ acc.accountMode = "DEMO" =>
         ~acc.activeTrialKey /\ acc.trialResult = "BREACHED"

PendingCommandValid(acc) ==
  acc.commandPending # None => CommandStillValid(acc, acc.commandPending)

ASSUME InitialAccountsAssumption ==
  /\ InitialAccounts \subseteq AccountDoc
  /\ \A acc \in InitialAccounts : ShutWhenBreached(acc) /\ PendingCommandValid(acc)

JobStates == {"expected", "queued", "active", "completed", "failed"}

TypeOK ==
  /\ account \in AccountDoc
  /\ dayRows \in SUBSET DayRow
  /\ job \in [Events -> [state : JobStates, retries : Nat]]
  /\ commandQueue \in [Commands -> 0..MaxQueued]
  /\ sweep \in Commands \cup {None}
  /\ pc \in [Workers -> {"idle", "load", "handle", "count", "save", "send"}]
  /\ todo \in [Workers -> SUBSET Events]
  /\ done \in [Workers -> SUBSET Events]
  /\ read \in [Workers -> AccountDoc \cup {None}]
  /\ event \in [Workers -> Events \cup {None}]
  /\ days \in [Workers -> Nat]
  /\ toSend \in [Workers -> Commands \cup {None}]
  /\ faults \in 0..MaxFaults

-----------------------------------------------------------------------------
(* Initial states.                                                         *)

EngineInit ==
  /\ account \in InitialAccounts
  /\ dayRows = {}
  /\ job = [e \in Events |-> [state |-> "expected", retries |-> 0]]
  /\ commandQueue = [c \in Commands |-> 0]
  /\ sweep = None
  /\ pc = [w \in Workers |-> "idle"]
  /\ todo = [w \in Workers |-> {}]
  /\ done = [w \in Workers |-> {}]
  /\ read = [w \in Workers |-> None]
  /\ event = [w \in Workers |-> None]
  /\ days = [w \in Workers |-> 0]
  /\ toSend = [w \in Workers |-> None]
  /\ faults = 0

-----------------------------------------------------------------------------
(* Jobs and batches.                                                       *)

(* Ingestion has stored the event and sent its state-events job, or the    *)
(* snapshot has reached the projector.                                     *)
Arrive(e) ==
  /\ job[e].state = "expected"
  /\ Cardinality({f \in Events : job[f].state # "expected"}) < MaxEvents
  /\ job' = [job EXCEPT ![e].state = "queued"]
  /\ UNCHANGED <<account, dayRows, commandQueue, sweep, workerVars, faults>>

Batches ==
  {B \in SUBSET {e \in Events : job[e].state = "queued"} :
     /\ B # {}
     /\ Cardinality(B) <= BatchSize
     /\ (\E e \in B : e.type = "SNAPSHOT") => Cardinality(B) = 1}

TakeBatch(w) ==
  /\ pc[w] = "idle"
  /\ \E B \in Batches :
       /\ job' = [e \in Events |->
                    IF e \in B THEN [job[e] EXCEPT !.state = "active"]
                    ELSE job[e]]
       /\ todo' = [todo EXCEPT ![w] = B]
  /\ pc' = [pc EXCEPT ![w] = "load"]
  /\ UNCHANGED <<account, dayRows, commandQueue, sweep, done, read, event,
                 days, toSend, faults>>

(* The worker forgets the event it is at; `next` is where it goes on.      *)
Forget(w, next) ==
  /\ pc' = [pc EXCEPT ![w] = next]
  /\ read' = [read EXCEPT ![w] = None]
  /\ event' = [event EXCEPT ![w] = None]
  /\ days' = [days EXCEPT ![w] = 0]
  /\ toSend' = [toSend EXCEPT ![w] = None]

(* processEvent returned: the batch goes on, or all its jobs complete.     *)
FinishEvent(w) ==
  LET batch == done[w] \cup {event[w]}
      last  == todo[w] = {}
  IN  /\ Forget(w, IF last THEN "idle" ELSE "load")
      /\ done' = [done EXCEPT ![w] = IF last THEN {} ELSE batch]
      /\ job' = [e \in Events |->
                   IF last /\ e \in batch
                   THEN [job[e] EXCEPT !.state = "completed"] ELSE job[e]]
      /\ UNCHANGED todo

(* Faulty: the projector gives up a snapshot after one conflict.           *)
RetriedUnlessSnapshot(j, e) ==
  IF e.type = "SNAPSHOT" THEN [j EXCEPT !.state = "completed"]
  ELSE IF j.retries < RetryLimit
       THEN [state |-> "queued", retries |-> j.retries + 1]
       ELSE [j EXCEPT !.state = "failed"]

Retried(j, e) ==
  IF e.type = "SNAPSHOT" THEN [j EXCEPT !.state = "queued"]
  ELSE IF j.retries < RetryLimit
       THEN [state |-> "queued", retries |-> j.retries + 1]
       ELSE [j EXCEPT !.state = "failed"]

(* The handler threw: every job of the batch is delivered again, those     *)
(* already processed included, until its retries are used up.              *)
FailBatch(w) ==
  LET batch == done[w] \cup todo[w] \cup ({event[w]} \ {None})
  IN  /\ Forget(w, "idle")
      /\ done' = [done EXCEPT ![w] = {}]
      /\ todo' = [todo EXCEPT ![w] = {}]
      /\ job' = [e \in Events |->
                   IF e \in batch THEN Retried(job[e], e) ELSE job[e]]

-----------------------------------------------------------------------------
(* processEvent, from reading the account to the conditional save.         *)

Load(w) ==
  /\ pc[w] = "load"
  /\ \E e \in todo[w] :
       /\ event' = [event EXCEPT ![w] = e]
       /\ todo' = [todo EXCEPT ![w] = @ \ {e}]
  /\ read' = [read EXCEPT ![w] = account]
  /\ pc' = [pc EXCEPT ![w] = "handle"]
  /\ UNCHANGED <<account, dayRows, job, commandQueue, sweep, done, days,
                 toSend, faults>>

Duplicate(w) == AppliedLast(read[w], event[w])

(* Only the modified paths are written, and the version is incremented.    *)
Commit(w, next) ==
  LET marked == [next EXCEPT !.lastProcessedEventId = event[w].id]
  IN  account' = [WriteModified(account, read[w], marked)
                    EXCEPT !.version = account.version + 1]

(* Faulty: the save is conditional on the status alone.                    *)
GuardOnStatus(w) == account.status = read[w].status

(* Faulty: the save is unconditional.                                      *)
Unguarded(w) == TRUE

GuardHolds(w) ==
  /\ account.version = read[w].version
  /\ account.status = read[w].status

(* saveAccountConditional, and what follows it: sending `command`, or the  *)
(* next event of the batch.                                                *)
SaveConditional(w, next, command) ==
  /\ UNCHANGED <<dayRows, commandQueue, sweep, faults>>
  /\ \/ /\ GuardHolds(w)
        /\ Commit(w, next)
        /\ IF command = None
           THEN FinishEvent(w)
           ELSE /\ pc' = [pc EXCEPT ![w] = "send"]
                /\ toSend' = [toSend EXCEPT ![w] = command]
                /\ UNCHANGED <<job, todo, done, read, event, days>>
     \/ /\ ~GuardHolds(w)
        /\ FailBatch(w)
        /\ UNCHANGED account

HandleDuplicate(w) ==
  /\ pc[w] = "handle"
  /\ Duplicate(w)
  /\ IF read[w].commandPending = None
     THEN FinishEvent(w)
     ELSE /\ pc' = [pc EXCEPT ![w] = "send"]
          /\ toSend' = [toSend EXCEPT ![w] = read[w].commandPending]
          /\ UNCHANGED <<job, todo, done, read, event, days>>
  /\ UNCHANGED <<account, dayRows, commandQueue, sweep, faults>>

HandleIgnored(w) ==
  /\ pc[w] = "handle"
  /\ ~Duplicate(w)
  /\ Ignored(read[w], event[w])
  /\ SaveConditional(w, read[w], None)

Applies(w, type) ==
  /\ pc[w] = "handle"
  /\ ~Duplicate(w)
  /\ ~Ignored(read[w], event[w])
  /\ event[w].type = type

HandleControl(w) ==
  /\ Applies(w, "CONTROL")
  /\ SaveConditional(w, ControlOutcome(read[w], event[w]), None)

(* recordTradingDay: the upsert, then the count, are two database calls    *)
(* before the deal is saved.                                               *)
RecordTradingDay(w) ==
  /\ Applies(w, "DEAL")
  /\ event[w].opens
  /\ dayRows' = dayRows \cup {DayRowOf(read[w], event[w])}
  /\ pc' = [pc EXCEPT ![w] = "count"]
  /\ UNCHANGED <<account, job, commandQueue, sweep, todo, done, read, event,
                 days, toSend, faults>>

CountTradingDays(w) ==
  /\ pc[w] = "count"
  /\ days' = [days EXCEPT ![w] =
       Cardinality(RowsFor(read[w].currentPhase, event[w].platformAccountId))]
  /\ pc' = [pc EXCEPT ![w] = "save"]
  /\ UNCHANGED <<account, dayRows, job, commandQueue, sweep, todo, done, read,
                 event, toSend, faults>>

HandleDeal(w) ==
  /\ \/ pc[w] = "save"
     \/ Applies(w, "DEAL") /\ ~event[w].opens
  /\ SaveConditional(w, DealOutcome(read[w], event[w], days[w]), None)

HandleSnapshot(w) ==
  /\ Applies(w, "SNAPSHOT")
  /\ SaveConditional(w, SnapshotOutcome(read[w], event[w]),
                     SnapshotCommand(read[w], event[w]))

-----------------------------------------------------------------------------
(* Sending a command, the recovery sweep, and faults.                      *)

Enqueue(command) ==
  commandQueue' = [commandQueue EXCEPT ![command] =
                     IF @ < MaxQueued THEN @ + 1 ELSE @]

SendCommand(w) ==
  /\ pc[w] = "send"
  /\ Enqueue(toSend[w])
  /\ FinishEvent(w)
  /\ UNCHANGED <<account, dayRows, sweep, faults>>

(* The queue refuses the command: processEvent throws after its commit.    *)
SendFails(w) ==
  /\ pc[w] = "send"
  /\ faults < MaxFaults
  /\ faults' = faults + 1
  /\ FailBatch(w)
  /\ UNCHANGED <<account, dayRows, commandQueue, sweep>>

(* The process dies. The queue redelivers its jobs; a snapshot was only in *)
(* memory and is not projected again.                                      *)
Crash(w) ==
  LET batch == done[w] \cup todo[w] \cup ({event[w]} \ {None})
  IN  /\ pc[w] # "idle"
      /\ faults < MaxFaults
      /\ faults' = faults + 1
      /\ Forget(w, "idle")
      /\ done' = [done EXCEPT ![w] = {}]
      /\ todo' = [todo EXCEPT ![w] = {}]
      /\ job' = [e \in Events |->
                   IF e \notin batch THEN job[e]
                   ELSE IF e.type = "SNAPSHOT"
                        THEN [job[e] EXCEPT !.state = "failed"]
                        ELSE Retried(job[e], e)]
      /\ UNCHANGED <<account, dayRows, commandQueue, sweep>>

(* Faulty: the sweep looks for one command only.                           *)
SweepFindsLocks ==
  /\ sweep = None
  /\ account.commandPending = "LOCK_ACCOUNT"
  /\ sweep' = account.commandPending
  /\ UNCHANGED <<account, dayRows, job, commandQueue, workerVars, faults>>

(* CommandWorker.recoverPendingCommands, every 30 seconds: find, then send *)
(* what was found. A sweep that is running makes the next one skip.        *)
SweepFinds ==
  /\ sweep = None
  /\ account.commandPending \in Commands
  /\ sweep' = account.commandPending
  /\ UNCHANGED <<account, dayRows, job, commandQueue, workerVars, faults>>

SweepSends ==
  /\ sweep # None
  /\ sweep' = None
  /\ \/ Enqueue(sweep) /\ UNCHANGED faults
     \/ /\ faults < MaxFaults
        /\ faults' = faults + 1
        /\ UNCHANGED commandQueue
  /\ UNCHANGED <<account, dayRows, job, workerVars>>

-----------------------------------------------------------------------------
(* The engine on its own: nothing else writes the account.                 *)

WorkerStep(w) ==
  \/ Load(w)
  \/ HandleDuplicate(w)
  \/ HandleIgnored(w)
  \/ HandleControl(w)
  \/ RecordTradingDay(w)
  \/ CountTradingDays(w)
  \/ HandleDeal(w)
  \/ HandleSnapshot(w)
  \/ SendCommand(w)

Sweep == SweepFinds \/ SweepSends

EngineNext ==
  \/ \E e \in Events : Arrive(e)
  \/ \E w \in Workers :
       \/ TakeBatch(w)
       \/ WorkerStep(w)
       \/ SendFails(w)
       \/ Crash(w)
  \/ Sweep

EngineFairness ==
  /\ \A w \in Workers : WF_engineVars(TakeBatch(w)) /\ WF_engineVars(WorkerStep(w))
  /\ WF_engineVars(Sweep)

EngineSpec == EngineInit /\ [][EngineNext]_engineVars /\ EngineFairness

-----------------------------------------------------------------------------
(* Properties of the engine alone.                                         *)

(* One step of the account's metrics: the stamp does not go back, a new    *)
(* valuation is not older than the stamp it meets, and none is left behind *)
(* by the stamp.                                                           *)
MetricsForward(old, new) ==
  /\ \/ new.lastSnapshotAt > old.lastSnapshotAt
     \/ /\ new.lastSnapshotAt = old.lastSnapshotAt
        /\ new.lastSnapshotSequence >= old.lastSnapshotSequence
  /\ new.valuation # old.valuation => new.valuation.at >= old.lastSnapshotAt
  /\ old.valuation.at >= old.lastSnapshotAt => new.valuation.at >= new.lastSnapshotAt

(* The ordering stamp never goes back, whatever the order in which         *)
(* concurrent workers deliver snapshots and control events; nothing valued *)
(* before the stamp changes the metrics, and these are never older than it.*)
(* Metrics that came with their stamp are therefore never replaced by older*)
(* ones.  Those of a control event without evidence leave the stamp alone  *)
(* (processEvent.js:62-70): a late snapshot older than they, but newer than*)
(* the stamp, does replace them.                                           *)
StampedMetricsNeverRollBack == [][MetricsForward(account, account')]_account

StaysBreached(old, new) ==
  old.status = "BREACHED" => new.status = "BREACHED" /\ ~new.enabled

(* "A Trader breach is terminal" (processEvent.js): no event, stale copy   *)
(* or retry leads out of BREACHED or enables the account again.            *)
BreachIsTerminal == [][StaysBreached(account, account')]_account

KeepsEvidence(old, new) ==
  old.breach # None /\ new.breach # old.breach
    => /\ new.breach # None
       /\ new.breach.source = "TRADER_TRIGGER"
       /\ old.breach.source # "TRADER_TRIGGER"

(* A recorded breach is replaced only when exact Trader evidence supersedes *)
(* a record without it, and never twice.                                   *)
BreachEvidenceKept == [][KeepsEvidence(account, account')]_account

(* A breached account is shut in every respect at once: not launchable, no  *)
(* promotion or master approval under way, its trial slot released.        *)
BreachedAccountIsShut == ShutWhenBreached(account)

(* A pending command is always one the command worker would still execute: *)
(* no interleaving leaves a promotion pending on an account that is not    *)
(* being promoted.                                                         *)
CommandMatchesStatus == PendingCommandValid(account)

(* Whatever the workers, their stale copies, conflicts, retries and crashes *)
(* do, the account changes as if events were applied to it one at a time,  *)
(* each whole and to the account as it then is: no commit mixes a decision *)
(* about an older account with what was written since, none is lost under  *)
(* another, and a repeated event is not applied twice in a row.            *)
AppliesEventsInTurn == SequentialSpec

Quiescent ==
  /\ \A w \in Workers : pc[w] = "idle"
  /\ \A e \in Events : job[e].state \in {"expected", "completed"}

AppliedDeals ==
  {e \in Events : /\ job[e].state = "completed"
                  /\ e.type = "DEAL"
                  /\ e.signed
                  /\ EventForCurrentPlatformAccount(account, e)}

(* When nothing is under way and no job was given up, the trading-day      *)
(* projection equals the distinct days of the processed opening deals, and *)
(* no closing deal was lost to a concurrent write. (A redelivered closing  *)
(* deal may be counted again: lastProcessedEventId only remembers the last *)
(* event.)                                                                 *)
DealsAccountedFor ==
  Quiescent =>
    /\ account.tradingDays = Cardinality({e.day : e \in {d \in AppliedDeals : d.opens}})
    /\ account.totalTrades >= Cardinality({d \in AppliedDeals : d.closes})

(* A decided command reaches the command queue or is withdrawn, although   *)
(* the worker may die, or the queue refuse it, between commit and send.    *)
PendingCommandIsQueued ==
  \A c \in Commands :
    account.commandPending = c
      ~> commandQueue[c] > 0 \/ account.commandPending # c

(* A projected live snapshot of the current account is reflected by the    *)
(* account's stamp in the end, however often its commit loses the race,    *)
(* unless the process that held it died or the account was closed.         *)
SnapshotsLand ==
  \A e \in Events :
    /\ job[e].state = "queued"
    /\ e.type = "SNAPSHOT" /\ e.live /\ e.signed
    /\ EventForCurrentPlatformAccount(account, e)
    ~> \/ account.lastSnapshotAt >= e.at
       \/ job[e].state = "failed"
       \/ account.status \in {"CLOSED", "EXPIRED"}

=============================================================================
