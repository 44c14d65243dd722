# Verification of the Funded backend

TLA+ models of the Funded backend (accounts, payments, payouts and the services
around them), the TLC runs that check them on small instances, and TLAPS proofs
for every value of the constants. Paths below are relative to the repository's root.

## The system

The backend sells trading challenges. A customer's *account* is one MongoDB
document; it is opened by a *payment*, and profit of a funded account leaves by
*payouts*. Trading itself happens on the separate *Trader* platform, which holds
one platform account per phase. Trader reports valuations, deals and status
changes through a signed webhook; the backend decides breach, pass and
promotion, and carries its decisions out by calling Trader.

    Trader --webhook--> snapshot pipeline (Redis) --\
           --webhook--> event ingestion (pg-boss) ---> state engine --+--> account (MongoDB)
                                                          |           |
                                                  account-commands    |
                                                          v           |
    Trader <--platform calls------------------------ command worker --+
                     reconciliation worker, customer blocks, admin routes --+

The processes share nothing but MongoDB, Redis and the pg-boss queues. Delivery
is at least once, a failing job fails its whole batch, and several replicas of
every worker may run.

| Component | State it keeps | Operations | Hard behaviour | What makes it correct |
|---|---|---|---|---|
| State engine (`src/workers/state-engine*`) | account document, trading-day rows | snapshot, deal, control event, conditional save, command send | stale copies, reordering, redelivery, crash between commit and send | breach terminal and complete, metrics never roll back, no deal or command lost |
| Command worker (`src/workers/command-worker.js`) | account document, Trader status | lock, promote, complete trial, enter review; recovery sweep | multi-step commands against a concurrent engine; unguarded saves; partial failure | one tradable Trader account, completed phase closed, breach reaches Trader, promotion retryable |
| Customer access, admin lifecycle, free trials, reconciliation worker | account, `lifecycleOperationId`, customer status, Trader status | activate, approve, block, reactivate, lock, unlock, close, cancel, expire, recover, close orphans | every one of them races with every other; stale recovery; undo of what another did at Trader | a blocked or disabled account is not tradable; approvals end; orphans are closed |
| Payments and activation (`payment.service.js`, two workers) | payment, two queues | create, callback, refresh, claim, activate, mail, sweep, retry | duplicate, late and reordered callbacks; stale claims; crash before enqueue | only a paid payment opens an account; every one does; one activation at a time |
| Payouts (`payout*.service.js`, `payoutProviders/`) | payout requests, webhook events, Sunpay | request, approve, reject, send, pay, execute, verify, webhook | ledger read before a later write; lease takeover; lost answers | within the profit share, one live payout, ends once and as Sunpay has it |
| Trading credentials | vault record, claim on the account | ensure, rotate, mail | stale claim, save after mail | the vault holds what Trader accepts |
| Support desk | conversation | inbound mail, answer, escalate, reply, return, close | redelivered mail, late answer | no mail lost; a person keeps the case |
| Snapshot pipeline (`accountSnapshot.service.js`) | latest snapshot in Redis, projector lock, timers in memory | keep latest, project, retry | lock taken or expired, coalescing, lost memory on restart | the latest snapshot is projected |
| Customer identity (`src/customers/`) | customer records, owner of goods | guest checkout, resolve, link, merge, migrate | non-atomic merge, parallel first sign-ins, changing address | what was bought stays the user's |
| Trading-day repair (`src/maintenance/`) | trading-day rows, day count | plan, delete, upsert, verify, write the count | runs beside the engine | no opening day lost, the count is that of the rows |
| Event ingestion | events, streams | store and queue once | crash between store and send, duplicates | each event stored once and queued |
| Launch, pricing, analytics, auth, email | none shared | computation, reads and I/O | none | not modelled |

`PROJECT.json` lists the components with their sources and status, and the
hazards with their lines and the properties that cover them.

## The modules

| Module | Contents |
|---|---|
| `TradingAccount` | the account document, event documents, rules and decisions, what each kind of event does to a copy of the account, and the write of modified paths |
| `SequentialAccount` | abstract: events applied to the account one at a time, each completely |
| `StateEngine` | extends `SequentialAccount`, and is shown to implement it: workers that take batches, read, decide and commit with compare-and-set; redelivery, crash, outage, recovery sweep |
| `CommandLifecycle` | extends `StateEngine`: command workers and the Trader platform beside the engine |
| `PayoutLedger` | abstract: phases and amounts of the payouts of one account against its profit share |
| `Payout` | the HTTP calls that request, decide, execute and settle payouts, and Sunpay; `Ledger` is its refinement of `PayoutLedger` |
| `Payment` | one challenge payment from the order to the mail that hands over the account |
| `Access` | who may trade one account: activations, blocks, admin actions, demos, the reconciliation worker, Trader |
| `CredentialVault` | the password of a Trader account, its vault record and mail |
| `SupportDesk` | the support cases of one sender |
| `SnapshotPipeline` | snapshots of one account from webhook to projection |
| `TradingDays` | the repair of trading days beside the deal jobs of the engine |
| `CustomerIdentity` | the customer records of one user and the goods filed under them |
| `StateEngineProofs`, `CommandLifecycleProofs`, `PayoutProofs`, `PaymentProofs`, `AccessProofs`, `IdentityProofs` | theorems of `StateEngine`, `CommandLifecycle`, `Payout`, `Payment`, `Access`, `CustomerIdentity` |
| `ServicesProofs` | theorems of `CredentialVault`, `SupportDesk`, `SnapshotPipeline` and `TradingDays`, and of the composition in `MCServices` |
| `FiniteSums` | lemmas on sums over finite sets, used by the proofs that count |
| `MCStateEngine`, `MCCommandLifecycle`, `MCPayout`, `MCPayment`, `MCAccess`, `MCServices` | bounded instances for TLC; `MCServices` composes the last five modules and `Payment` as alternatives |

### How state and actions correspond to the code

`account` is the document. A valuation (balance, equity, projections) is
abstracted to the *level* it puts the account at under its rules and the time it
describes: decisions read nothing else. `read[w]` is the copy `processEvent`
holds; `pc[w]` says before which database or queue call the worker stands. One
action is one database call with everything the code does around it:

- `Load` is `findOne` and the captured guard; `HandleControl`, `HandleDeal`,
  `HandleSnapshot`, `HandleIgnored` and `HandleDuplicate` are the branches of
  `processEvent`, each ending in `SaveConditional`;
- `RecordTradingDay` and `CountTradingDays` are the two calls that precede the
  save of an opening deal;
- `Commit` writes only the paths the copy modified (`WriteModified`) and
  increments the version; a conflict is `FailBatch`, after which the queue
  delivers the whole batch again, including events already applied;
- `SendCommand`, `SendFails` and `Crash` are what can follow a commit;
  `SweepFinds` and `SweepSends` are the recovery of pending commands.

In `CommandLifecycle`, `cpc[c]` is the call a command job stands before, `copy`
its in-memory document and `base` the document as last read or saved, so `Save`
writes their difference by `_id`, as an unversioned Mongoose `save()` does. The
conditional updates (`CommitPhaseTwo`, `OpenPhaseTwo`, `Shut`, `CompleteTrial`)
test the stored account instead. `ClearPending` is the update after every job
that returned.

The other modules have the same shape. A process is a record with the step `at`
which it stands (named for the call before it) and what it has read; one action
is one awaited call with the code up to the next one.

- `Payout`: `calls[c]` is an HTTP call. `ReadLedger`/`Insert` are the two halves
  of a request, `StartApproval`/`ReadPaid`/`Approve` those of an approval,
  `Execute`/`Submit`/`Submitted` an execution, `Deliver` and the steps after it
  a webhook with its lease. Every write is an update conditional on the status,
  and the guard says so.
- `Payment`: `caller` and `worker` are HTTP calls and jobs; `SaveStatus` writes
  what was computed from the copy, `ClaimActivation` and `TakeMailJob` are the
  conditional updates, `RecoverActivation` and `RecoverMail` the sweeps.
- `Access`: `call[a]` is a call or the reconciliation worker, with the loaded
  `copy`; `Save` writes the fields that differ from the copy over whatever is
  stored by then. `remote` is the Trader account. Two history variables record
  what the properties exclude: `behind` the calls about to save a copy of a
  document that was written since, `clash` that such a save landed, that the
  account was reopened (by a reactivation or an UNLOCK) beside another call,
  that a block began during another change of the customer or an UNLOCK, or that
  a challenge's activation began during another (a claim older than five minutes
  is no obstacle). `Reviewed` is what a rollback and the recovery do to the
  current platform record, which is the challenge's as long as no funded account
  is provisioned.
- `CredentialVault`, `SupportDesk`: `keeper`, `postman` and `clerk` likewise.
  `SaveDelivery` and `SaveCase` write what differs from the loaded copy. `resend`
  is the script that mails every password again, whose jobs are forced: they
  pass over what is marked as sent. A reply that cannot be mailed ends before its
  save and writes nothing, which is `ClerkCrashes` at that step.
- `SnapshotPipeline`: `scheduler[i]` is the map and the timer in the memory of a
  process, `lock` the key in Redis, `newest` the stored snapshot.
- `TradingDays`: `booker[p]` is a deal job of the engine reduced to its rows and
  count, `repair` the script with the plan and rows it holds; it deletes and
  upserts row by row (`DeleteStaleRow`, `UpsertCanonicalRow`).
- `CustomerIdentity`: `request[r]` is a resolution; `SaveGuest`, `SaveTarget`
  and `MigrateOwnership` are the writes of a merge, `SaveResolved` the save that
  the unique index may refuse.

The Trader platform is not part of the repository. Its actions (`TraderMoves`,
`EventArrives`, `Accepts`, `SetStatus`, `Refused`) state only what the code
relies on: a final status is not left, a repeated request succeeds, events
describe the account they come from. Flattening is not assumed to stop trading.
Sunpay (`SunpaySettles`), the payment providers (`OrderAdvances`), the mail
service that repeats unacknowledged webhooks and Supabase (`ChangeAddress`) are
environments of the same kind.

Definitions whose comment says *Faulty* are variants of the definition after
them with a plausible bug. They are used by no specification: replacing the
definition with the variant must violate a property, which shows that the
property depends on that code.

### Abstractions

- Every event belongs to one account on the `acg-trader` platform with complete
  rules. A sequence number missing from an event is a value of its own
  (`NoSequence`), which the comparison passes over; one missing from the account
  is null there and compares as 0.
- A valuation has one level. A daily loss beyond its limit while both balance
  and equity are at the target is treated as a loss, as the engine does.
- pg-boss gives no order between jobs, so a batch is a set; snapshots travel
  alone. `sendOnce` with a singleton key is modelled as allowing a copy of a
  command while another copy is active, which the queue's configuration does
  not exclude, and as counting no further than `MaxQueued`.
- Customer blocks, trial expiry and the reconciliation worker are modelled in
  `Access`, with one account that has no phases; they do not act in
  `CommandLifecycle`.
- Time is a choice: a claim, a lease or an approval may become stale whenever it
  is looked at, a trial is due at any time. This only adds behaviours.
- Amounts of payouts are small numbers and the profit share is one that trading
  sets; splits, quotes, networks and receipts are reduced to right or wrong,
  and what the code rejects at once is a call that never comes.
- A status is what its provider means by it (`RequestedStatus` maps each
  provider's words); signatures and amounts of callbacks are not seen.
- One payment, one account with one customer, one sender of mails, one user:
  these documents are independent of others of their kind. Payouts are two,
  because they share a profit share. With one user no address belongs to
  somebody else's record, so the 409 branches of the identity code are not
  reached.

## The runs

| Run | Instance | Shows |
|---|---|---|
| `state_engine` | 2 workers, batches of 2, 3 of 8 events, 3 accounts, 1 fault | the safety of the engine: state and action properties, and the refinement of `SequentialAccount` |
| `state_engine_live` | 2 workers, 2 of 6 events, 2 accounts, 1 fault | commands reach the queue, snapshots land |
| `command_lifecycle` | 1 engine worker, 2 command workers, 1 event, 1 fault | safety of the promotion with replicas, and that the second phase begins once |
| `command_lifecycle_live` | 1 engine worker, 1 command worker, 1 event, 1 fault, 3 accounts | all the commands: a breach reaches Trader |
| `payout` | 2 payouts, one a cycle, 2 keys, 2 calls, shares 1 and 2, 3 cycles, no faults | requests and admins against the ledger |
| `payout_sunpay` | 1 payout on demand, 2 calls, Sunpay on, 1 fault | execution and settlement; liveness |
| `access` | challenge, demo and master; 3 calls or 2 and a fault, 2 at once | what may trade; liveness of recovery |
| `services` | see `Services.cfg`; 1 fault each (2 for snapshots) | twelve properties of six services |
| `breach_overwritten`, `staged_phase_two_dropped`, `pending_cleared` | as `command_lifecycle_live` | three disagreements between code and documents |
| `payment_regresses` | 2 callbacks, NOWPayments, no faults | the fourth |

What the properties say:

- `AppliesEventsInTurn`: whatever the workers read, retry and lose, the account
  changes as in `SequentialAccount`: every step applies one event, completely, to
  the account as it is at that moment. Since `SequentialAccount` has no copies and
  no versions to compare, this says that the compare-and-set is enough.
- `BreachedAccountIsShut`, `BreachIsTerminal`, `BreachEvidenceKept`: a breach,
  whichever of its two paths sets it, shuts the account in all respects, is
  never undone by the engine, and keeps its best evidence.
- `StampedMetricsNeverRollBack`: the ordering stamp does not go back, nothing valued
  before it changes the metrics, and metrics that came with a stamp are not
  replaced by older ones. It is no promise about the metrics of a control event
  without evidence: they leave the stamp alone (`processEvent.js:62-70`), and a
  snapshot older than they but newer than the stamp replaces them.
- `CommandMatchesStatus`: no interleaving leaves a command pending that its
  account's status would make stale. This one also holds with the command
  worker's unguarded saves.
- `DealsAccountedFor`: once nothing is under way, trading days are exactly those
  of the applied deals and no closing deal is lost. A closing deal *can* be
  counted twice (only the last event is remembered), so the second part is a
  lower bound.
- `OneLiveTraderAccount`, `CompletedPhaseRejectsExposure`: never two tradable
  Trader accounts, and none of a completed phase.
- `PhaseTwoBeginsOnce`: the second phase is not left, and neither its stamp nor its
  trades are reset, by a replica that executes the promotion again, a redelivered
  command, an unguarded save of an old copy or a commit of the engine.
- `PendingCommandIsQueued`, `SnapshotsLand`, `BreachReachesTrader`: liveness.
- `ImplementsLedger`: every behaviour of `Payout` is one of `PayoutLedger`: at
  most one live payout, committed only when the share covers it with all that
  was paid, and final once ended. `NeverOvercommitted` bounds what is paid and on
  its way by the largest share there has been (the share may shrink after an
  approval).
- `SunpayWordIsTrue`, `SettlementIsRecorded`: a payout recorded on Sunpay's word
  was settled there, and what is settled there gets recorded, unless an admin has
  assigned the payout to another provider, or had when Sunpay reported it
  (`ReportRefused`).
- `OnlyPaidIsActivated`, `OneActivationAtATime`, `MailsCounted`: reordered,
  repeated and racing callbacks, jobs and sweeps open an account only for a
  settled payment, in one worker at a time unless a claim is outlived or an
  admin overrides it, with no more mails than faults explain. `PaidIsServed`: a
  paid payment gets its account and mail.
- `BlockedIsShut`, `DisabledIsShut`: when all calls have returned, a blocked
  customer's account is disabled and not active at Trader, and no account is
  active at Trader while disabled here. Both exclude failed calls and `clash`
  (below). `ReviewIsApprovable`: an approval that a block refused, that was
  superseded or that the recovery took back can be made again, under the same two
  conditions. `ApprovalEnds`, `OrphansClosed`: the reconciliation worker takes off
  claims and closes accounts that calls left behind, failed ones included. That
  the claim is gone does not mean that the account can be approved: see the
  observations.
- `VaultMatchesTrader`, `MailedIsCurrent`; `AckedIsRecorded`,
  `EscalationIsSticky`; `NothingLeftBehind`; `RepairStands`; `BoughtIsReached`:
  one or two for each of the small services, stated in their modules with the
  conditions they need. Each condition names a fault or a race for which TLC
  shows the property to fail; the hazards of `PROJECT.json` list them.

### Bounds, and why they are enough

Two workers give every pair of conflicting commits, and three events give a
third commit between another's read and write as well as a failing batch after
a success. One fault gives a crash at every point followed by recovery. The
events include equal times with and without sequence numbers, both breach
paths, an unsigned event, a deal that opens and closes; the initial accounts
are a challenge, a trial and an account under master approval. `MaxEvents`
bounds arrivals, `RetryLimit` redeliveries (5 in the code), `MaxQueued` the
copies counted, `TradedLevels` what trading reaches. With two command workers
only the promotion is run, because it has the most steps, and the breach comes
by Trader's own control event; the other commands, and a breach decided from a
snapshot, run with one command worker. Workers of a kind are symmetric in the
safety runs; liveness is checked without symmetry.

Payouts: two payouts and two calls are what a race for a share or for a key
needs; shares 1 and 2 let the share cover one payout, both, or one that was
admitted before it shrank. `LastCycle` bounds the calendar; `OnDemand` lifts the check of the cycle, as for
accounts paid on demand (`payout` was also explored with it). Faults are in the
run with Sunpay, where a crash, a lost answer or a failed request can fall at
every step. Access: two calls at once and a third after them, or the
reconciliation worker beside two, cover every pair of operations and what a
later one finds; a crash or a failed call to Trader counts as one of the three.
Here three calls were not enough to state the properties: with looser conditions
they held on this instance, the proofs failed, and TLC then showed a LOCK with an
activation beside it at five calls and a block beside an UNLOCK at eight. The
conditions are the corrected ones, and the theorems below do not depend on a
bound; instances of eight calls for a challenge, six for a
demo and five for a master account, two at once with one fault, were explored
without error (2.6, 1.3 and 4.4 million states). Payment: one caller and two workers, with one fault of
any kind; a second caller is in `payment_regresses`. Vault: two calls, two mail jobs
and the script that mails the password again.
Support: one mail delivered again, two requests, two cases. Snapshots: three
ranks, two processes, so that the lock's holder, a process that was refused and
a newer snapshot meet. Trading days: a closing and an opening deal of one day
and an opening of the next, with wrong rows in the initial states, and a count that
agrees with them or was never made (with one deal to come), one job and one
repair; the module and its theorem allow any count. Identity: two addresses, hence never more than two records, two
requests, one crash; the good is legacy or bought in the shop. A larger instance
with a legacy and a bought good (2.4 million states) was also explored without
error.

The six services of `services` share nothing, so `MCServices` runs each alone
from the same initial states.

`CHECK_DEADLOCK FALSE`: all arrived events processed, no command pending and no
Trader account open is a legitimate end, as is every bounded call returned.

### Fairness

Weak fairness of each worker's own steps and of the periodic sweep: processes
restart and timers fire. Faults, arrivals, and trading are never fair. Since
each fault is counted, a retried call is eventually not disturbed, which is the
assumption liveness needs: an outage that never ends would block every command.

The other liveness runs assume the same: calls and jobs in hand go on, workers
poll their queues, the sweeps and the reconciliation worker run every minute,
claims and approvals grow old. `SettlementIsRecorded` also needs Sunpay to
settle and to repeat a report until it is acknowledged, and the customer to open
the page again; these two are strong, because the calls they need are not always
free. Callbacks, customers and admins are never fair.

## Findings

1. **A breach can be overwritten** (`BreachOverwritten.cfg`). The promotion's
   recheck fails, the worker resumes the Trader account, the engine commits
   BREACHED, and `account.save()` (`command-worker.js:453`) writes ACTIVE,
   enabled. The engine alone satisfies the same property, by proof.
2. **A staged phase 2 is not retried** (`StagedPhaseTwoDropped.cfg`). After a
   failure between the commit and the opening, the retry takes the superseded
   path and the command is cleared.
3. **The trailing clear removes a newer command** (`PendingCleared.cfg`).

4. **A payment regresses** (`PaymentRegresses.cfg`). A callback that read the
   payment before another saved PAID writes its older word over it
   (`payment.service.js:966`), although the function that computes the word
   refuses to regress.

What conditions of properties exclude is recorded with the hazards: UNLOCK saved
over a block, a LOCK saved over an activation, a second activation of a challenge
during a LOCK, a password mailed while it is rotated, a count of trading days
written over a newer one, a first sign-in that is given a guest's record.

More observations have no run and are listed as hazards:

- an account can be BREACHED with `enabled` true (the engine's assignment of false
  is no change on its copy), and the command worker's own BREACHED result writes no
  breach record;
- an approval that fails, or dies and is recovered, before the funded account is
  provisioned sets the challenge's COMPLETED record to PAUSED
  (`admin.routes.js:565`, `lifecycle-reconciliation.worker.js:86-91`), and the
  claim's filter (`account-lifecycle.js:119-132`) then refuses every later
  approval: the account stays in review. `ReviewIsApprovable` excludes failed
  calls for this reason, and `ApprovalEnds` speaks of the claim only;
- an approval of a payout may name a provider (`payoutAdmin.service.js:276`). If the
  payout is then executed at Sunpay, the webhook is acknowledged and refused as a
  mismatch, and when the answer of the execution is lost the payout stays APPROVED
  although it was settled;
- a second activation of a challenge from an outlived claim (`payment.service.js:707`),
  with a LOCK between its check and its call, leaves the account LOCKED here and
  active at Trader.

## The proofs

The theorems hold for every value of the constants: any number of workers,
calls, payouts, cases, snapshots, events and faults, and any bounds. They are about the
safety part of each specification (`EngineSpec`, `LifecycleSpec`,
`PayoutSafetySpec`, `PaymentSafetySpec`, `AccessSafetySpec`, `IdentitySpec`, `VaultSpec`,
`DeskSpec`, `SnapshotSpec`, `DaysSpec`), hence about the fair one too. What they assume is
what the modules name as assumptions, and TLC evaluates these in every run: that
values standing for "nothing" differ from data, that bounds are numbers, that
payouts, payment workers and the repair's deals are finitely many (sums and
counts run over them), and that an engine or a promotion begins with an account that is itself
consistent (`InitialAccountsAssumption`, `InitialRecordsAssumption`; and
`InitialPhaseAssumption`: one that begins PASSED in its second phase has no promotion
pending, since a decision asks for one in the first phase only). One theorem
has a hypothesis of its own: `DealsAreAccounted` is about accounts that begin with
no day counted, no event remembered and a Trader account (`FreshStart`, the state
in which the activation of a first phase leaves them, and every account of the run `state_engine`);
days counted before the behaviour began have no rows in it.

| Module | Theorems |
|---|---|
| `StateEngineProofs` | `TypeCorrect`, `BreachedIsShut`, `CommandsMatch`, `StampedMetricsForward`, `BreachTerminal`, `EvidenceKept`, `DealsAreAccounted`, `EngineAppliesInTurn` |
| `CommandLifecycleProofs` | `LifecycleTyped`, `OneIsLive`, `CompletedIsShut`, `CommandsMatchBeside`, `PhaseTwoIsBegunOnce` |
| `PayoutProofs` | `PayoutsTyped`, `ReservationsHeld`, `SunpayBelieved`, `PayoutsCovered`, `PayoutsImplementLedger` |
| `PaymentProofs` | `PaymentTyped`, `ActivatedIsPaid`, `ActivationsCounted`, `MailsAreCounted` |
| `AccessProofs` | `AccessTyped`, `DisabledStaysShut`, `BlockedStaysShut`, `ReviewStaysApprovable` |
| `IdentityProofs` | `BoughtStaysReached` |
| `ServicesProofs` | `DeskTyped`, `MailsAreRecorded`, `EscalationSticks`; `VaultTyped`, `VaultFollowsTrader`, `SentIsCurrent`; `SnapshotsTyped`, `NewestIsProjected`; `DaysTyped`, `RepairsStand`; `ServicesTyped` |

Each rests on an inductive invariant, which TLC was given as an invariant before
it was proved, and which has a theorem of its own where a module has one
(`InductiveInvariant`, `LifecycleInductive`, `PayoutsInductive`,
`PaymentInductive`, `AccessInductive`, `IdentityInductive`, `DaysInductive`). None of the properties is inductive,
because none says what a process under way may remember. The arguments:

**The engine.** `IInv` adds `InFlight`: a copy is never newer than the account,
and a copy *with the account's version is the account*. It is preserved because
every commit increments the version, so an older copy fails the compare-and-set.
A guarded commit therefore applies an event's outcome to the account itself, and
what remains is sequential: one lemma per kind of event shows its outcome legal
(`Legal`: typed, consistent, and an `Evolves` step) on any consistent account.
The version alone carries the argument; the status in the guard is not needed.

**The deals.** `DealInv` speaks of the deals that are *known*: a commit has
counted them, and their job is done with, or the account, a copy of it or a batch
still remembers them. The number of trading days lies between the rows of the known
opening deals and all rows of the phase (`Bounds`), and every row belongs to a deal
that has arrived. A worker about to save has counted after its own row was written,
so its number lies between the same bounds with its own deal among the known, as
long as its copy has the account's version: had another deal become known since,
the version would have moved and the save would fail. A batch that fails may be
forgotten, which only lowers the lower bound; when nothing is under way all deals
that have arrived are known, and the bounds meet. For closing deals there is a lower
bound only, because a forgotten one is counted again.

**Events in turn.** The refinement of `SequentialAccount` needs no mapping, because
`StateEngine` has its variables `account` and `dayRows` among its own. `TurnInv` adds
to `InFlight` what a worker between the two calls for an opening deal relies on:
its copy is of the account's phase and platform account, which the engine never
changes, the deal applies to it, the deal's row is among the rows, and the number
it has counted is between one and the number of rows there are. Rows are only
added, so this stays true beside other workers. A commit whose guard holds is then
`Becomes` for the outcome of its event, and every other step is `NoteDay` or
changes neither variable. The deal may count days noted for deals that are applied
later: the abstract account says so (`DaysFound`), because the code counts rows and
not applied deals.

**The promotion.** A command worker saves by `_id`, so copies may be arbitrarily
old and `InFlight` is lost. `LifecycleInv` does not compare copies with the
account at all. It relates every document, stored or in the memory of a worker,
to the *platform*: what it calls completed was shut at Trader, and if it is in
phase 2 the first phase's account is over (`DocSound`). Trader never leaves a
final status, so what was true of an old copy stays true, and a save of any mix
of two sound documents is sound. `CommandSound` adds what each step of a command
relies on (from `provision` on, the first phase is over), `TraderSound` that the
second account exists only then. Two open Trader accounts would be those of the
two phases, which `TraderSound` excludes. This is why the property survives
crashes, retries and second replicas although the account document does not
(finding 1).

**Commands beside their workers.** A command pends on a status it is for, although
the saves of the command workers are unconditional. `MatchInv` rests on
`LifecycleInv` and adds what a copy may still write. Only the engine makes a command
pending, in a commit that increments the version; everything else at most withdraws one. A
copy of the engine with the account's version therefore differs from the account in
the command at most by its withdrawal (`ReadCurrent`), and a decision, which is only
taken on an undecided status, writes its status and its command together or finds
the command withdrawn. A command worker's copy has the status and
the command it was read with until the save that withdraws the command, which the copy
was read with (`CommandCurrent`); the one status a command worker writes otherwise,
FUNDED_REVIEW, is the one its copy was read with. The commit of the second phase is
conditional on the command it keeps. TLC was given `MatchInv` for two engine workers
and two events as well before it was proved.

**The second phase begins once.** The commit of the second phase resets the account
and leaves its version as it is, so the version does not tell the copies read before
it from those read after. What protects the new phase is the status in the engine's
guard, which the engine alone does not need. `BeginsInv` says so: a copy with the
account's version has made the account's progress, or was read as PASSED while the
account is not PASSED any more, and it becomes so again only by a commit of the
engine, which increments the version (`ReadBefore`). A command worker's copy is `Derived` from what
the worker read: it has the same progress, is never newly PASSED, and its command is
at most withdrawn. A save of the differences therefore takes no progress back,
however old the copy (`CommandDerived`), and a second commit finds no PASSED account
with the promotion pending, because passing the second phase decides none. TLC was
given `BeginsInv` with two engine workers and two events as well.

**Payouts.** `IInv` says that the share covers what was paid, and with it each
payout on its way (`WithinShare`), that one payout at most holds the unique
index's reservation (`OneActive`), and that what a call has read still bounds
what it will write: before the conditional update of an approval the amount read
covers the payout *for as long as the payout is still open* (`CallOK`). This is
preserved because nothing else can be approved or paid while this payout holds the
reservation. Each write of `Payout` is then one step of `PayoutLedger` or none.

**Payments.** Every status, word, claim and account goes back to a report of the
provider (`WordsReported`, `PaidIsReported`); the regress of finding 4 changes a
status and not the reports. `ClaimsCounted` and `MailsAccounted` count the
workers between claim and end against the claims that were outlived, with one
less while the claim is open.

**Access.** The invariant distinguishes what always holds, the types and that a
copy which is not behind *is* the document (`Copied`), from what holds while no
call has failed and nothing clashed (`Calm`). An account active at Trader is then
either *minded* by a call that will still pause, close or enable it, or
*accounted* for: enabled here with an ACTIVE platform record, or denied with such
a record before a block that is about to look for it (`RemoteSound`). A call that
leaves Trader for good, a failed activation about to settle or a LOCK about to
save, leaves it shut or in the hands of another (`LeavingSound`). After the denial
the account is disabled, and every activation before its last update fails in it
(`DenialSound`). `DocSound` ties the claim of an approval to a call in flight and
to a disabled account, `OneOfEach` bounds activations of a challenge or a demo and
changes of the customer to one at a time (others clash), `ReviewSound` says that an
account in review has its challenge completed and is claimed only by an approval
that has not committed yet; an approval whose claim was taken back before its
commit (`Lost`) will clash when it saves, and `ReviewIsApprovable` follows.
`CallsSound` says what each step relies on. Two forms of
step cover the actions: those that leave the document alone (`Respects`) and
those that leave it no more enabled than it was (`Shuts`); only the last update
of an activation, a reactivation and an UNLOCK enable, and have proofs of their
own. The first is why a LOCK minds *every* write since it read: the activation
enables an account that was disabled, so the LOCK is behind.

**Identity.** At most one record is linked, merged records lead to it, and goods
are filed under a record that is linked or has their address (`Keeps`).
`RequestOK` says what a resolution that has read relies on; all of it is
monotonic (`Onward`): records keep their address and their link, and reached goods
stay reached, so no write of another request can take it back.

**Vault, desk, snapshots.** `ClaimHeld`: while nothing lapsed, the call under the
claim is the only one between its second look and its save, and otherwise the
vault and Trader agree. `ClerkOK`: what a clerk's copy knows is among the
messages stored, which no save removes. `ProjectionsOK`: the lock's holder is
about to read the newest snapshot again, which justifies the process that dropped
its own.

**The composition.** `MCServices` gives each step to one service and leaves the
others as they are, so each of its behaviours is a behaviour of every service
(the lemma `ServicesAreTheirParts`), and what is proved of a service holds in it. `ServicesTyped`
collects the types.

**The trading days under repair.** Until the last reading the invariant only says
what the plan is made of (`RepairOK`) and what a job holds (`JobOK`). From the last
reading on no row goes, and a row that comes is that of a stored opening deal
(`ReadOK`): a deal stored later whose job has passed its upsert has its row, so a
reading that agrees with the deals is true of the rows at the end as well. After
success (`VerifiedOK`) the count lies between the days of the processed deals and
the rows, as for the engine, and a job about to save has counted its own.

`FiniteSums` proves what the community modules' `MapThenSumSet` adds up, by a smallest
counterexample among the finite subsets in place of induction.

Only model-checked:

- liveness: `PendingCommandIsQueued`, `SnapshotsLand`, `BreachReachesTrader`,
  `SettlementIsRecorded`, `PaidIsServed`, `ApprovalEnds`, `OrphansClosed`. It
  needs `ENABLED` and well-founded descent under fairness, which is out of the
  prover's reach;
- `PaidStaysPaid`, whose falsity is finding 4, and the other findings.

## Not modelled

- The restaging of an interrupted phase 2 by the reconciliation worker, and
  blocks, trial expiry and approvals during a promotion: they need `Access` and
  `CommandLifecycle` over one account, whose product is out of TLC's reach with
  the present bounds.
- `releaseTerminalTrialKeys` of the reconciliation worker: in `Access` every step
  that ends a demo clears its key in the same write, so the pass, a
  backstop, finds nothing.
- Event ingestion beyond its outcome; trading launch, which only reads; pricing,
  analytics, academy and calendar, which decide nothing here; one-off
  migrations; configuration, authentication, e-mail and HTTP plumbing.
- The MT5 and simulator connectors, which the lifecycle does not use.
- Several users with one address, several accounts of one customer, amounts and
  currencies.

## Plan

Models, runs and the proofs of safety are complete up to what is listed above: every
safety property the passing runs check, state invariant, action property or
refinement, is a theorem. The liveness properties stay with TLC. What is left to model
is what the section before this one lists: first the restaging of an interrupted
phase 2, for which `Access` and `CommandLifecycle` have to share an account.
