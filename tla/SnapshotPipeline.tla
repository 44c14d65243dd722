--------------------------- MODULE SnapshotPipeline ---------------------------
(***************************************************************************)
(* Valuation snapshots of one account on their way from Trader's webhook   *)
(* to the state engine: Redis keeps the newest one, every process of the   *)
(* API has a scheduler that projects it, one process at a time under a     *)
(* lock in Redis that expires.                                             *)
(*                                                                         *)
(* Abstracted: a snapshot is its rank in the order of valuation time and   *)
(* sequence (0 is none); other accounts, the concurrency of a scheduler,   *)
(* and what the engine does with a snapshot (StateEngine).                 *)
(***************************************************************************)
EXTENDS Naturals, FiniteSets, FiniteSetsExt

CONSTANTS
  Unlocked,
  Instances,     \* processes of the API
  MaxSnapshots,
  MaxDeliveries, \* bound on webhooks, repeated ones included
  MaxUpsets      \* bound on failed projections, crashes and failures of Redis

ASSUME SnapshotAssumption ==
  /\ Unlocked \notin Instances
  /\ {MaxSnapshots, MaxDeliveries, MaxUpsets} \subseteq Nat

VARIABLES
  newest,      \* the snapshot in Redis
  lock,        \* the projection lock
  scheduler,   \* the pending snapshot and the one of the retry timer
  projector,   \* the projection at work
  projected,   \* the newest snapshot the engine has processed
  deliveries,  \* webhooks so far
  upsets,      \* failed projections and other failures so far
  dropped      \* a crash or a failure of Redis lost a snapshot (history)

snapshotVars ==
  <<newest, lock, scheduler, projector, projected, deliveries, upsets, dropped>>

Ranks == 0..MaxSnapshots
Projection ==
  [at : {"idle", "acquire", "process", "release"},
   event : Ranks,      \* what was scheduled
   chosen : Ranks,     \* what is projected
   token : BOOLEAN, failed : BOOLEAN]
NoProjection ==
  [at |-> "idle", event |-> 0, chosen |-> 0, token |-> FALSE, failed |-> FALSE]
NothingDue == [pending |-> 0, retry |-> 0]

SnapshotTypeOK ==
  /\ {newest, projected} \subseteq Ranks
  /\ lock \in Instances \cup {Unlocked}
  /\ scheduler \in [Instances -> [pending : Ranks, retry : Ranks]]
  /\ projector \in [Instances -> Projection]
  /\ deliveries \in 0..MaxDeliveries
  /\ upsets \in 0..MaxUpsets
  /\ dropped \in BOOLEAN

SnapshotInit ==
  /\ newest = 0
  /\ lock = Unlocked
  /\ scheduler = [i \in Instances |-> NothingDue]
  /\ projector = [i \in Instances |-> NoProjection]
  /\ projected = 0
  /\ deliveries = 0
  /\ upsets = 0
  /\ dropped = FALSE

-----------------------------------------------------------------------------
Newer(a, b) == Max({a, b})
Upset == upsets < MaxUpsets /\ upsets' = upsets + 1

(* enqueue: the newest one is pending, and takes an older one off the      *)
(* retry timer.                                                            *)
Enqueued(due, event) ==
  [pending |-> Newer(due.pending, event),
   retry   |-> IF event >= due.retry THEN 0 ELSE due.retry]

(* What a failed projection leaves to the timer.                           *)
Retried(due, event) == [due EXCEPT !.retry = Newer(@, event)]

(* The store script takes a newer snapshot only; without Redis the         *)
(* snapshot is scheduled as it is.                                         *)
ReceiveSnapshot(i) ==
  /\ deliveries < MaxDeliveries
  /\ deliveries' = deliveries + 1
  /\ \E event \in Ranks \ {0} :
       \/ /\ event > newest
          /\ newest' = event
          /\ scheduler' = [scheduler EXCEPT ![i] = Enqueued(@, event)]
          /\ UNCHANGED <<upsets, dropped>>
       \/ /\ event <= newest
          /\ UNCHANGED <<newest, scheduler, upsets, dropped>>
       \/ /\ Upset
          /\ scheduler' = [scheduler EXCEPT ![i] = Enqueued(@, event)]
          /\ dropped' = TRUE
          /\ UNCHANGED newest
  /\ UNCHANGED <<lock, projector, projected>>

Drain(i) ==
  /\ projector[i].at = "idle"
  /\ scheduler[i].pending # 0
  /\ projector' = [projector EXCEPT
       ![i] = [NoProjection EXCEPT !.at = "acquire", !.event = scheduler[i].pending]]
  /\ scheduler' = [scheduler EXCEPT ![i].pending = 0]
  /\ UNCHANGED <<newest, lock, projected, deliveries, upsets, dropped>>

(* A projection that succeeded, or found the lock taken, takes an older    *)
(* one off the retry timer.                                                *)
Succeeds(i) ==
  /\ scheduler' = [scheduler EXCEPT ![i].retry = IF projector[i].event >= @ THEN 0 ELSE @]
  /\ projector' = [projector EXCEPT ![i] = NoProjection]

AcquireLock(i) ==
  /\ projector[i].at = "acquire"
  /\ IF lock = Unlocked
     THEN /\ lock' = i
          /\ projector' = [projector EXCEPT ![i] = [@ EXCEPT
               !.at = "process", !.token = TRUE, !.chosen = Newer(projector[i].event, newest)]]
          /\ UNCHANGED scheduler
     ELSE Succeeds(i) /\ UNCHANGED lock
  /\ UNCHANGED <<newest, projected, deliveries, upsets, dropped>>

ProjectUnlocked(i) ==
  /\ projector[i].at = "acquire"
  /\ Upset
  /\ dropped' = TRUE
  /\ projector' = [projector EXCEPT ![i] = [@ EXCEPT
       !.at = "process", !.chosen = projector[i].event]]
  /\ UNCHANGED <<newest, lock, scheduler, projected, deliveries>>

(* The engine ignores what is older than its last valuation.               *)
ProcessSnapshot(i) ==
  /\ projector[i].at = "process"
  /\ \/ /\ projected' = Newer(projected, projector[i].chosen)
        /\ projector' = [projector EXCEPT ![i].at = "release"]
        /\ UNCHANGED upsets
     \/ /\ projector' = [projector EXCEPT ![i] = [@ EXCEPT !.at = "release", !.failed = TRUE]]
        /\ Upset
        /\ UNCHANGED projected
  /\ UNCHANGED <<newest, lock, scheduler, deliveries, dropped>>

Settle(i, due) ==
  scheduler' = [scheduler EXCEPT ![i] =
    IF projector[i].failed THEN Retried(due, projector[i].event)
    ELSE [due EXCEPT !.retry = IF projector[i].event >= @ THEN 0 ELSE @]]

(* Faulty: the lock is dropped without a look at what came meanwhile.      *)
DropLock(i) ==
  /\ projector[i].at = "release"
  /\ lock' = IF projector[i].token /\ lock = i THEN Unlocked ELSE lock
  /\ Settle(i, scheduler[i])
  /\ projector' = [projector EXCEPT ![i] = NoProjection]
  /\ UNCHANGED <<newest, projected, deliveries, upsets, dropped>>

(* The release reads the newest snapshot again.                            *)
ReleaseLock(i) ==
  /\ projector[i].at = "release"
  /\ lock' = IF projector[i].token /\ lock = i THEN Unlocked ELSE lock
  /\ Settle(i, IF projector[i].token /\ newest > projector[i].chosen
               THEN Enqueued(scheduler[i], newest) ELSE scheduler[i])
  /\ projector' = [projector EXCEPT ![i] = NoProjection]
  /\ UNCHANGED <<newest, projected, deliveries, upsets, dropped>>

ReleaseFails(i) ==
  /\ projector[i].at = "release"
  /\ projector[i].token
  /\ Upset
  /\ dropped' = TRUE
  /\ Settle(i, scheduler[i])
  /\ projector' = [projector EXCEPT ![i] = NoProjection]
  /\ UNCHANGED <<newest, lock, projected, deliveries>>

RetryFires(i) ==
  /\ scheduler[i].retry # 0
  /\ scheduler' = [scheduler EXCEPT
       ![i] = Enqueued([scheduler[i] EXCEPT !.retry = 0], scheduler[i].retry)]
  /\ UNCHANGED <<newest, lock, projector, projected, deliveries, upsets, dropped>>

(* The lock expires, perhaps under a slow projection.                      *)
LockExpires ==
  /\ lock # Unlocked
  /\ lock' = Unlocked
  /\ UNCHANGED <<newest, scheduler, projector, projected, deliveries, upsets, dropped>>

(* A restart loses what was scheduled in memory, not the lock.             *)
InstanceCrashes(i) ==
  /\ projector[i] # NoProjection \/ scheduler[i] # NothingDue
  /\ Upset
  /\ dropped' = TRUE
  /\ projector' = [projector EXCEPT ![i] = NoProjection]
  /\ scheduler' = [scheduler EXCEPT ![i] = NothingDue]
  /\ UNCHANGED <<newest, lock, projected, deliveries>>

SnapshotNext ==
  \/ \E i \in Instances :
       \/ ReceiveSnapshot(i) \/ Drain(i) \/ AcquireLock(i) \/ ProjectUnlocked(i)
       \/ ProcessSnapshot(i) \/ ReleaseLock(i) \/ ReleaseFails(i)
       \/ RetryFires(i) \/ InstanceCrashes(i)
  \/ LockExpires

SnapshotSpec == SnapshotInit /\ [][SnapshotNext]_snapshotVars

-----------------------------------------------------------------------------
(* Properties.                                                             *)

(* No snapshot is left behind: when no process has one scheduled, on its   *)
(* retry timer or at work, the engine has seen the newest one accepted,    *)
(* though a process that finds the lock taken drops its own, locks expire  *)
(* under slow projections and projections fail.  A crash or a failure of   *)
(* Redis may leave one behind, until the next snapshot.                    *)
NothingLeftBehind ==
  ~dropped /\ (\A i \in Instances : projector[i] = NoProjection /\ scheduler[i] = NothingDue)
    => projected >= newest
=============================================================================
