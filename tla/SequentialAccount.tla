------------------------- MODULE SequentialAccount -------------------------
(***************************************************************************)
(* What the state engine promises about the account document, with no      *)
(* workers, copies, batches, redeliveries or crashes: events are applied   *)
(* one at a time, each completely, to the account as it is at that moment. *)
(* The days of opening deals are noted before the deals are applied, so a  *)
(* deal may count days of deals that are still to come.                    *)
(*                                                                         *)
(* The order of the events is open, and an event may be applied again once *)
(* another one has been: an account remembers only the last.               *)
(***************************************************************************)
EXTENDS TradingAccount, FiniteSets

CONSTANTS
  Events,         \* the event documents, one per eventId
  InitialAccounts \* accounts the behaviours start from

ASSUME EventsAssumption ==
  /\ Events \subseteq EventDoc
  /\ \A e, f \in Events : e.id = f.id => e = f

VARIABLES
  account,       \* the account document in MongoDB
  dayRows        \* AccountTradingDay rows of the account

DayRow == [phase : {1, 2}, platformAccountId : PlatformIds, day : Nat]

(* The row an opening deal has in the collection, for the phase of `acc`.  *)
DayRowOf(acc, e) ==
  [phase |-> acc.currentPhase, platformAccountId |-> e.platformAccountId,
   day |-> e.day]

RowsFor(phase, platform) ==
  {r \in dayRows : r.phase = phase /\ r.platformAccountId = platform}

SequentialInit ==
  /\ account \in InitialAccounts
  /\ dayRows = {}

AppliedLast(acc, e) == e.signed /\ acc.lastProcessedEventId = e.id

NoteDay(e) ==
  /\ e.type = "DEAL" /\ e.opens
  /\ ~Ignored(account, e)
  /\ dayRows' = dayRows \cup {DayRowOf(account, e)}
  /\ UNCHANGED account

(* The numbers of trading days an opening deal may find: its own day is    *)
(* among them, and no day that is not noted.                               *)
DaysFound(e) == 1..Cardinality(RowsFor(account.currentPhase, e.platformAccountId))

(* The account becomes `next`, a new version that remembers the event.     *)
Becomes(next, e) ==
  account' = [next EXCEPT !.lastProcessedEventId = e.id,
                          !.version = account.version + 1]

Ignore(e) == Ignored(account, e) /\ Becomes(account, e)

ApplyControl(e) ==
  /\ e.type = "CONTROL"
  /\ ~Ignored(account, e)
  /\ Becomes(ControlOutcome(account, e), e)

ApplySnapshot(e) ==
  /\ e.type = "SNAPSHOT"
  /\ ~Ignored(account, e)
  /\ Becomes(SnapshotOutcome(account, e), e)

ApplyDeal(e) ==
  /\ e.type = "DEAL"
  /\ ~Ignored(account, e)
  /\ \/ ~e.opens /\ Becomes(DealOutcome(account, e, 0), e)
     \/ /\ e.opens
        /\ DayRowOf(account, e) \in dayRows
        /\ \E n \in DaysFound(e) : Becomes(DealOutcome(account, e, n), e)

ApplyEvent(e) ==
  /\ ~AppliedLast(account, e)
  /\ Ignore(e) \/ ApplyControl(e) \/ ApplySnapshot(e) \/ ApplyDeal(e)
  /\ UNCHANGED dayRows

SequentialNext == \E e \in Events : NoteDay(e) \/ ApplyEvent(e)

SequentialSpec ==
  SequentialInit /\ [][SequentialNext]_<<account, dayRows>>

=============================================================================
