------------------------------ MODULE TradingDays ------------------------------
(***************************************************************************)
(* The trading days of one account in one phase, while the maintenance     *)
(* script that repairs them runs beside the state engine.  A day counts    *)
(* when a deal opens exposure in it; older releases also recorded days of  *)
(* closing deals, and missed some.  The script reads rows and deals,       *)
(* deletes and upserts rows, reads again, and writes the account's count.  *)
(*                                                                         *)
(* Abstracted: a deal is a record whose number is its place in time; what  *)
(* else the engine saves (StateEngine); deals with an invalid time; dry    *)
(* runs, which change nothing.                                             *)
(***************************************************************************)
EXTENDS Naturals, FiniteSets, FiniteSetsExt

CONSTANTS
  Deals,         \* [number, day, opens]
  Missing,       \* no row for a day
  Untraced,      \* a row whose deal is no longer stored
  Bookers,    \* deal jobs at work together
  SyncAttempts,  \* MAX_SYNC_ATTEMPTS
  MaxHalts       \* bound on crashes of a job

ASSUME DaysAssumption ==
  /\ Deals \subseteq [number : Nat, day : Nat \ {0}, opens : BOOLEAN]
  /\ IsFiniteSet(Deals)
  /\ \A d, e \in Deals : d.number = e.number => d = e
  /\ {Missing, Untraced} \cap Deals = {}
  /\ Missing # Untraced
  /\ {SyncAttempts, MaxHalts} \subseteq Nat

VARIABLES
  stored,      \* the deal events stored (Event documents)
  settled,     \* those the engine has processed
  rows,        \* the AccountTradingDay rows, each by the deal it was made for
  count,       \* projections.tradingDays, lastTradingDay, version, and
               \* whether the account is still in the phase and active
  booker,      \* deal jobs at work
  repair,      \* the script
  halts,
  overlapped   \* a deal was counted or saved under the script's last look at
               \* rows and account (history)

daysVars == <<stored, settled, rows, count, booker, repair, halts, overlapped>>

Days == {e.day : e \in Deals}
Row == Deals \cup {Missing, Untraced}
Count == [days : 0..Cardinality(Days), last : Days \cup {0}, version : Nat, live : BOOLEAN]

Job == [at : {"idle", "upsert", "count", "save"}, deal : Deals \cup {Missing},
        version : Nat, days : 0..Cardinality(Days)]
NoJobDeal == [at |-> "idle", deal |-> Missing, version |-> 0, days |-> 0]

Repair ==
  [at : {"start", "read", "plan", "delete", "upsert", "look", "write", "done"},
   final : BOOLEAN,                   \* reading to verify
   attempt : 0..SyncAttempts,
   have : SUBSET {"rows", "deals"},   \* what the read has returned
   rows : [Days -> Row], deals : SUBSET Deals,
   todo : SUBSET Days, version : Nat,
   outcome : {"none", "manual", "conflict", "changed", "verified"}]

NoRepair ==
  [at |-> "start", final |-> FALSE, attempt |-> 0, have |-> {},
   rows |-> [d \in Days |-> Missing], deals |-> {}, todo |-> {},
   version |-> 0, outcome |-> "none"]

DaysTypeOK ==
  /\ settled \subseteq stored /\ stored \subseteq Deals
  /\ rows \in [Days -> Row]
  /\ count \in Count
  /\ booker \in [Bookers -> Job]
  /\ repair \in Repair
  /\ halts \in 0..MaxHalts
  /\ overlapped \in BOOLEAN

Recorded(table) == {d \in Days : table[d] # Missing}
LastOf(days) == IF days = {} THEN 0 ELSE Max(days)

(* Rows and a count older releases may have left for the deals of the past.*)
DaysInit ==
  /\ stored \in SUBSET Deals
  /\ settled = stored
  /\ rows \in {t \in [Days -> Row] : \A d \in Days :
                 t[d] \in Deals => t[d] \in settled /\ t[d].day = d}
  /\ \E n \in 0..Cardinality(Days), l \in Days \cup {0} :
       count = [days |-> n, last |-> l, version |-> 0, live |-> TRUE]
  /\ booker = [p \in Bookers |-> NoJobDeal]
  /\ repair = NoRepair
  /\ halts = 0
  /\ overlapped = FALSE

-----------------------------------------------------------------------------
(* The engine.  A deal is stored before it is projected.                   *)

StoreDeal ==
  /\ \E e \in Deals \ stored : stored' = stored \cup {e}
  /\ UNCHANGED <<settled, rows, count, booker, repair, halts, overlapped>>

LoadDeal(p) ==
  /\ booker[p].at = "idle"
  /\ \E e \in stored \ settled :
       booker' = [booker EXCEPT ![p] =
         [at |-> IF e.opens THEN "upsert" ELSE "save", deal |-> e,
          version |-> count.version, days |-> count.days]]
  /\ UNCHANGED <<stored, settled, rows, count, repair, halts, overlapped>>

RecordDay(p) ==
  /\ booker[p].at = "upsert"
  /\ rows' = [rows EXCEPT ![booker[p].deal.day] =
                IF @ = Missing THEN booker[p].deal ELSE @]
  /\ booker' = [booker EXCEPT ![p].at = "count"]
  /\ UNCHANGED <<stored, settled, count, repair, halts, overlapped>>

CountDays(p) ==
  /\ booker[p].at = "count"
  /\ booker' = [booker EXCEPT ![p].at = "save",
                                    ![p].days = Cardinality(Recorded(rows))]
  /\ UNCHANGED <<stored, settled, rows, count, repair, halts, overlapped>>

(* A lost compare-and-set leaves the deal to its next delivery.            *)
SaveDeal(p) ==
  LET deal == booker[p].deal
  IN /\ booker[p].at = "save"
     /\ booker' = [booker EXCEPT ![p] = NoJobDeal]
     /\ IF count.version # booker[p].version
        THEN UNCHANGED <<settled, count, overlapped>>
        ELSE /\ settled' = settled \cup {deal}
             /\ count' = [count EXCEPT
                  !.days = booker[p].days,
                  !.last = IF deal.opens THEN Max({@, deal.day}) ELSE @,
                  !.version = @ + 1]
             /\ overlapped' = (overlapped \/ (repair.final /\ "rows" \in repair.have))
     /\ UNCHANGED <<stored, rows, repair, halts>>

JobHalts(p) ==
  /\ booker[p].at # "idle"
  /\ halts < MaxHalts
  /\ halts' = halts + 1
  /\ booker' = [booker EXCEPT ![p] = NoJobDeal]
  /\ UNCHANGED <<stored, settled, rows, count, repair, overlapped>>

(* The account passes, breaches or is closed.                              *)
LeavePhase ==
  /\ count.live
  /\ count' = [count EXCEPT !.live = FALSE, !.version = @ + 1]
  /\ UNCHANGED <<stored, settled, rows, booker, repair, halts, overlapped>>

-----------------------------------------------------------------------------
(* The plan of the script for the rows and the deals it has read.          *)

Openings(deals) == {e \in deals : e.opens}

CanonicalDays(deals) == {e.day : e \in Openings(deals)}
Canonical(deals, d) ==
  CHOOSE e \in Openings(deals) : e.day = d
    /\ \A f \in Openings(deals) : f.day = d => e.number <= f.number

Surplus(table, deals) == Recorded(table) \ CanonicalDays(deals)

(* A row without a canonical day is stale when its deal is stored and is   *)
(* no opening; when the deal is not found the script does not guess.       *)
SafeToMutate(table, deals) ==
  /\ Recorded(table) # {} => deals # {}
  /\ \A d \in Surplus(table, deals) : table[d] \in deals

HasChanges(table, deals) ==
  \/ Surplus(table, deals) # {}
  \/ \E d \in CanonicalDays(deals) : table[d] # Canonical(deals, d)

RepairTo(step) == repair' = [repair EXCEPT !.at = step]
RepairEnds(outcome) ==
  repair' = [NoRepair EXCEPT !.at = "done", !.outcome = outcome]
Counted == \E p \in Bookers : booker[p].at = "save" /\ booker[p].deal.opens

(* An account that is not active is only reported on.                      *)
StartRepair ==
  /\ repair.at = "start"
  /\ count.live
  /\ RepairTo("read")
  /\ UNCHANGED <<stored, settled, rows, count, booker, halts, overlapped>>

(* The rows and the deals are read by two queries at once.                 *)
ReadCanonicalSnapshot ==
  /\ repair.at = "read"
  /\ \E part \in {"rows", "deals"} \ repair.have :
       repair' = [repair EXCEPT
         !.have = @ \cup {part},
         !.rows = IF part = "rows" THEN rows ELSE @,
         !.deals = IF part = "deals" THEN stored ELSE @,
         !.at = IF repair.have = {} THEN "read" ELSE "plan"]
  /\ UNCHANGED <<stored, settled, rows, count, booker, halts, overlapped>>

Reading(r, final) == [r EXCEPT !.at = "read", !.have = {}, !.final = final]

Safe == SafeToMutate(repair.rows, repair.deals)
Changes == HasChanges(repair.rows, repair.deals)

Plan ==
  /\ repair.at = "plan"
  /\ ~repair.final
  /\ CASE ~Safe /\ repair.attempt = 0 -> RepairEnds("manual")
       [] Safe /\ Changes /\ repair.attempt < SyncAttempts ->
              repair' = [repair EXCEPT !.at = "delete",
                           !.todo = Surplus(repair.rows, repair.deals)]
       [] OTHER -> repair' = Reading(repair, TRUE)
  /\ UNCHANGED <<stored, settled, rows, count, booker, halts, overlapped>>

(* One deletion of many rows, which the engine's steps can come between.   *)
DeleteStaleRow ==
  /\ repair.at = "delete"
  /\ \E d \in repair.todo :
       /\ rows' = [rows EXCEPT ![d] = Missing]
       /\ repair' = [repair EXCEPT !.todo = @ \ {d}]
  /\ UNCHANGED <<stored, settled, count, booker, halts, overlapped>>

StaleRowsDeleted ==
  /\ repair.at = "delete"
  /\ repair.todo = {}
  /\ repair' = [repair EXCEPT !.at = "upsert", !.todo = CanonicalDays(repair.deals)]
  /\ UNCHANGED <<stored, settled, rows, count, booker, halts, overlapped>>

UpsertCanonicalRow ==
  /\ repair.at = "upsert"
  /\ \E d \in repair.todo :
       /\ rows' = [rows EXCEPT ![d] = Canonical(repair.deals, d)]
       /\ repair' = [repair EXCEPT !.todo = @ \ {d}]
  /\ UNCHANGED <<stored, settled, count, booker, halts, overlapped>>

(* Faulty: what was applied is taken for what is stored.                   *)
TrustPlan ==
  /\ repair.at = "upsert"
  /\ repair.todo = {}
  /\ repair' = [repair EXCEPT !.at = "look", !.attempt = 0, !.final = TRUE,
       !.rows = [d \in Days |-> IF d \in CanonicalDays(repair.deals)
                                THEN Canonical(repair.deals, d) ELSE Missing]]
  /\ UNCHANGED <<stored, settled, rows, count, booker, halts, overlapped>>

ReadAgain ==
  /\ repair.at = "upsert"
  /\ repair.todo = {}
  /\ repair' = Reading([repair EXCEPT !.attempt = @ + 1], FALSE)
  /\ UNCHANGED <<stored, settled, rows, count, booker, halts, overlapped>>

Verify ==
  /\ repair.at = "plan"
  /\ repair.final
  /\ IF Safe /\ ~Changes
     THEN repair' = [repair EXCEPT !.at = "look", !.attempt = 0]
     ELSE RepairEnds("manual")
  /\ UNCHANGED <<stored, settled, rows, count, booker, halts, overlapped>>

(* updateCurrentPhaseProjection.                                           *)
TradingDaysRead == Cardinality(Recorded(repair.rows))
LatestDayRead == LastOf(Recorded(repair.rows))

LookAtAccount ==
  /\ repair.at = "look"
  /\ CASE ~count.live -> RepairEnds("changed")
       [] count.live /\ repair.attempt = SyncAttempts -> RepairEnds("conflict")
       [] OTHER ->
            IF count.days = TradingDaysRead /\ count.last = LatestDayRead
            THEN RepairEnds("verified")
            ELSE repair' = [repair EXCEPT !.at = "write", !.version = count.version]
  /\ overlapped' = (overlapped \/ Counted)
  /\ UNCHANGED <<stored, settled, rows, count, booker, halts>>

WriteProjection ==
  /\ repair.at = "write"
  /\ IF count.version = repair.version
     THEN /\ count' = [count EXCEPT !.days = TradingDaysRead, !.last = LatestDayRead,
                                    !.version = @ + 1]
          /\ RepairEnds("verified")
     ELSE /\ repair' = [repair EXCEPT !.at = "look", !.attempt = @ + 1]
          /\ UNCHANGED count
  /\ UNCHANGED <<stored, settled, rows, booker, halts, overlapped>>

DaysNext ==
  \/ StoreDeal
  \/ \E p \in Bookers :
       LoadDeal(p) \/ RecordDay(p) \/ CountDays(p) \/ SaveDeal(p) \/ JobHalts(p)
  \/ LeavePhase
  \/ StartRepair \/ ReadCanonicalSnapshot \/ Plan \/ DeleteStaleRow \/ StaleRowsDeleted
  \/ UpsertCanonicalRow \/ ReadAgain \/ Verify \/ LookAtAccount \/ WriteProjection

DaysSpec == DaysInit /\ [][DaysNext]_daysVars

-----------------------------------------------------------------------------
(* Properties.                                                             *)

(* The days of the deals processed, and no others.                         *)
RowsFollowDeals ==
  /\ \A e \in settled : e.opens => rows[e.day] # Missing
  /\ \A d \in Recorded(rows) : rows[d] \in stored /\ rows[d].opens

CountFollowsRows ==
  count.days = Cardinality(Recorded(rows)) /\ count.last = LastOf(Recorded(rows))

(* A repair that reports success stands, whatever deals the engine stored, *)
(* recorded, counted or dropped beside it: no opening day is lost to a     *)
(* deletion planned before the deal came, no day of a closing deal is      *)
(* left, and the account counts the rows once all deals are processed.     *)
(* The count needs that no deal was saved between the last read of the     *)
(* rows and the write, which overwrites the count of that deal, and that   *)
(* no count was still unsaved at the last look at the account.             *)
RepairStands ==
  repair.outcome = "verified" =>
    /\ RowsFollowDeals
    /\ settled = stored /\ ~overlapped => CountFollowsRows
=============================================================================
