----------------------- MODULE CommandLifecycleProofs -----------------------
(***************************************************************************)
(* Proofs about the command workers beside the state engine: a Trader      *)
(* account that was shut is never opened again, and every document that    *)
(* calls a phase completed, the account's or a copy in the memory of a     *)
(* worker, describes one that was shut. From that follows that no two      *)
(* Trader accounts of one account are ever open, wherever the promotion    *)
(* crashes, is retried, or runs twice at once.                             *)
(* The two last sections prove that a pending command always fits the      *)
(* status, and that the second phase begins once, whatever stale copies    *)
(* the command workers save.                                               *)
(***************************************************************************)
EXTENDS CommandLifecycle, StateEngineProofs

(* `t` is the platform's state, now or after a step. An account of it that *)
(* is shut stays so; one that can still be opened is active or paused.     *)
Opening == {"ACTIVE", "PAUSED"}
ShutAt(t, p) == t[p].status \notin Opening \cup {None}
FirstPhaseOver(t) == t[PhaseAccount[1]].status \notin Opening

(* The platform has accounts of the two phases only, and the second one's  *)
(* only once the first one's is over.                                      *)
TraderSound(t) ==
  /\ t \in [PlatformIds -> TraderAccount]
  /\ \A p \in PlatformIds \ {PhaseAccount[1], PhaseAccount[2]} : t[p].status = None
  /\ t[PhaseAccount[2]].status # None => FirstPhaseOver(t)

(* What a document says is completed was shut.                             *)
DocSound(doc, t) ==
  /\ doc \in AccountDoc
  /\ \A p \in PlatformIds : doc.platformStatus[p] = "COMPLETED" => ShutAt(t, p)
  /\ doc.currentPhase = 2 => FirstPhaseOver(t)

(* A control event that has arrived reported the state it found.           *)
EventSound(e, t) ==
  e.type = "CONTROL" /\ e.status = "COMPLETED" => ShutAt(t, e.platformAccountId)

Arrived(j) == {e \in Events : j[e].state # "expected"}

(* A command worker in state `s` with command `k`, copy and base.          *)
CommandSound(s, k, modified, loaded, t) ==
  /\ s # "idle" => k \in Commands
  /\ s \notin {"idle", "start"} => DocSound(modified, t) /\ DocSound(loaded, t)
  /\ s \in {"fetch", "resume", "disable", "complete"} => k # "LOCK_ACCOUNT"
  /\ s \in {"provision", "savePhase", "commit", "superseded", "activate", "open",
            "unstage", "shut"} => FirstPhaseOver(t)
  /\ s \in {"complete", "review"} => ShutAt(t, PhaseAccount[FinalizedPhase(k, modified)])

(* An engine worker's batch and copy.                                      *)
Batch(w) == done[w] \cup todo[w] \cup ({event[w]} \ {None})

WorkerSound(w) ==
  /\ Batch(w) \subseteq Arrived(job)
  /\ pc[w] \in Handling =>
       /\ event[w] \in Arrived(job)
       /\ DocSound(read[w], trader)
       /\ pc[w] = "send" => toSend[w] \in Commands

LifecycleInv ==
  /\ LifecycleTypeOK
  /\ IsFiniteSet(dayRows)
  /\ TraderSound(trader)
  /\ DocSound(account, trader)
  /\ \A e \in Arrived(job) : EventSound(e, trader)
  /\ \A w \in Workers : WorkerSound(w)
  /\ \A c \in CommandWorkers :
       CommandSound(cpc[c], command[c], copy[c], base[c], trader)

-----------------------------------------------------------------------------
(* The platform.                                                           *)

PhaseFacts ==
  /\ PhaseAccount[1] \in PlatformIds /\ PhaseAccount[2] \in PlatformIds
  /\ PhaseAccount[1] # PhaseAccount[2]
  /\ None \notin PlatformStatus

LEMMA PhasesAre == PhaseFacts
BY PhaseAccountAssumption, NoneIsNoData DEF PhaseFacts

(* What the platform may become in a step: nothing shut opens again.       *)
Follows(t, u) ==
  /\ TraderSound(u)
  /\ \A p \in PlatformIds : ShutAt(t, p) => ShutAt(u, p)
  /\ FirstPhaseOver(t) => FirstPhaseOver(u)

LEMMA SameFollows ==
  ASSUME NEW t, TraderSound(t)
  PROVE  Follows(t, t)
BY DEF Follows

LEMMA FollowsTransitive ==
  ASSUME NEW t, NEW u, NEW v, Follows(t, u), Follows(u, v)
  PROVE  Follows(t, v)
BY DEF Follows

(* One account of the platform that existed changes, and is not opened if  *)
(* it was shut.                                                            *)
LEMMA OneFollows ==
  ASSUME NEW t, TraderSound(t), NEW p \in PlatformIds, NEW new \in TraderAccount,
         t[p].status # None, ShutAt(t, p) => ShutAt([t EXCEPT ![p] = new], p)
  PROVE  Follows(t, [t EXCEPT ![p] = new])
<1> DEFINE u == [t EXCEPT ![p] = new]
<1>1. /\ u \in [PlatformIds -> TraderAccount] /\ u[p] = new
      /\ \A q \in PlatformIds \ {p} : u[q] = t[q]
  BY DEF TraderSound
<1> HIDE DEF u
<1>2. \A q \in PlatformIds : ShutAt(t, q) => ShutAt(u, q)
  <2> SUFFICES ASSUME NEW q \in PlatformIds, ShutAt(t, q) PROVE ShutAt(u, q)
    OBVIOUS
  <2>1. CASE q = p
    BY <2>1 DEF u
  <2>2. CASE q # p
    BY <1>1, <2>2 DEF ShutAt
  <2> QED
    BY <2>1, <2>2
<1>3. FirstPhaseOver(t) => FirstPhaseOver(u)
  <2>1. CASE p = PhaseAccount[1]
    BY <1>2, <2>1 DEF FirstPhaseOver, ShutAt
  <2>2. CASE p # PhaseAccount[1]
    BY <1>1, <2>2, PhasesAre DEF FirstPhaseOver, PhaseFacts
  <2> QED
    BY <2>1, <2>2
<1>4. TraderSound(u)
  <2>1. \A q \in PlatformIds : u[q].status # None => t[q].status # None
    BY <1>1
  <2> QED
    BY <1>1, <1>3, <2>1, PhasesAre DEF TraderSound, PhaseFacts
<1> QED
  BY <1>2, <1>3, <1>4 DEF Follows, u

(* A status the platform accepts opens nothing that was shut.              *)
LEMMA AcceptedFollows ==
  ASSUME NEW t, TraderSound(t), NEW p \in PlatformIds, NEW status \in PlatformStatus,
         \/ t[p].status \in {"ACTIVE", "PAUSED", status}
         \/ status = "BREACHED" /\ t[p].status = "DISABLED"
  PROVE  Follows(t, [t EXCEPT ![p].status = status])
<1>1. t[p] \in TraderAccount /\ status # None
  BY PhasesAre DEF TraderSound, PhaseFacts
<1>2. PICK new : new = [t[p] EXCEPT !.status = status]
  OBVIOUS
<1>3. new \in TraderAccount /\ new.status = status
  BY <1>1, <1>2 DEF TraderAccount
<1>4. [t EXCEPT ![p].status = status] = [t EXCEPT ![p] = new]
  BY <1>2
<1>5. [t EXCEPT ![p] = new][p] = new
  BY DEF TraderSound
<1>6. t[p].status # None
  BY <1>1, PhasesAre DEF PhaseFacts, PlatformStatus
<1>7. ShutAt(t, p) => ShutAt([t EXCEPT ![p] = new], p)
  BY <1>1, <1>3, <1>5 DEF ShutAt, Opening
<1> QED
  BY <1>3, <1>4, <1>6, <1>7, OneFollows

LEMMA SetStatusFollows ==
  ASSUME TraderSound(trader), NEW p \in PlatformIds \cup {None}, NEW status \in PlatformStatus,
         Accepts(p, status), SetStatus(p, status)
  PROVE  Follows(trader, trader')
<1>1. CASE p \in PlatformIds
  BY <1>1, AcceptedFollows DEF Accepts, SetStatus
<1>2. CASE p \notin PlatformIds
  <2>1. trader' = trader
    BY <1>2 DEF SetStatus, TraderSound
  <2> QED
    BY <2>1, SameFollows
<1> QED
  BY <1>1, <1>2

LEMMA StageFollows ==
  ASSUME TraderSound(trader), NEW p \in PlatformIds \cup {None}, Stage(p)
  PROVE  Follows(trader, trader')
<1>1. CASE p \in PlatformIds /\ trader[p].status = "ACTIVE" /\ trader' # trader
  <2>1. trader' = [trader EXCEPT ![p].status = "PAUSED"]
    BY <1>1 DEF Stage
  <2> QED
    BY <1>1, <2>1, AcceptedFollows DEF PlatformStatus
<1>2. CASE ~(p \in PlatformIds /\ trader[p].status = "ACTIVE")
  <2>1. trader' = trader
    <3>1. CASE UNCHANGED trader
      BY <3>1
    <3>2. CASE trader' = [trader EXCEPT ![p].status = IF @ = "ACTIVE" THEN "PAUSED" ELSE @]
      <4>1. CASE p \notin PlatformIds
        BY <3>2, <4>1 DEF TraderSound
      <4>2. CASE p \in PlatformIds
        <5>1. trader[p] \in TraderAccount /\ trader[p].status # "ACTIVE"
          BY <1>2, <4>2 DEF TraderSound
        <5>2. trader' = [trader EXCEPT ![p].status = trader[p].status]
          BY <3>2, <5>1
        <5>3. [trader[p] EXCEPT !.status = trader[p].status] = trader[p]
          BY <5>1 DEF TraderAccount
        <5> QED
          BY <5>2, <5>3 DEF TraderSound
      <4> QED
        BY <4>1, <4>2
    <3> QED
      BY <3>1, <3>2 DEF Stage
  <2> QED
    BY <2>1, SameFollows
<1>3. CASE trader' = trader
  BY <1>3, SameFollows
<1> QED
  BY <1>1, <1>2, <1>3

(* What holds of documents, events and command workers outlives a step of  *)
(* the platform.                                                           *)
LEMMA SoundOutlives ==
  ASSUME NEW t, NEW u, Follows(t, u)
  PROVE  /\ \A doc : DocSound(doc, t) => DocSound(doc, u)
         /\ \A e \in Events : EventSound(e, t) => EventSound(e, u)
         /\ \A s, k, modified, loaded :
              CommandSound(s, k, modified, loaded, t) => CommandSound(s, k, modified, loaded, u)
<1>1. ASSUME NEW doc, DocSound(doc, t) PROVE DocSound(doc, u)
  BY <1>1 DEF DocSound, Follows
<1>2. ASSUME NEW e \in Events, EventSound(e, t) PROVE EventSound(e, u)
  <2>1. e.platformAccountId \in PlatformIds
    BY EventsAssumption DEF EventDoc
  <2> QED
    BY <1>2, <2>1 DEF EventSound, Follows
<1>3. ASSUME NEW s, NEW k, NEW modified, NEW loaded, CommandSound(s, k, modified, loaded, t)
      PROVE  CommandSound(s, k, modified, loaded, u)
  <2>1. s \in {"complete", "review"} => PhaseAccount[FinalizedPhase(k, modified)] \in PlatformIds
    <3>1. s \in {"complete", "review"} => modified \in AccountDoc
      BY <1>3 DEF CommandSound, DocSound
    <3>2. modified \in AccountDoc => FinalizedPhase(k, modified) \in {1, 2}
      BY DEF FinalizedPhase, AccountDoc
    <3> QED
      BY <3>1, <3>2, PhasesAre DEF PhaseFacts
  <2>2. s \notin {"idle", "start"} => DocSound(modified, u) /\ DocSound(loaded, u)
    BY <1>1, <1>3 DEF CommandSound
  <2> QED
    BY <1>3, <2>1, <2>2 DEF CommandSound, Follows
<1> QED
  BY <1>1, <1>2, <1>3

-----------------------------------------------------------------------------
(* Documents.                                                              *)

(* `new` is a document with the records and the phase of `doc`.            *)
SameRecords(doc, new) ==
  /\ new \in AccountDoc
  /\ new.platformStatus = doc.platformStatus
  /\ new.currentPhase = doc.currentPhase

(* What handling the event e may do to the records.                        *)
RecordsAfter(doc, new, e) ==
  /\ new \in AccountDoc
  /\ new.currentPhase = doc.currentPhase
  /\ \A p \in PlatformIds :
       \/ new.platformStatus[p] = doc.platformStatus[p]
       \/ e.type = "CONTROL" /\ p = e.platformAccountId /\ new.platformStatus[p] = e.status

LEMMA MetricsRecords ==
  ASSUME NEW doc \in AccountDoc, NEW e \in EventDoc
  PROVE  SameRecords(doc, ApplyMetrics(doc, e)) /\ SameRecords(doc, Stamp(doc, e))
<1>1. PICK v, q : v = [level |-> e.level, at |-> e.at]
                  /\ q = IF e.sequence = NoSequence THEN doc.lastSnapshotSequence ELSE e.sequence
  OBVIOUS
<1>2. v \in Valuation /\ q \in Nat /\ e.at \in Nat
  BY <1>1 DEF Valuation, EventDoc, AccountDoc, SequenceNumbers
<1>3. ApplyMetrics(doc, e) = [doc EXCEPT !.valuation = v]
  BY <1>1 DEF ApplyMetrics
<1>4. Stamp(doc, e) = [doc EXCEPT !.lastSnapshotAt = e.at, !.lastSnapshotSequence = q]
  BY <1>1 DEF Stamp
<1>5. SameRecords(doc, ApplyMetrics(doc, e))
  BY <1>2, <1>3 DEF SameRecords, AccountDoc
<1>6. SameRecords(doc, Stamp(doc, e))
  BY <1>2, <1>4 DEF SameRecords, AccountDoc
<1> QED
  BY <1>5, <1>6

LEMMA StampedRecords ==
  ASSUME NEW doc \in AccountDoc, NEW e \in EventDoc
  PROVE  SameRecords(doc, Stamp(ApplyMetrics(doc, e), e))
<1>1. PICK valued : valued = ApplyMetrics(doc, e)
  OBVIOUS
<1>2. SameRecords(doc, valued)
  BY <1>1, MetricsRecords
<1>3. SameRecords(valued, Stamp(valued, e))
  BY <1>2, MetricsRecords DEF SameRecords
<1> QED
  BY <1>1, <1>2, <1>3 DEF SameRecords

LEMMA ControlMetricsRecords ==
  ASSUME NEW doc \in AccountDoc, NEW e \in EventDoc
  PROVE  SameRecords(doc, ControlMetrics(doc, e))
<1>1. SameRecords(doc, doc)
  BY DEF SameRecords
<1> QED
  BY <1>1, MetricsRecords, StampedRecords DEF ControlMetrics

LEMMA EndTrialRecords ==
  ASSUME NEW doc \in AccountDoc, NEW result \in TrialResults
  PROVE  SameRecords(doc, EndTrial(doc, result))
<1>1. SameRecords(doc, doc)
  BY DEF SameRecords
<1>2. SameRecords(doc, [doc EXCEPT !.activeTrialKey = FALSE, !.trialResult = result])
  BY DEF SameRecords, AccountDoc
<1> QED
  BY <1>1, <1>2 DEF EndTrial

LEMMA BreachesTyped ==
  ASSUME NEW e \in EventDoc
  PROVE  SnapshotBreach(e) \in BreachRecord /\ ControlBreach(e) \in BreachRecord
BY DEF SnapshotBreach, ControlBreach, BreachRecord, BreachReason, EventDoc

LEMMA ControlBreachedRecords ==
  ASSUME NEW doc \in AccountDoc, NEW e \in EventDoc
  PROVE  SameRecords(doc, ControlBreached(doc, e))
<1>1. PICK closed : closed = [doc EXCEPT !.status = "BREACHED", !.enabled = FALSE,
                                         !.commandPending = None, !.lifecycleOperation = None]
  OBVIOUS
<1>2. SameRecords(doc, closed)
  BY <1>1 DEF SameRecords, AccountDoc, AccountStatus
<1>3. PICK ended : ended = EndTrial(closed, "BREACHED")
  OBVIOUS
<1>4. SameRecords(closed, ended)
  BY <1>2, <1>3, EndTrialRecords DEF SameRecords, TrialResults
<1>5. PICK b : b = IF ShouldReplaceBreachRecord(ended.breach, ControlBreach(e))
                   THEN ControlBreach(e) ELSE ended.breach
  OBVIOUS
<1>6. b \in BreachRecord \cup {None}
  BY <1>4, <1>5, BreachesTyped DEF SameRecords, AccountDoc
<1>7. ControlBreached(doc, e) = [ended EXCEPT !.breach = b]
  BY <1>1, <1>3, <1>5 DEF ControlBreached
<1> QED
  BY <1>2, <1>4, <1>6, <1>7 DEF SameRecords, AccountDoc

LEMMA ControlRecords ==
  ASSUME NEW doc \in AccountDoc, NEW e \in EventDoc, e.type = "CONTROL"
  PROVE  RecordsAfter(doc, ControlOutcome(doc, e), e)
<1>1. PICK valued : valued = ControlMetrics(doc, e)
  OBVIOUS
<1>2. SameRecords(doc, valued)
  BY <1>1, ControlMetricsRecords
<1>3. PICK controlled : controlled = RecordStatus(valued, e)
  OBVIOUS
<1>4. RecordsAfter(doc, controlled, e)
  <2>1. e.platformAccountId \in PlatformIds /\ e.status \in PlatformStatus
    BY DEF EventDoc
  <2>2. PICK s : s = [valued.platformStatus EXCEPT ![e.platformAccountId] = e.status]
    OBVIOUS
  <2>3. /\ s \in [PlatformIds -> PlatformStatus \cup {None}] /\ s[e.platformAccountId] = e.status
        /\ \A p \in PlatformIds \ {e.platformAccountId} : s[p] = valued.platformStatus[p]
    BY <1>2, <2>1, <2>2 DEF SameRecords, AccountDoc
  <2>4. controlled = valued \/ controlled = [valued EXCEPT !.platformStatus = s]
    BY <1>3, <2>2 DEF RecordStatus
  <2>5. controlled = valued => RecordsAfter(doc, controlled, e)
    BY <1>2 DEF SameRecords, RecordsAfter
  <2>6. ASSUME controlled = [valued EXCEPT !.platformStatus = s]
        PROVE  RecordsAfter(doc, controlled, e)
    <3>1. controlled \in AccountDoc /\ controlled.platformStatus = s
          /\ controlled.currentPhase = doc.currentPhase
      BY <1>2, <2>3, <2>6 DEF SameRecords, AccountDoc
    <3> QED
      BY <1>2, <2>3, <3>1 DEF SameRecords, RecordsAfter
  <2> QED
    BY <2>4, <2>5, <2>6
<1>5. SameRecords(controlled, ControlBreached(controlled, e))
  BY <1>4, ControlBreachedRecords DEF RecordsAfter
<1>6. ControlOutcome(doc, e) \in {controlled, ControlBreached(controlled, e)}
  BY <1>1, <1>3 DEF ControlOutcome
<1> QED
  BY <1>4, <1>5, <1>6 DEF RecordsAfter, SameRecords

LEMMA DealRecords ==
  ASSUME NEW doc \in AccountDoc, NEW e \in EventDoc, NEW n \in Nat
  PROVE  SameRecords(doc, DealOutcome(doc, e, n))
<1>1. PICK d, t : d = (IF e.opens THEN n ELSE doc.tradingDays)
                  /\ t = (IF e.closes THEN doc.totalTrades + 1 ELSE doc.totalTrades)
  OBVIOUS
<1>2. d \in Nat /\ t \in Nat
  BY <1>1 DEF AccountDoc
<1>3. DealOutcome(doc, e, n) = [doc EXCEPT !.tradingDays = d, !.totalTrades = t]
  BY <1>1 DEF DealOutcome
<1> QED
  BY <1>2, <1>3 DEF SameRecords, AccountDoc

LEMMA DecisionTyped ==
  ASSUME NEW doc
  PROVE  /\ ResolveDecision(doc).status \in AccountStatus
         /\ ResolveDecision(doc).command \in Commands \cup {None}
BY DEF ResolveDecision, NoDecision, PhasePassed, AccountStatus, Commands

LEMMA DecideRecords ==
  ASSUME NEW doc \in AccountDoc, NEW e \in EventDoc
  PROVE  SameRecords(doc, Decide(doc, e))
<1>1. PICK d : d = ResolveDecision(doc)
  OBVIOUS
<1>2. d.status \in AccountStatus /\ d.command \in Commands \cup {None}
  BY <1>1, DecisionTyped
<1>3. PICK decided : decided = [doc EXCEPT !.status = d.status, !.enabled = FALSE,
                                           !.commandPending = d.command]
  OBVIOUS
<1>4. SameRecords(doc, decided)
  BY <1>2, <1>3 DEF SameRecords, AccountDoc
<1>5. SameRecords(decided, SnapshotBreached(decided, e))
  <2>1. PICK released : released = [decided EXCEPT !.lifecycleOperation = None]
    OBVIOUS
  <2>2. SameRecords(decided, released)
    BY <1>4, <2>1 DEF SameRecords, AccountDoc
  <2>3. PICK ended : ended = EndTrial(released, "BREACHED")
    OBVIOUS
  <2>4. SameRecords(released, ended)
    BY <2>2, <2>3, EndTrialRecords DEF SameRecords, TrialResults
  <2>5. PICK b : b = IF ended.breach = None THEN SnapshotBreach(e) ELSE ended.breach
    OBVIOUS
  <2>6. b \in BreachRecord \cup {None}
    BY <2>4, <2>5, BreachesTyped DEF SameRecords, AccountDoc
  <2>7. SnapshotBreached(decided, e) = [ended EXCEPT !.breach = b]
    BY <2>1, <2>3, <2>5 DEF SnapshotBreached
  <2> QED
    BY <2>2, <2>4, <2>6, <2>7 DEF SameRecords, AccountDoc
<1>6. SameRecords(doc, doc)
  BY DEF SameRecords
<1>7. Decide(doc, e) \in {doc, decided, SnapshotBreached(decided, e)}
  BY <1>1, <1>3 DEF Decide
<1> QED
  BY <1>4, <1>5, <1>6, <1>7 DEF SameRecords

LEMMA SnapshotRecords ==
  ASSUME NEW doc \in AccountDoc, NEW e \in EventDoc
  PROVE  /\ SameRecords(doc, SnapshotOutcome(doc, e))
         /\ SnapshotCommand(doc, e) \in Commands \cup {None}
<1>1. PICK valued : valued = Stamp(ApplyMetrics(doc, e), e)
  OBVIOUS
<1>2. SameRecords(doc, valued)
  BY <1>1, StampedRecords
<1>3. SameRecords(valued, Decide(valued, e))
  BY <1>2, DecideRecords DEF SameRecords
<1>4. SnapshotOutcome(doc, e) \in {valued, Decide(valued, e)}
  BY <1>1 DEF SnapshotOutcome
<1>5. SnapshotCommand(doc, e) \in Commands \cup {None}
  BY DecisionTyped DEF SnapshotCommand
<1> QED
  BY <1>2, <1>3, <1>4, <1>5 DEF SameRecords

(* A save of modified paths leaves each record and the phase as they are,  *)
(* or as the copy has them.                                                *)
LEMMA WrittenIs ==
  ASSUME NEW current \in AccountDoc, NEW loaded \in AccountDoc, NEW modified \in AccountDoc
  PROVE  LET new == WriteModified(current, loaded, modified)
         IN  /\ new \in AccountDoc
             /\ new.currentPhase \in {current.currentPhase, modified.currentPhase}
             /\ \A p \in PlatformIds :
                  new.platformStatus[p] \in {current.platformStatus[p], modified.platformStatus[p]}
<1>1. PICK new : new = WriteModified(current, loaded, modified)
  OBVIOUS
<1>2. new \in AccountDoc
  BY <1>1 DEF WriteModified, AccountDoc
<1>3. new.currentPhase \in {current.currentPhase, modified.currentPhase}
  BY <1>1 DEF WriteModified
<1>4. ASSUME NEW p \in PlatformIds
      PROVE  new.platformStatus[p] \in {current.platformStatus[p], modified.platformStatus[p]}
  BY <1>1 DEF WriteModified
<1> QED
  BY <1>1, <1>2, <1>3, <1>4

-----------------------------------------------------------------------------
(* The state engine.                                                       *)

(* What a step of engine worker w has to show of the workers.              *)
Moves(w) ==
  /\ WorkersTyped'
  /\ OthersUnchanged(w)
  /\ \A v \in Workers \ {w} : todo'[v] = todo[v] /\ done'[v] = done[v]
  /\ Arrived(job') = Arrived(job)
  /\ WorkerSound(w)'

LEMMA FinishMoves ==
  ASSUME TypeOK, NEW w \in Workers, WorkerSound(w), pc[w] \in Handling, FinishEvent(w)
  PROVE  Moves(w)
<1>1. event[w] \in Arrived(job) /\ event[w] \in Events /\ todo[w] \cup done[w] \subseteq Arrived(job)
  BY DEF WorkerSound, Batch, Arrived
<1>2. WorkersTyped' /\ OthersUnchanged(w)
  BY <1>1, FinishLetsGo
<1>3. PICK last, next : /\ Forget(w, next) /\ next \in {"idle", "load"}
                        /\ job' = [e \in Events |->
                             IF last /\ e \in done[w] \cup {event[w]}
                             THEN [job[e] EXCEPT !.state = "completed"] ELSE job[e]]
  BY DEF FinishEvent
<1>4. Arrived(job') = Arrived(job)
  <2>1. ASSUME NEW e \in Events
        PROVE  job'[e].state # "expected" <=> job[e].state # "expected"
    <3>1. CASE last /\ e \in done[w] \cup {event[w]}
      <4>1. job'[e].state = "completed"
        BY <1>3, <3>1 DEF TypeOK
      <4> QED
        BY <1>1, <3>1, <4>1 DEF Arrived
    <3>2. CASE ~(last /\ e \in done[w] \cup {event[w]})
      BY <1>3, <3>2
    <3> QED
      BY <3>1, <3>2
  <2> QED
    BY <2>1 DEF Arrived
<1>5. pc'[w] \notin Handling /\ event'[w] = None
  BY <1>3 DEF Forget, TypeOK, Handling
<1>6. /\ todo' = todo
      /\ \E batch \in {{}, done[w] \cup {event[w]}} : done' = [done EXCEPT ![w] = batch]
  BY DEF FinishEvent
<1>7. /\ todo'[w] \cup done'[w] \subseteq Arrived(job)
      /\ \A v \in Workers \ {w} : todo'[v] = todo[v] /\ done'[v] = done[v]
  BY <1>1, <1>6 DEF TypeOK
<1> QED
  BY <1>2, <1>4, <1>5, <1>7 DEF Moves, WorkerSound, Batch

(* A job given back to the queue has arrived.                              *)
LEMMA RetriedArrived ==
  ASSUME NEW j \in [state : JobStates, retries : Nat], NEW e
  PROVE  Retried(j, e).state # "expected"
BY DEF Retried

(* A worker that loses its batch, in either way.                           *)
LEMMA LosesMoves ==
  ASSUME TypeOK, NEW w \in Workers, WorkerSound(w), FailBatch(w) \/ Crash(w)
  PROVE  Moves(w)
<1>1. /\ Forget(w, "idle")
      /\ done' = [done EXCEPT ![w] = {}]
      /\ todo' = [todo EXCEPT ![w] = {}]
  BY DEF FailBatch, Crash
<1>2. ASSUME NEW e \in Events
      PROVE  /\ job'[e] \in [state : JobStates, retries : Nat]
             /\ e \notin Batch(w) => job'[e] = job[e]
             /\ e \in Batch(w) => job'[e].state # "expected"
  <2>1. /\ job[e] \in [state : JobStates, retries : Nat]
        /\ Retried(job[e], e) \in [state : JobStates, retries : Nat]
        /\ Retried(job[e], e).state # "expected"
    BY RetriedTyped, RetriedArrived DEF TypeOK
  <2>2. job'[e] = IF e \notin Batch(w) THEN job[e]
                  ELSE IF Crash(w) /\ e.type = "SNAPSHOT"
                       THEN [job[e] EXCEPT !.state = "failed"] ELSE Retried(job[e], e)
    <3>1. CASE FailBatch(w) /\ ~Crash(w)
      BY <3>1 DEF FailBatch, Batch
    <3>2. CASE Crash(w)
      BY <3>2 DEF Crash, Batch
    <3> QED
      BY <3>1, <3>2
  <2>3. /\ [job[e] EXCEPT !.state = "failed"] \in [state : JobStates, retries : Nat]
        /\ [job[e] EXCEPT !.state = "failed"].state = "failed"
    BY <2>1 DEF JobStates
  <2> QED
    BY <2>1, <2>2, <2>3
<1>3. DOMAIN job' = Events /\ job' = [e \in Events |-> job'[e]]
  BY DEF FailBatch, Crash
<1>4. job' \in [Events -> [state : JobStates, retries : Nat]]
  BY <1>2, <1>3
<1>5. Arrived(job') = Arrived(job)
  BY <1>2 DEF Arrived, WorkerSound
<1>6. /\ pc' \in [Workers -> {"idle", "load", "handle", "count", "save", "send"}]
      /\ read' \in [Workers -> AccountDoc \cup {None}]
      /\ event' \in [Workers -> Events \cup {None}]
      /\ days' \in [Workers -> Nat]
      /\ toSend' \in [Workers -> Commands \cup {None}]
      /\ todo' \in [Workers -> SUBSET Events]
      /\ done' \in [Workers -> SUBSET Events]
  BY <1>1 DEF Forget, TypeOK
<1>7. OthersUnchanged(w)
      /\ \A v \in Workers \ {w} : todo'[v] = todo[v] /\ done'[v] = done[v]
  BY <1>1 DEF Forget, OthersUnchanged, TypeOK
<1>8. WorkerSound(w)'
  BY <1>1 DEF Forget, WorkerSound, Batch, Handling, TypeOK
<1> QED
  BY <1>4, <1>5, <1>6, <1>7, <1>8 DEF Moves, WorkersTyped

(* A conditional save keeps what documents say of the platform, from       *)
(* whatever stale copy: a record of it is the account's, the copy's or the *)
(* event's.                                                                *)
LEMMA CommitSound ==
  ASSUME NEW w \in Workers, NEW next, Commit(w, next), event[w] \in Events,
         DocSound(account, trader), DocSound(read[w], trader), EventSound(event[w], trader),
         RecordsAfter(read[w], next, event[w])
  PROVE  DocSound(account', trader)
<1>1. /\ account \in AccountDoc /\ read[w] \in AccountDoc /\ next \in AccountDoc
      /\ event[w].id \in EventIds
  BY EventsAssumption DEF DocSound, RecordsAfter, EventDoc
<1>2. PICK marked : marked = [next EXCEPT !.lastProcessedEventId = event[w].id]
  OBVIOUS
<1>3. marked \in AccountDoc /\ RecordsAfter(read[w], marked, event[w])
  BY <1>1, <1>2 DEF AccountDoc, RecordsAfter
<1>4. PICK new : new = WriteModified(account, read[w], marked)
  OBVIOUS
<1>5. /\ new \in AccountDoc
      /\ new.currentPhase \in {account.currentPhase, read[w].currentPhase}
      /\ \A p \in PlatformIds :
           new.platformStatus[p] \in {account.platformStatus[p], marked.platformStatus[p]}
  BY <1>1, <1>3, <1>4, WrittenIs DEF RecordsAfter
<1>6. account' = [new EXCEPT !.version = account.version + 1]
  BY <1>2, <1>4 DEF Commit
<1>7. account' \in AccountDoc /\ SameRecords(new, account')
  BY <1>1, <1>5, <1>6 DEF AccountDoc, SameRecords
<1>8. ASSUME NEW p \in PlatformIds, new.platformStatus[p] = "COMPLETED" PROVE ShutAt(trader, p)
  <2>1. \/ account.platformStatus[p] = "COMPLETED"
        \/ read[w].platformStatus[p] = "COMPLETED"
        \/ event[w].type = "CONTROL" /\ p = event[w].platformAccountId
           /\ event[w].status = "COMPLETED"
    BY <1>3, <1>5, <1>8 DEF RecordsAfter
  <2> QED
    BY <2>1 DEF DocSound, EventSound
<1> QED
  BY <1>5, <1>7, <1>8 DEF DocSound, SameRecords

(* What a step of worker w does to the account as well.                    *)
LEMMA SaveMoves ==
  ASSUME LifecycleInv, NEW w \in Workers, pc[w] \in {"handle", "save"},
         NEW next, RecordsAfter(read[w], next, event[w]),
         NEW outgoing \in Commands \cup {None}, SaveConditional(w, next, outgoing),
         UNCHANGED trader
  PROVE  Moves(w) /\ DocSound(account', trader)
<1>1. /\ TypeOK /\ WorkerSound(w) /\ pc[w] \in Handling /\ DocSound(account, trader)
      /\ event[w] \in Events /\ EventSound(event[w], trader) /\ DocSound(read[w], trader)
      /\ event[w] \in Arrived(job)
  BY DEF LifecycleInv, LifecycleTypeOK, WorkerSound, Arrived, Handling
<1>2. CASE GuardHolds(w) /\ Commit(w, next)
  <2>1. DocSound(account', trader)
    BY <1>1, <1>2, CommitSound
  <2>2. CASE outgoing = None /\ FinishEvent(w)
    BY <1>1, <2>1, <2>2, FinishMoves
  <2>3. CASE /\ outgoing # None
             /\ pc' = [pc EXCEPT ![w] = "send"]
             /\ toSend' = [toSend EXCEPT ![w] = outgoing]
             /\ UNCHANGED <<job, todo, done, read, event, days>>
    <3>1. WorkersTyped' /\ OthersUnchanged(w)
      BY <1>1, <2>3 DEF TypeOK, WorkersTyped, OthersUnchanged
    <3>2. pc'[w] = "send" /\ toSend'[w] = outgoing
      BY <1>1, <2>3 DEF TypeOK
    <3> QED
      BY <1>1, <2>1, <2>3, <3>1, <3>2 DEF Moves, WorkerSound, Batch
  <2> QED
    BY <1>2, <2>2, <2>3 DEF SaveConditional, GuardHolds
<1>3. CASE FailBatch(w) /\ UNCHANGED account
  BY <1>1, <1>3, LosesMoves
<1> QED
  BY <1>2, <1>3 DEF SaveConditional

LEMMA WorkerStepMoves ==
  ASSUME LifecycleInv, NEW w \in Workers,
         TakeBatch(w) \/ WorkerStep(w) \/ SendFails(w) \/ Crash(w), UNCHANGED trader
  PROVE  Moves(w) /\ DocSound(account', trader)
<1>0. /\ TypeOK /\ WorkerSound(w) /\ DocSound(account, trader)
  BY DEF LifecycleInv, LifecycleTypeOK
<1>1. pc[w] \in Handling =>
        /\ event[w] \in Events /\ event[w] \in EventDoc /\ event[w] \in Arrived(job)
        /\ read[w] \in AccountDoc /\ DocSound(read[w], trader)
  BY <1>0, EventsAssumption DEF WorkerSound, Arrived, DocSound
<1>2. CASE TakeBatch(w)
  <2>1. PICK B \in Batches :
          /\ job' = [e \in Events |-> IF e \in B THEN [job[e] EXCEPT !.state = "active"] ELSE job[e]]
          /\ todo' = [todo EXCEPT ![w] = B]
    BY <1>2 DEF TakeBatch
  <2>2. B \subseteq Events /\ B \subseteq Arrived(job)
    BY DEF Batches, Arrived
  <2>3. job' \in [Events -> [state : JobStates, retries : Nat]]
    BY <1>0, <2>1 DEF TypeOK, JobStates
  <2>4. /\ pc[w] = "idle" /\ pc' = [pc EXCEPT ![w] = "load"]
        /\ UNCHANGED <<account, done, read, event, days, toSend>>
    BY <1>2 DEF TakeBatch
  <2>5. /\ WorkersTyped' /\ OthersUnchanged(w) /\ pc'[w] = "load" /\ todo'[w] = B
        /\ \A v \in Workers \ {w} : todo'[v] = todo[v] /\ done'[v] = done[v]
    BY <1>0, <2>1, <2>2, <2>3, <2>4 DEF WorkersTyped, TypeOK, OthersUnchanged
  <2>6. Arrived(job') = Arrived(job)
    <3>1. ASSUME NEW e \in Events
          PROVE  job'[e].state # "expected" <=> job[e].state # "expected"
      <4>1. CASE e \in B
        BY <1>0, <2>1, <2>2, <4>1 DEF Arrived, TypeOK
      <4>2. CASE e \notin B
        BY <2>1, <4>2
      <4> QED
        BY <4>1, <4>2
    <3> QED
      BY <3>1 DEF Arrived
  <2>7. WorkerSound(w)'
    BY <1>0, <2>2, <2>4, <2>5, <2>6 DEF WorkerSound, Batch, Handling
  <2> QED
    BY <1>0, <2>4, <2>5, <2>6, <2>7 DEF Moves
<1>3. CASE Load(w)
  <2>1. PICK e \in todo[w] : /\ event' = [event EXCEPT ![w] = e]
                             /\ todo' = [todo EXCEPT ![w] = todo[w] \ {e}]
    BY <1>3 DEF Load
  <2>2. /\ read' = [read EXCEPT ![w] = account]
        /\ pc' = [pc EXCEPT ![w] = "handle"]
        /\ UNCHANGED <<account, job, done, days, toSend>>
    BY <1>3 DEF Load
  <2>3. e \in Events /\ e \in Arrived(job) /\ account \in AccountDoc
    BY <1>0 DEF TypeOK, WorkerSound, Batch
  <2>4. WorkersTyped' /\ OthersUnchanged(w)
        /\ \A v \in Workers \ {w} : todo'[v] = todo[v] /\ done'[v] = done[v]
    BY <1>0, <2>1, <2>2, <2>3 DEF WorkersTyped, TypeOK, OthersUnchanged
  <2>5. /\ pc'[w] = "handle" /\ event'[w] = e /\ read'[w] = account
        /\ todo'[w] \subseteq todo[w] /\ done'[w] = done[w]
    BY <1>0, <2>1, <2>2 DEF TypeOK
  <2>6. WorkerSound(w)'
    BY <1>0, <2>2, <2>3, <2>5 DEF WorkerSound, Batch
  <2> QED
    BY <1>0, <2>2, <2>4, <2>6 DEF Moves
<1>4. CASE HandleDuplicate(w)
  <2>1. pc[w] = "handle" /\ pc[w] \in Handling /\ account' = account
    BY <1>4 DEF HandleDuplicate, Handling
  <2>2. CASE FinishEvent(w)
    BY <1>0, <2>1, <2>2, FinishMoves
  <2>3. CASE /\ read[w].commandPending # None
             /\ pc' = [pc EXCEPT ![w] = "send"]
             /\ toSend' = [toSend EXCEPT ![w] = read[w].commandPending]
             /\ UNCHANGED <<job, todo, done, read, event, days>>
    <3>1. read[w].commandPending \in Commands
      BY <1>1, <2>1, <2>3 DEF AccountDoc
    <3>2. WorkersTyped' /\ OthersUnchanged(w) /\ pc'[w] = "send"
          /\ toSend'[w] = read[w].commandPending
      BY <1>0, <2>3, <3>1 DEF WorkersTyped, TypeOK, OthersUnchanged
    <3>3. WorkerSound(w)'
      BY <1>0, <2>1, <2>3, <3>1, <3>2 DEF WorkerSound, Batch
    <3> QED
      BY <1>0, <2>1, <2>3, <3>2, <3>3 DEF Moves
  <2> QED
    BY <1>4, <2>2, <2>3 DEF HandleDuplicate
<1>5. CASE HandleIgnored(w) \/ HandleControl(w) \/ HandleDeal(w) \/ HandleSnapshot(w)
  <2>1. pc[w] \in {"handle", "save"} /\ pc[w] \in Handling /\ days[w] \in Nat
    BY <1>0, <1>5 DEF HandleIgnored, HandleControl, HandleDeal, HandleSnapshot, Applies,
       Handling, TypeOK
  <2>2. ASSUME NEW next, SameRecords(read[w], next) PROVE RecordsAfter(read[w], next, event[w])
    BY <2>2 DEF SameRecords, RecordsAfter
  <2>3. CASE HandleIgnored(w)
    <3>1. SameRecords(read[w], read[w])
      BY <1>1, <2>1 DEF SameRecords
    <3> QED
      BY <2>1, <2>2, <2>3, <3>1, SaveMoves DEF HandleIgnored
  <2>4. CASE HandleControl(w)
    BY <1>1, <2>1, <2>4, ControlRecords, SaveMoves DEF HandleControl, Applies
  <2>5. CASE HandleDeal(w)
    BY <1>1, <2>1, <2>2, <2>5, DealRecords, SaveMoves DEF HandleDeal
  <2>6. CASE HandleSnapshot(w)
    BY <1>1, <2>1, <2>2, <2>6, SnapshotRecords, SaveMoves DEF HandleSnapshot
  <2> QED
    BY <1>5, <2>3, <2>4, <2>5, <2>6
<1>6. CASE RecordTradingDay(w)
  <2>1. /\ pc[w] = "handle" /\ pc' = [pc EXCEPT ![w] = "count"]
        /\ UNCHANGED <<account, job, todo, done, read, event, days, toSend>>
    BY <1>6 DEF RecordTradingDay, Applies
  <2>2. WorkersTyped' /\ OthersUnchanged(w) /\ pc'[w] = "count"
    BY <1>0, <2>1 DEF WorkersTyped, TypeOK, OthersUnchanged
  <2>3. WorkerSound(w)'
    BY <1>0, <2>1, <2>2 DEF WorkerSound, Batch, Handling
  <2> QED
    BY <1>0, <2>1, <2>2, <2>3 DEF Moves
<1>7. CASE CountTradingDays(w)
  <2>1. /\ pc[w] = "count" /\ pc' = [pc EXCEPT ![w] = "save"]
        /\ UNCHANGED <<account, job, todo, done, read, event, toSend>>
    BY <1>7 DEF CountTradingDays
  <2>2. PICK rows : rows = RowsFor(read[w].currentPhase, event[w].platformAccountId)
    OBVIOUS
  <2>3. IsFiniteSet(rows)
    BY <2>2, FS_Subset DEF LifecycleInv, RowsFor
  <2>4. Cardinality(rows) \in Nat
    BY <2>3, FS_CardinalityType
  <2>5. days' = [days EXCEPT ![w] = Cardinality(rows)]
    BY <1>7, <2>2 DEF CountTradingDays
  <2>6. WorkersTyped' /\ OthersUnchanged(w) /\ pc'[w] = "save"
    BY <1>0, <2>1, <2>4, <2>5 DEF WorkersTyped, TypeOK, OthersUnchanged
  <2>7. WorkerSound(w)'
    BY <1>0, <2>1, <2>6 DEF WorkerSound, Batch, Handling
  <2> QED
    BY <1>0, <2>1, <2>6, <2>7 DEF Moves
<1>8. CASE SendCommand(w)
  BY <1>0, <1>8, FinishMoves DEF SendCommand, Handling
<1>9. CASE SendFails(w) \/ Crash(w)
  BY <1>0, <1>9, LosesMoves DEF SendFails, Crash
<1> QED
  BY <1>2, <1>3, <1>4, <1>5, <1>6, <1>7, <1>8, <1>9 DEF WorkerStep

LEMMA EngineStepInductive ==
  ASSUME LifecycleInv, EngineStep
  PROVE  LifecycleInv'
<1>0. /\ LifecycleTypeOK /\ TypeOK /\ IsFiniteSet(dayRows) /\ DocSound(account, trader)
      /\ UNCHANGED <<trader, cpc, command, copy, base>>
  BY DEF LifecycleInv, LifecycleTypeOK, EngineStep, commandVars
<1>1. ASSUME NEW w \in Workers, TakeBatch(w) \/ WorkerStep(w) \/ SendFails(w) \/ Crash(w)
      PROVE  LifecycleInv'
  <2>1. Moves(w) /\ DocSound(account', trader)
    BY <1>0, <1>1, WorkerStepMoves
  <2>2. Carries(w)
    BY DEF LifecycleInv, WorkerSound, Carries, Arrived, DocSound
  <2>3. QueuesTyped'
    BY <1>0, <1>1, <2>2, WorkerQueuesTyped
  <2>4. LifecycleTypeOK'
    BY <1>0, <2>1, <2>3
       DEF LifecycleTypeOK, TypeOK, QueuesTyped, Moves, WorkersTyped, DocSound
  <2>5. ASSUME NEW v \in Workers PROVE WorkerSound(v)'
    <3>1. CASE v = w
      BY <2>1, <3>1 DEF Moves
    <3>2. CASE v # w
      <4>1. /\ pc'[v] = pc[v] /\ read'[v] = read[v] /\ event'[v] = event[v] /\ toSend'[v] = toSend[v]
            /\ todo'[v] = todo[v] /\ done'[v] = done[v] /\ Arrived(job') = Arrived(job)
        BY <2>1, <3>2 DEF Moves, OthersUnchanged
      <4>2. WorkerSound(v)
        BY DEF LifecycleInv
      <4> QED
        BY <1>0, <4>1, <4>2 DEF WorkerSound, Batch
    <3> QED
      BY <3>1, <3>2
  <2>6. \A e \in Arrived(job') : EventSound(e, trader)
    BY <2>1 DEF LifecycleInv, Moves
  <2>7. \A c \in CommandWorkers : CommandSound(cpc[c], command[c], copy[c], base[c], trader)
        /\ TraderSound(trader)
    BY DEF LifecycleInv
  <2> QED
    BY <1>0, <2>1, <2>3, <2>4, <2>5, <2>6, <2>7 DEF LifecycleInv, QueuesTyped
<1>2. CASE Sweep
  <2>1. UNCHANGED <<account, dayRows, job, pc, todo, done, read, event, days, toSend>>
    BY <1>2 DEF Sweep, SweepFinds, SweepSends, workerVars
  <2>2. /\ commandQueue' \in [Commands -> 0..MaxQueued]
        /\ sweep' \in Commands \cup {None}
        /\ faults' \in 0..MaxFaults
    <3>1. CASE SweepFinds
      BY <1>0, <3>1 DEF SweepFinds, TypeOK
    <3>2. CASE SweepSends
      <4>1. sweep \in Commands
        BY <1>0, <3>2 DEF SweepSends, TypeOK
      <4> QED
        BY <1>0, <3>2, <4>1, EnqueueTyped, EngineBoundsAssumption DEF SweepSends, TypeOK
    <3> QED
      BY <1>2, <3>1, <3>2 DEF Sweep
  <2>3. LifecycleTypeOK'
    BY <1>0, <2>1, <2>2 DEF LifecycleTypeOK, TypeOK
  <2> QED
    BY <1>0, <2>1, <2>3 DEF LifecycleInv, WorkerSound, Batch
<1> QED
  BY <1>1, <1>2 DEF EngineStep

-----------------------------------------------------------------------------
(* The platform's own steps.                                               *)

(* What a step has to show that leaves the engine's workers alone.         *)
EngineLeft ==
  /\ UNCHANGED <<dayRows, sweep, pc, todo, done, read, event, days, toSend>>
  /\ commandQueue' \in [Commands -> 0..MaxQueued]
  /\ faults' \in 0..MaxFaults

LEMMA PlatformStepInductive ==
  ASSUME LifecycleInv, UNCHANGED <<account, commandVars>>, EngineLeft, Follows(trader, trader'),
         job' \in [Events -> [state : JobStates, retries : Nat]],
         Arrived(job) \subseteq Arrived(job'),
         \A e \in Arrived(job') \ Arrived(job) : EventSound(e, trader')
  PROVE  LifecycleInv'
<1>1. /\ LifecycleTypeOK /\ TypeOK /\ IsFiniteSet(dayRows) /\ DocSound(account, trader)
      /\ UNCHANGED <<account, cpc, command, copy, base>>
  BY DEF LifecycleInv, LifecycleTypeOK, commandVars
<1>2. LifecycleTypeOK' /\ TraderSound(trader')
  BY <1>1 DEF LifecycleTypeOK, TypeOK, EngineLeft, Follows, TraderSound
<1>3. DocSound(account', trader')
  BY <1>1, SoundOutlives
<1>4. \A e \in Arrived(job') : EventSound(e, trader')
  BY SoundOutlives DEF LifecycleInv, Arrived
<1>5. ASSUME NEW w \in Workers PROVE WorkerSound(w)'
  <2>1. WorkerSound(w) /\ Arrived(job) \subseteq Arrived(job')
    BY DEF LifecycleInv
  <2>2. /\ pc'[w] = pc[w] /\ read'[w] = read[w] /\ event'[w] = event[w] /\ toSend'[w] = toSend[w]
        /\ todo'[w] = todo[w] /\ done'[w] = done[w]
    BY DEF EngineLeft
  <2>3. DocSound(read[w], trader) => DocSound(read[w], trader')
    BY SoundOutlives
  <2> QED
    BY <2>1, <2>2, <2>3 DEF WorkerSound, Batch
<1>6. ASSUME NEW c \in CommandWorkers
      PROVE  CommandSound(cpc'[c], command'[c], copy'[c], base'[c], trader')
  <2>1. CommandSound(cpc[c], command[c], copy[c], base[c], trader)
    BY DEF LifecycleInv
  <2> QED
    BY <1>1, <2>1, SoundOutlives
<1> QED
  BY <1>1, <1>2, <1>3, <1>4, <1>5, <1>6 DEF LifecycleInv, EngineLeft

LEMMA TraderMovesStep ==
  ASSUME LifecycleInv, NEW p \in PlatformIds, TraderMoves(p)
  PROVE  LifecycleInv'
<1>1. /\ trader[p] \in TraderAccount /\ trader[p].status = "ACTIVE" /\ TraderSound(trader)
      /\ TypeOK
  BY DEF LifecycleInv, LifecycleTypeOK, TraderSound, TraderMoves, Tradable
<1>2. PICK l \in TradedLevels : trader' = [trader EXCEPT ![p].level = l]
  BY DEF TraderMoves
<1>3. PICK new : new = [trader[p] EXCEPT !.level = l]
  OBVIOUS
<1>4. new \in TraderAccount /\ trader' = [trader EXCEPT ![p] = new]
  BY <1>1, <1>2, <1>3, TradedLevelsAssumption DEF TraderAccount
<1>5. Follows(trader, trader')
  BY <1>1, <1>4, OneFollows, PhasesAre DEF ShutAt, Opening, PhaseFacts, PlatformStatus
<1>6. UNCHANGED <<account, commandVars>> /\ EngineLeft /\ job' = job
  BY <1>1 DEF TraderMoves, engineVars, workerVars, EngineLeft, TypeOK
<1> QED
  BY <1>1, <1>5, <1>6, PlatformStepInductive DEF TypeOK

(* The platform's own breach shuts the account that its control event      *)
(* reports.                                                                *)
LEMMA EventArrivesStep ==
  ASSUME LifecycleInv, NEW e \in Events, EventArrives(e)
  PROVE  LifecycleInv'
<1> DEFINE p == e.platformAccountId
<1>1. /\ e \in EventDoc /\ p \in PlatformIds /\ TypeOK /\ TraderSound(trader)
      /\ trader[p] \in TraderAccount /\ trader[p].status = "ACTIVE"
  BY EventsAssumption DEF EventDoc, LifecycleInv, LifecycleTypeOK, TraderSound, EventArrives, Tradable
<1>2. /\ UNCHANGED <<account, commandVars>> /\ EngineLeft
      /\ job' = [job EXCEPT ![e].state = "queued"]
  BY <1>1 DEF EventArrives, Arrive, workerVars, EngineLeft, TypeOK
<1>3. job' \in [Events -> [state : JobStates, retries : Nat]]
  BY <1>1, <1>2 DEF TypeOK, JobStates
<1>4. Arrived(job') = Arrived(job) \cup {e}
  BY <1>1, <1>2 DEF Arrived, TypeOK
<1>5. CASE e.type = "CONTROL"
  <2>1. PICK new : new = [status |-> e.status, level |-> e.level]
    OBVIOUS
  <2>2. new \in TraderAccount /\ new.status = e.status
    BY <1>1, <2>1 DEF EventDoc, TraderAccount
  <2>3. trader' = [trader EXCEPT ![p] = new]
    BY <1>5, <2>1 DEF EventArrives
  <2>4. trader'[p] = new
    BY <1>1, <2>3 DEF TraderSound
  <2> HIDE DEF p
  <2>5. trader[p].status # None /\ ~ShutAt(trader, p)
    BY <1>1, PhasesAre DEF ShutAt, Opening, PhaseFacts, PlatformStatus
  <2>6. Follows(trader, trader')
    BY <1>1, <2>2, <2>3, <2>5, OneFollows
  <2>7. EventSound(e, trader')
    BY <1>1, <2>2, <2>4, PhasesAre DEF EventSound, ShutAt, Opening, PhaseFacts, PlatformStatus, p
  <2> QED
    BY <1>2, <1>3, <1>4, <2>6, <2>7, PlatformStepInductive
<1>6. CASE e.type # "CONTROL"
  <2>1. trader' = trader /\ EventSound(e, trader')
    BY <1>6 DEF EventArrives, EventSound
  <2>2. Follows(trader, trader')
    BY <1>1, <2>1, SameFollows
  <2> QED
    BY <1>2, <1>3, <1>4, <2>1, <2>2, PlatformStepInductive
<1> QED
  BY <1>5, <1>6

-----------------------------------------------------------------------------
(* The command workers.                                                    *)

(* What a step of command worker c has to show: where it goes on, with     *)
(* which command, copy and base.                                           *)
Proceeds(c, s, k, modified, loaded) ==
  /\ cpc' = [cpc EXCEPT ![c] = s] /\ s \in CommandStates
  /\ command' = [command EXCEPT ![c] = k] /\ k \in Commands \cup {None}
  /\ copy' = [copy EXCEPT ![c] = modified] /\ modified \in AccountDoc \cup {None}
  /\ base' = [base EXCEPT ![c] = loaded] /\ loaded \in AccountDoc \cup {None}
  /\ CommandSound(s, k, modified, loaded, trader')

LEMMA CommandStepInductive ==
  ASSUME LifecycleInv, NEW c \in CommandWorkers, NEW s, NEW k, NEW modified, NEW loaded,
         Proceeds(c, s, k, modified, loaded), EngineLeft, job' = job,
         Follows(trader, trader'), DocSound(account', trader')
  PROVE  LifecycleInv'
<1>1. /\ LifecycleTypeOK /\ TypeOK /\ IsFiniteSet(dayRows)
  BY DEF LifecycleInv, LifecycleTypeOK
<1>2. LifecycleTypeOK' /\ TraderSound(trader')
  BY <1>1 DEF LifecycleTypeOK, TypeOK, EngineLeft, Follows, TraderSound, Proceeds, DocSound
<1>3. \A e \in Arrived(job') : EventSound(e, trader')
  BY SoundOutlives DEF LifecycleInv, Arrived
<1>4. ASSUME NEW w \in Workers PROVE WorkerSound(w)'
  <2>1. WorkerSound(w)
    BY DEF LifecycleInv
  <2>2. DocSound(read[w], trader) => DocSound(read[w], trader')
    BY SoundOutlives
  <2> QED
    BY <2>1, <2>2 DEF WorkerSound, Batch, EngineLeft
<1>5. ASSUME NEW d \in CommandWorkers
      PROVE  CommandSound(cpc'[d], command'[d], copy'[d], base'[d], trader')
  <2>1. CASE d = c
    BY <1>1, <2>1 DEF Proceeds, LifecycleTypeOK
  <2>2. CASE d # c
    <3>1. CommandSound(cpc[d], command[d], copy[d], base[d], trader)
      BY DEF LifecycleInv
    <3>2. /\ cpc'[d] = cpc[d] /\ command'[d] = command[d] /\ copy'[d] = copy[d]
          /\ base'[d] = base[d]
      BY <1>1, <2>2 DEF Proceeds, LifecycleTypeOK
    <3> QED
      BY <3>1, <3>2, SoundOutlives
  <2> QED
    BY <2>1, <2>2
<1> QED
  BY <1>1, <1>2, <1>3, <1>4, <1>5 DEF LifecycleInv, EngineLeft

(* What is known of command worker c.                                      *)
LEMMA CommandFacts ==
  ASSUME LifecycleInv, NEW c \in CommandWorkers
  PROVE  /\ LifecycleTypeOK /\ TypeOK /\ TraderSound(trader) /\ Follows(trader, trader)
         /\ DocSound(account, trader) /\ account \in AccountDoc
         /\ CommandSound(cpc[c], command[c], copy[c], base[c], trader)
         /\ command[c] \in Commands \cup {None} /\ (cpc[c] # "idle" => command[c] \in Commands)
         /\ copy[c] \in AccountDoc \cup {None} /\ base[c] \in AccountDoc \cup {None}
         /\ cpc' = cpc => cpc' = [cpc EXCEPT ![c] = cpc[c]]
         /\ command' = command => command' = [command EXCEPT ![c] = command[c]]
         /\ copy' = copy => copy' = [copy EXCEPT ![c] = copy[c]]
         /\ base' = base => base' = [base EXCEPT ![c] = base[c]]
         /\ cpc[c] \notin {"idle", "start"} =>
              /\ DocSound(copy[c], trader) /\ copy[c] \in AccountDoc
              /\ DocSound(base[c], trader) /\ base[c] \in AccountDoc
              /\ Record(c) \in PlatformIds
<1>1. LifecycleTypeOK /\ TraderSound(trader) /\ DocSound(account, trader)
      /\ CommandSound(cpc[c], command[c], copy[c], base[c], trader)
  BY DEF LifecycleInv
<1>2. copy[c] \in AccountDoc => FinalizedPhase(command[c], copy[c]) \in {1, 2}
  BY DEF FinalizedPhase, AccountDoc
<1> QED
  BY <1>1, <1>2, SameFollows, PhasesAre
     DEF LifecycleTypeOK, TypeOK, DocSound, CommandSound, Record, PhaseFacts

LEMMA EngineIsLeft ==
  ASSUME LifecycleInv, UNCHANGED <<dayRows, job, sweep, workerVars>>,
         commandQueue' = commandQueue \/ commandQueue' \in [Commands -> 0..MaxQueued],
         faults' = faults \/ faults' \in 0..MaxFaults
  PROVE  EngineLeft /\ job' = job
BY DEF LifecycleInv, LifecycleTypeOK, TypeOK, EngineLeft, workerVars

LEMMA SameRecordsSound ==
  ASSUME NEW t, NEW doc, DocSound(doc, t), NEW new, SameRecords(doc, new)
  PROVE  DocSound(new, t)
BY DEF DocSound, SameRecords

(* One record of a document changes.                                       *)
RecordSet(doc, new, p, status) ==
  /\ new \in AccountDoc
  /\ new.platformStatus = [doc.platformStatus EXCEPT ![p] = status]
  /\ new.currentPhase = doc.currentPhase

LEMMA RecordSetSound ==
  ASSUME NEW t, NEW doc, DocSound(doc, t), NEW p, NEW status, NEW new,
         RecordSet(doc, new, p, status), status = "COMPLETED" => ShutAt(t, p)
  PROVE  DocSound(new, t)
<1>1. doc.platformStatus \in [PlatformIds -> PlatformStatus \cup {None}]
  BY DEF DocSound, AccountDoc
<1> QED
  BY <1>1 DEF DocSound, RecordSet

(* A save from a copy.                                                     *)
LEMMA SavedSound ==
  ASSUME NEW t, NEW current, NEW loaded, NEW modified,
         DocSound(current, t), DocSound(loaded, t), DocSound(modified, t)
  PROVE  DocSound(WriteModified(current, loaded, modified), t)
<1>1. current \in AccountDoc /\ loaded \in AccountDoc /\ modified \in AccountDoc
  BY DEF DocSound
<1>2. PICK new : new = WriteModified(current, loaded, modified)
  OBVIOUS
<1>3. /\ new \in AccountDoc
      /\ new.currentPhase \in {current.currentPhase, modified.currentPhase}
      /\ \A p \in PlatformIds :
           new.platformStatus[p] \in {current.platformStatus[p], modified.platformStatus[p]}
  BY <1>1, <1>2, WrittenIs
<1>4. DocSound(new, t)
  BY <1>3 DEF DocSound
<1> QED
  BY <1>2, <1>4

(* The job ends, and is in the queue again or not.                         *)
LEMMA FailJobStep ==
  ASSUME LifecycleInv, NEW c \in CommandWorkers, ~At(c, "idle"), FailJob(c),
         UNCHANGED <<dayRows, job, sweep, workerVars>>,
         faults' = faults \/ faults' \in 0..MaxFaults,
         Follows(trader, trader'), DocSound(account', trader')
  PROVE  LifecycleInv'
<1>1. command[c] \in Commands /\ TypeOK
  BY CommandFacts DEF At
<1>2. commandQueue' = commandQueue \/ commandQueue' \in [Commands -> 0..MaxQueued]
  BY <1>1, EnqueueTyped DEF FailJob
<1>3. EngineLeft /\ job' = job
  BY <1>2, EngineIsLeft
<1>4. Proceeds(c, "idle", None, None, None)
  BY DEF FailJob, EndJob, Proceeds, CommandSound, CommandStates
<1> QED
  BY <1>3, <1>4, CommandStepInductive

LEMMA TakeCommandStep ==
  ASSUME LifecycleInv, NEW c \in CommandWorkers, TakeCommand(c)
  PROVE  LifecycleInv'
<1>1. PICK k \in Commands :
        /\ commandQueue[k] > 0
        /\ commandQueue' = [commandQueue EXCEPT ![k] = @ - 1]
        /\ command' = [command EXCEPT ![c] = k]
  BY DEF TakeCommand
<1>2. /\ cpc' = [cpc EXCEPT ![c] = "start"]
      /\ UNCHANGED <<account, dayRows, job, sweep, workerVars, faults, trader, copy, base>>
  BY DEF TakeCommand, Goto
<1>3. commandQueue' \in [Commands -> 0..MaxQueued]
  <2>1. commandQueue \in [Commands -> 0..MaxQueued] /\ MaxQueued \in Nat
    BY EngineBoundsAssumption DEF LifecycleInv, LifecycleTypeOK, TypeOK
  <2>2. commandQueue[k] - 1 \in 0..MaxQueued
    BY <1>1, <2>1
  <2> QED
    BY <1>1, <2>1, <2>2
<1>4. EngineLeft /\ job' = job
  BY <1>2, <1>3, EngineIsLeft
<1>5. Proceeds(c, "start", k, copy[c], base[c])
  BY <1>1, <1>2, CommandFacts DEF Proceeds, CommandSound, CommandStates
<1> QED
  BY <1>2, <1>4, <1>5, CommandFacts, CommandStepInductive

(* Where the job goes on once it has read the account: past the shutting   *)
(* of the phase only if the account says that it is completed.             *)
LEMMA FirstStepSound ==
  ASSUME NEW t, NEW doc, DocSound(doc, t), NEW k \in Commands
  PROVE  /\ FirstStep(k, doc) \in CommandStates
         /\ CommandSound(FirstStep(k, doc), k, doc, doc, t)
<1> DEFINE p == PhaseAccount[FinalizedPhase(k, doc)]
<1>1. p \in PlatformIds
  BY PhasesAre DEF DocSound, FinalizedPhase, AccountDoc, PhaseFacts
<1>2. CASE FirstStep(k, doc) \in {"clear", "lock"}
  BY <1>2 DEF CommandSound, CommandStates
<1>3. CASE FirstStep(k, doc) = "fetch" /\ k # "LOCK_ACCOUNT"
  BY <1>3 DEF CommandSound, CommandStates
<1>4. CASE /\ FirstStep(k, doc) = Confirmed(k) /\ k # "LOCK_ACCOUNT"
           /\ doc.platformStatus[p] = "COMPLETED"
  <2>1. ShutAt(t, p)
    BY <1>1, <1>4 DEF DocSound
  <2>2. k = "CREATE_PHASE_2_ACCOUNT" => FirstPhaseOver(t)
    BY <2>1 DEF FinalizedPhase, ShutAt, FirstPhaseOver
  <2>3. \/ k = "CREATE_PHASE_2_ACCOUNT" /\ Confirmed(k) = "provision"
        \/ Confirmed(k) = "trial"
        \/ Confirmed(k) = "review"
    BY <1>4 DEF Confirmed, Commands
  <2> QED
    BY <1>4, <2>1, <2>2, <2>3 DEF CommandSound, CommandStates
<1> QED
  BY <1>2, <1>3, <1>4 DEF FirstStep

LEMMA ReadAccountStep ==
  ASSUME LifecycleInv, NEW c \in CommandWorkers, ReadAccount(c)
  PROVE  LifecycleInv'
<1>1. /\ UNCHANGED <<account, dayRows, job, commandQueue, sweep, workerVars, faults, trader, command>>
      /\ cpc' = [cpc EXCEPT ![c] = FirstStep(command[c], account)]
      /\ copy' = [copy EXCEPT ![c] = account] /\ base' = [base EXCEPT ![c] = account]
      /\ cpc[c] = "start"
  BY DEF ReadAccount, engineVars, At, Goto
<1>2. EngineLeft /\ job' = job
  BY <1>1, EngineIsLeft
<1>3. Proceeds(c, FirstStep(command[c], account), command[c], account, account)
  BY <1>1, CommandFacts, FirstStepSound DEF Proceeds
<1> QED
  BY <1>1, <1>2, <1>3, CommandFacts, CommandStepInductive

LEMMA LockRemoteStep ==
  ASSUME LifecycleInv, NEW c \in CommandWorkers, LockRemote(c)
  PROVE  LifecycleInv'
<1>1. /\ UNCHANGED <<account, dayRows, job, commandQueue, sweep, workerVars, faults, command, copy, base>>
      /\ cpc' = [cpc EXCEPT ![c] = "disableLaunch"] /\ cpc[c] = "lock"
      /\ copy[c].platformAccountId \in PlatformIds \cup {None}
  BY CommandFacts DEF LockRemote, engineVars, At, Goto, AccountDoc
<1>2. Follows(trader, trader')
  BY <1>1, CommandFacts, SetStatusFollows DEF LockRemote, PlatformStatus
<1>3. EngineLeft /\ job' = job
  BY <1>1, EngineIsLeft
<1>4. DocSound(account', trader') /\ DocSound(copy[c], trader') /\ DocSound(base[c], trader')
  BY <1>1, <1>2, CommandFacts, SoundOutlives
<1>5. Proceeds(c, "disableLaunch", command[c], copy[c], base[c])
  BY <1>1, <1>4, CommandFacts DEF Proceeds, CommandSound, CommandStates
<1> QED
  BY <1>2, <1>3, <1>4, <1>5, CommandStepInductive

LEMMA DisableLaunchStep ==
  ASSUME LifecycleInv, NEW c \in CommandWorkers, DisableLaunch(c)
  PROVE  LifecycleInv'
<1>1. /\ UNCHANGED <<dayRows, job, commandQueue, sweep, workerVars, faults, trader, command, copy, base>>
      /\ cpc' = [cpc EXCEPT ![c] = "clear"] /\ cpc[c] = "disableLaunch"
      /\ account' = [account EXCEPT !.enabled = FALSE]
  BY DEF DisableLaunch, EngineExceptAccount, At, Goto
<1>2. EngineLeft /\ job' = job
  BY <1>1, EngineIsLeft
<1>3. SameRecords(account, account')
  <2>1. account \in AccountDoc
    BY CommandFacts
  <2> QED
    BY <1>1, <2>1 DEF SameRecords, AccountDoc
<1>4. DocSound(account', trader')
  BY <1>1, <1>3, CommandFacts, SameRecordsSound
<1>5. Proceeds(c, "clear", command[c], copy[c], base[c])
  BY <1>1, CommandFacts DEF Proceeds, CommandSound, CommandStates
<1> QED
  BY <1>1, <1>2, <1>4, <1>5, CommandFacts, CommandStepInductive

-----------------------------------------------------------------------------
(* finalizeCurrentPhase.                                                   *)

LEMMA SlotReleased ==
  ASSUME NEW doc \in AccountDoc
  PROVE  SameRecords(doc, [doc EXCEPT !.activeTrialKey = FALSE])
<1>1. PICK new : new = [doc EXCEPT !.activeTrialKey = FALSE]
  OBVIOUS
<1>2. new \in AccountDoc
  BY <1>1 DEF AccountDoc
<1>3. new.platformStatus = doc.platformStatus /\ new.currentPhase = doc.currentPhase
  BY <1>1 DEF AccountDoc
<1> QED
  BY <1>1, <1>2, <1>3 DEF SameRecords

(* A copy with another status of a record, and possibly another status and *)
(* command of the account.                                                 *)
LEMMA TerminalCopyIs ==
  ASSUME NEW doc \in AccountDoc, NEW p \in PlatformIds, NEW status \in {"BREACHED", "CLOSED"}
  PROVE  RecordSet(doc, TerminalCopy(doc, p, status), p, status)
<1>1. PICK records : records = [doc.platformStatus EXCEPT ![p] = status]
  OBVIOUS
<1>2. records \in [PlatformIds -> PlatformStatus \cup {None}]
  BY <1>1 DEF AccountDoc, PlatformStatus
<1>3. PICK ended : ended = [doc EXCEPT !.platformStatus = records, !.status = status,
                                       !.enabled = FALSE, !.commandPending = None]
  OBVIOUS
<1>4. RecordSet(doc, ended, p, status)
  <2>1. status \in AccountStatus
    BY DEF AccountStatus
  <2>2. ended \in AccountDoc
    BY <1>2, <1>3, <2>1 DEF AccountDoc
  <2>3. ended.platformStatus = records /\ ended.currentPhase = doc.currentPhase
    BY <1>3 DEF AccountDoc
  <2> QED
    BY <1>1, <2>2, <2>3 DEF RecordSet
<1>5. SameRecords(ended, EndTrial(ended, "BREACHED"))
  BY <1>4, EndTrialRecords DEF RecordSet, TrialResults
<1>6. SameRecords(ended, [ended EXCEPT !.activeTrialKey = FALSE])
  BY <1>4, SlotReleased DEF RecordSet
<1>7. TerminalCopy(doc, p, status) \in
        {ended, EndTrial(ended, "BREACHED"), [ended EXCEPT !.activeTrialKey = FALSE]}
  BY <1>1, <1>3 DEF TerminalCopy
<1> QED
  BY <1>4, <1>5, <1>6, <1>7 DEF RecordSet, SameRecords

LEMMA ValuedIs ==
  ASSUME NEW doc \in AccountDoc, NEW level \in Levels
  PROVE  SameRecords(doc, [doc EXCEPT !.valuation.level = level])
<1>1. PICK v : v = [doc.valuation EXCEPT !.level = level]
  OBVIOUS
<1>2. v \in Valuation
  BY <1>1 DEF AccountDoc, Valuation
<1>3. [doc EXCEPT !.valuation.level = level] = [doc EXCEPT !.valuation = v]
  BY <1>1
<1> QED
  BY <1>2, <1>3 DEF SameRecords, AccountDoc

LEMMA FetchRemoteStep ==
  ASSUME LifecycleInv, NEW c \in CommandWorkers, FetchRemote(c)
  PROVE  LifecycleInv'
<1>1. PICK p, remote, valued :
        p = Record(c) /\ remote = trader[p] /\ valued = [copy[c] EXCEPT !.valuation.level = remote.level]
  OBVIOUS
<1>2. /\ cpc[c] = "fetch" /\ p \in PlatformIds /\ trader' = trader /\ TraderSound(trader)
      /\ command[c] \in Commands /\ command[c] # "LOCK_ACCOUNT"
      /\ copy[c] \in AccountDoc /\ DocSound(copy[c], trader) /\ DocSound(base[c], trader)
      /\ base[c] \in AccountDoc /\ DocSound(account, trader) /\ Follows(trader, trader)
  BY <1>1, CommandFacts DEF FetchRemote, At, CommandSound
<1>3. SameRecords(copy[c], valued)
  BY <1>1, <1>2, ValuedIs DEF TraderSound, TraderAccount
<1>4. DocSound(valued, trader) /\ valued \in AccountDoc
  BY <1>2, <1>3, SameRecordsSound DEF SameRecords
<1>5. PhaseAccount[FinalizedPhase(command[c], valued)] = p
  BY <1>1, <1>3 DEF SameRecords, FinalizedPhase, Record
<1>6. ASSUME NEW s \in {"save", "disable", "resume", "complete"}, NEW modified,
             DocSound(modified, trader), cpc' = [cpc EXCEPT ![c] = s],
             copy' = [copy EXCEPT ![c] = modified], UNCHANGED <<engineVars, command, base>>,
             s = "complete" => modified = valued /\ ShutAt(trader, p)
      PROVE  LifecycleInv'
  <2>1. EngineLeft /\ job' = job
    BY <1>6, EngineIsLeft DEF engineVars
  <2>2. CommandSound(s, command[c], modified, base[c], trader)
    BY <1>2, <1>5, <1>6 DEF CommandSound
  <2>3. /\ command' = [command EXCEPT ![c] = command[c]] /\ base' = [base EXCEPT ![c] = base[c]]
        /\ modified \in AccountDoc /\ s \in CommandStates
    BY <1>6, CommandFacts DEF DocSound, CommandStates
  <2>4. Proceeds(c, s, command[c], modified, base[c])
    BY <1>2, <1>6, <2>2, <2>3 DEF Proceeds
  <2> QED
    BY <1>2, <1>6, <2>1, <2>4, CommandStepInductive DEF engineVars
<1>7. CASE /\ remote.status \in {"BREACHED", "CLOSED"}
           /\ copy' = [copy EXCEPT ![c] = TerminalCopy(valued, p, remote.status)]
           /\ Goto(c, "save")
           /\ UNCHANGED <<engineVars, command, base>>
  <2>1. DocSound(TerminalCopy(valued, p, remote.status), trader)
    BY <1>2, <1>4, <1>7, TerminalCopyIs, RecordSetSound
  <2> QED
    BY <1>6, <1>7, <2>1 DEF Goto
<1>8. CASE /\ copy' = [copy EXCEPT ![c] = valued]
           /\ Goto(c, IF PhaseCompletion(valued) THEN "disable" ELSE "resume")
           /\ UNCHANGED <<engineVars, command, base>>
  BY <1>4, <1>6, <1>8 DEF Goto
<1>9. CASE /\ remote.status = "DISABLED"
           /\ copy' = [copy EXCEPT ![c] = valued]
           /\ Goto(c, "complete")
           /\ UNCHANGED <<engineVars, command, base>>
  <2>1. ShutAt(trader, p)
    BY <1>1, <1>9, PhasesAre DEF ShutAt, Opening, PhaseFacts, PlatformStatus
  <2> QED
    BY <1>4, <1>6, <1>9, <2>1 DEF Goto
<1>10. CASE FailJob(c) /\ UNCHANGED <<account, dayRows, job, sweep, workerVars, faults>>
  BY <1>2, <1>10, FailJobStep DEF At
<1> QED
  BY <1>1, <1>7, <1>8, <1>9, <1>10 DEF FetchRemote

LEMMA ResumeStep ==
  ASSUME LifecycleInv, NEW c \in CommandWorkers, Resume(c)
  PROVE  LifecycleInv'
<1>1. PICK p : p = Record(c)
  OBVIOUS
<1>2. /\ cpc[c] = "resume" /\ p \in PlatformIds /\ TraderSound(trader)
      /\ command[c] \in Commands
      /\ copy[c] \in AccountDoc /\ DocSound(copy[c], trader) /\ DocSound(base[c], trader)
      /\ base[c] \in AccountDoc /\ DocSound(account, trader)
  BY <1>1, CommandFacts DEF Resume, At
<1>3. Follows(trader, trader')
  BY <1>1, <1>2, SetStatusFollows DEF Resume, PlatformStatus
<1>4. DocSound(account, trader') /\ DocSound(copy[c], trader') /\ DocSound(base[c], trader')
  BY <1>2, <1>3, SoundOutlives
<1>5. PICK records, status :
        /\ records = [copy[c].platformStatus EXCEPT ![p] = "ACTIVE"]
        /\ status = TradablePhaseStatus(copy[c], FinalizedPhase(command[c], copy[c]))
  OBVIOUS
<1>6. records \in [PlatformIds -> PlatformStatus \cup {None}] /\ status \in AccountStatus
  BY <1>2, <1>5 DEF AccountDoc, PlatformStatus, TradablePhaseStatus, AccountStatus
<1>7. PICK modified : modified = [copy[c] EXCEPT !.platformStatus = records, !.status = status,
                                                 !.enabled = TRUE, !.commandPending = None]
  OBVIOUS
<1>8. RecordSet(copy[c], modified, p, "ACTIVE") /\ modified \in AccountDoc
  BY <1>2, <1>5, <1>6, <1>7 DEF RecordSet, AccountDoc
<1>9. DocSound(modified, trader')
  BY <1>4, <1>8, RecordSetSound
<1>10. copy' = [copy EXCEPT ![c] = modified]
  BY <1>1, <1>5, <1>7 DEF Resume
<1>11. /\ UNCHANGED <<account, dayRows, job, commandQueue, sweep, workerVars, faults, command, base>>
       /\ cpc' = [cpc EXCEPT ![c] = "save"]
  BY DEF Resume, engineVars, Goto
<1>12. EngineLeft /\ job' = job
  BY <1>11, EngineIsLeft
<1>13. command' = [command EXCEPT ![c] = command[c]] /\ base' = [base EXCEPT ![c] = base[c]]
  BY <1>11, CommandFacts
<1>14. Proceeds(c, "save", command[c], modified, base[c])
  BY <1>2, <1>4, <1>8, <1>9, <1>10, <1>11, <1>13 DEF Proceeds, CommandSound, CommandStates
<1> QED
  BY <1>3, <1>4, <1>11, <1>12, <1>14, CommandStepInductive

LEMMA SaveResultStep ==
  ASSUME LifecycleInv, NEW c \in CommandWorkers, SaveResult(c)
  PROVE  LifecycleInv'
<1>1. /\ cpc[c] = "save" /\ command[c] \in Commands /\ Follows(trader, trader)
      /\ copy[c] \in AccountDoc /\ DocSound(copy[c], trader) /\ DocSound(base[c], trader)
      /\ DocSound(account, trader)
  BY CommandFacts DEF SaveResult, At
<1>2. /\ UNCHANGED <<dayRows, job, commandQueue, sweep, workerVars, faults, trader, command>>
      /\ cpc' = [cpc EXCEPT ![c] = "clear"] /\ copy' = [copy EXCEPT ![c] = copy[c]]
      /\ base' = [base EXCEPT ![c] = copy[c]]
      /\ account' = WriteModified(account, base[c], copy[c])
  BY DEF SaveResult, EngineExceptAccount, Goto, Save
<1>3. DocSound(account', trader')
  BY <1>1, <1>2, SavedSound
<1>4. EngineLeft /\ job' = job
  BY <1>2, EngineIsLeft
<1>5. command' = [command EXCEPT ![c] = command[c]]
  BY <1>2, CommandFacts
<1>6. Proceeds(c, "clear", command[c], copy[c], copy[c])
  BY <1>1, <1>2, <1>5 DEF Proceeds, CommandSound, CommandStates
<1> QED
  BY <1>1, <1>2, <1>3, <1>4, <1>6, CommandStepInductive

LEMMA DisableRemoteStep ==
  ASSUME LifecycleInv, NEW c \in CommandWorkers, DisableRemote(c)
  PROVE  LifecycleInv'
<1>1. PICK p : p = Record(c)
  OBVIOUS
<1>2. /\ cpc[c] = "disable" /\ p \in PlatformIds /\ TraderSound(trader)
      /\ command[c] \in Commands /\ command[c] # "LOCK_ACCOUNT"
      /\ copy[c] \in AccountDoc /\ DocSound(copy[c], trader) /\ DocSound(base[c], trader)
      /\ base[c] \in AccountDoc /\ DocSound(account, trader)
  BY <1>1, CommandFacts DEF DisableRemote, At, CommandSound
<1>3. Follows(trader, trader')
  BY <1>1, <1>2, SetStatusFollows DEF DisableRemote, PlatformStatus
<1>4. DocSound(account, trader') /\ DocSound(copy[c], trader') /\ DocSound(base[c], trader')
  BY <1>2, <1>3, SoundOutlives
<1>5. ShutAt(trader', p)
  <2>1. trader' = [trader EXCEPT ![p].status = "DISABLED"] /\ trader[p] \in TraderAccount
    BY <1>1, <1>2 DEF DisableRemote, SetStatus, TraderSound
  <2>2. trader'[p].status = "DISABLED"
    BY <1>2, <2>1 DEF TraderSound, TraderAccount
  <2> QED
    BY <2>2, PhasesAre DEF ShutAt, Opening, PhaseFacts, PlatformStatus
<1>6. /\ UNCHANGED <<account, dayRows, job, commandQueue, sweep, workerVars, faults, command, copy, base>>
      /\ cpc' = [cpc EXCEPT ![c] = "complete"]
  BY DEF DisableRemote, engineVars, Goto
<1>7. EngineLeft /\ job' = job
  BY <1>6, EngineIsLeft
<1>8. CommandSound("complete", command[c], copy[c], base[c], trader')
  BY <1>1, <1>2, <1>4, <1>5 DEF CommandSound, Record
<1>9. Proceeds(c, "complete", command[c], copy[c], base[c])
  BY <1>6, <1>8, CommandFacts DEF Proceeds, CommandStates
<1> QED
  BY <1>3, <1>4, <1>6, <1>7, <1>9, CommandStepInductive

(* The phase is recorded as completed after its account was shut.          *)
LEMMA CompletePhaseStep ==
  ASSUME LifecycleInv, NEW c \in CommandWorkers, CompletePhase(c)
  PROVE  LifecycleInv'
<1>1. PICK p : p = Record(c)
  OBVIOUS
<1>2. /\ cpc[c] = "complete" /\ p \in PlatformIds /\ Follows(trader, trader)
      /\ command[c] \in Commands /\ command[c] # "LOCK_ACCOUNT" /\ ShutAt(trader, p)
      /\ copy[c] \in AccountDoc /\ DocSound(copy[c], trader) /\ DocSound(base[c], trader)
      /\ base[c] \in AccountDoc /\ DocSound(account, trader)
  BY <1>1, CommandFacts DEF CompletePhase, At, CommandSound, Record
<1>3. PICK modified : modified = [copy[c] EXCEPT !.platformStatus[p] = "COMPLETED"]
  OBVIOUS
<1>4. RecordSet(copy[c], modified, p, "COMPLETED") /\ modified \in AccountDoc
  <2>1. PICK records : records = [copy[c].platformStatus EXCEPT ![p] = "COMPLETED"]
    OBVIOUS
  <2>2. records \in [PlatformIds -> PlatformStatus \cup {None}]
    BY <1>2, <2>1 DEF AccountDoc, PlatformStatus
  <2>3. modified = [copy[c] EXCEPT !.platformStatus = records]
    BY <1>3, <2>1
  <2> QED
    BY <1>2, <2>1, <2>2, <2>3 DEF RecordSet, AccountDoc
<1>5. DocSound(modified, trader)
  BY <1>2, <1>4, RecordSetSound
<1>6. /\ UNCHANGED <<dayRows, job, commandQueue, sweep, workerVars, faults, trader, command>>
      /\ cpc' = [cpc EXCEPT ![c] = Confirmed(command[c])] /\ copy' = [copy EXCEPT ![c] = modified]
      /\ base' = [base EXCEPT ![c] = modified]
      /\ account' = WriteModified(account, base[c], modified)
  BY <1>1, <1>3 DEF CompletePhase, EngineExceptAccount, Goto, Save
<1>7. DocSound(account', trader')
  BY <1>2, <1>5, <1>6, SavedSound
<1>8. EngineLeft /\ job' = job
  BY <1>6, EngineIsLeft
<1>9. PICK s : s = Confirmed(command[c])
  OBVIOUS
<1>10. \/ command[c] = "CREATE_PHASE_2_ACCOUNT" /\ s = "provision"
       \/ s = "trial"
       \/ s = "review"
  BY <1>2, <1>9 DEF Confirmed, Commands
<1>11. PhaseAccount[FinalizedPhase(command[c], modified)] = p
  BY <1>1, <1>4 DEF RecordSet, FinalizedPhase, Record
<1>12. command[c] = "CREATE_PHASE_2_ACCOUNT" => FirstPhaseOver(trader)
  BY <1>1, <1>2 DEF Record, FinalizedPhase, ShutAt, FirstPhaseOver
<1>13. CommandSound(s, command[c], modified, modified, trader) /\ s \in CommandStates
  BY <1>2, <1>5, <1>10, <1>11, <1>12 DEF CommandSound, CommandStates
<1>14. command' = [command EXCEPT ![c] = command[c]]
  BY <1>6, CommandFacts
<1>15. Proceeds(c, s, command[c], modified, modified)
  BY <1>2, <1>4, <1>6, <1>9, <1>13, <1>14 DEF Proceeds
<1> QED
  BY <1>2, <1>6, <1>7, <1>8, <1>15, CommandStepInductive

-----------------------------------------------------------------------------
(* CREATE_PHASE_2_ACCOUNT.                                                 *)

(* A record of a document is set to a status that is not "COMPLETED", or   *)
(* to one that the platform confirms.                                      *)
LEMMA RecordWritten ==
  ASSUME NEW doc \in AccountDoc, NEW p \in PlatformIds, NEW status \in PlatformStatus
  PROVE  RecordSet(doc, [doc EXCEPT !.platformStatus[p] = status], p, status)
<1>1. PICK records : records = [doc.platformStatus EXCEPT ![p] = status]
  OBVIOUS
<1>2. records \in [PlatformIds -> PlatformStatus \cup {None}]
  BY <1>1 DEF AccountDoc
<1>3. PICK new : new = [doc EXCEPT !.platformStatus = records]
  OBVIOUS
<1>4. new \in AccountDoc
  BY <1>2, <1>3 DEF AccountDoc
<1>5. new.platformStatus = records /\ new.currentPhase = doc.currentPhase
  BY <1>3 DEF AccountDoc
<1> QED
  BY <1>1, <1>3, <1>4, <1>5 DEF RecordSet

LEMMA ProvisionStep ==
  ASSUME LifecycleInv, NEW c \in CommandWorkers, Provision(c)
  PROVE  LifecycleInv'
<1>1. PICK p, status : /\ p = PhaseAccount[2]
                       /\ status = IF trader[p].status = None THEN "PAUSED" ELSE trader[p].status
  OBVIOUS
<1>2. /\ cpc[c] = "provision" /\ p \in PlatformIds /\ TraderSound(trader) /\ FirstPhaseOver(trader)
      /\ command[c] \in Commands
      /\ copy[c] \in AccountDoc /\ DocSound(copy[c], trader) /\ DocSound(base[c], trader)
      /\ base[c] \in AccountDoc /\ DocSound(account, trader)
  BY <1>1, CommandFacts, PhasesAre DEF Provision, At, CommandSound, PhaseFacts
<1>3. trader[p] \in TraderAccount /\ status \in PlatformStatus
  BY <1>1, <1>2 DEF TraderSound, TraderAccount, PlatformStatus
<1>4. Follows(trader, trader') /\ (status = "COMPLETED" => ShutAt(trader', p))
  <2>1. CASE trader[p].status # None
    <3>1. trader' = trader
      BY <1>1, <2>1 DEF Provision
    <3> QED
      BY <1>1, <1>2, <2>1, <3>1, SameFollows, PhasesAre DEF ShutAt, Opening, PhaseFacts, PlatformStatus
  <2>2. CASE trader[p].status = None
    <3>1. PICK new : new = [status |-> "PAUSED", level |-> "NORMAL"]
      OBVIOUS
    <3>2. new \in TraderAccount /\ new.status = "PAUSED"
      BY <3>1 DEF TraderAccount, PlatformStatus, Levels
    <3>3. trader' = [trader EXCEPT ![p] = new]
      BY <1>1, <2>2, <3>1 DEF Provision
    <3>4. /\ trader' \in [PlatformIds -> TraderAccount]
          /\ \A q \in PlatformIds \ {p} : trader'[q] = trader[q]
      BY <1>2, <3>2, <3>3 DEF TraderSound
    <3>5. FirstPhaseOver(trader')
      BY <1>1, <1>2, <3>4, PhasesAre DEF FirstPhaseOver, PhaseFacts
    <3>6. TraderSound(trader')
      BY <1>1, <1>2, <3>4, <3>5 DEF TraderSound
    <3>7. \A q \in PlatformIds : ShutAt(trader, q) => ShutAt(trader', q)
      BY <2>2, <3>4 DEF ShutAt
    <3> QED
      BY <1>1, <2>2, <3>5, <3>6, <3>7 DEF Follows
  <2> QED
    BY <2>1, <2>2
<1>5. DocSound(account, trader') /\ DocSound(copy[c], trader') /\ DocSound(base[c], trader')
  BY <1>2, <1>4, SoundOutlives
<1>6. PICK provisioned : provisioned = [copy[c] EXCEPT !.platformStatus[p] = status]
  OBVIOUS
<1>7. RecordSet(copy[c], provisioned, p, status)
  BY <1>2, <1>3, <1>6, RecordWritten
<1>8. DocSound(provisioned, trader')
  BY <1>4, <1>5, <1>7, RecordSetSound
<1>9. PICK modified : modified = [provisioned EXCEPT !.platformAccountId = p]
  OBVIOUS
<1>10. provisioned \in AccountDoc
  BY <1>7 DEF RecordSet
<1>11. modified \in AccountDoc
  BY <1>2, <1>9, <1>10 DEF AccountDoc
<1>12. modified.platformStatus = provisioned.platformStatus
       /\ modified.currentPhase = provisioned.currentPhase
  BY <1>9, <1>10 DEF AccountDoc
<1>13. DocSound(modified, trader')
  BY <1>8, <1>11, <1>12, SameRecordsSound DEF SameRecords
<1>14. copy' = [copy EXCEPT ![c] = modified]
  BY <1>1, <1>6, <1>9 DEF Provision
<1>15. /\ UNCHANGED <<account, dayRows, job, commandQueue, sweep, workerVars, faults, command, base>>
       /\ cpc' = [cpc EXCEPT ![c] = "savePhase"]
  BY DEF Provision, engineVars, Goto
<1>16. EngineLeft /\ job' = job
  BY <1>15, EngineIsLeft
<1>17. FirstPhaseOver(trader')
  BY <1>2, <1>4 DEF Follows
<1>18. CommandSound("savePhase", command[c], modified, base[c], trader')
  BY <1>2, <1>5, <1>13, <1>17 DEF CommandSound
<1>19. command' = [command EXCEPT ![c] = command[c]] /\ base' = [base EXCEPT ![c] = base[c]]
  BY <1>15, CommandFacts
<1>20. Proceeds(c, "savePhase", command[c], modified, base[c])
  BY <1>2, <1>11, <1>14, <1>15, <1>18, <1>19 DEF Proceeds, CommandStates
<1> QED
  BY <1>4, <1>5, <1>15, <1>16, <1>20, CommandStepInductive

(* The whole array of records is written as the copy has it.               *)
LEMMA SavePhaseStep ==
  ASSUME LifecycleInv, NEW c \in CommandWorkers, SavePhase(c)
  PROVE  LifecycleInv'
<1>1. /\ cpc[c] = "savePhase" /\ Follows(trader, trader) /\ FirstPhaseOver(trader)
      /\ command[c] \in Commands
      /\ copy[c] \in AccountDoc /\ DocSound(copy[c], trader) /\ DocSound(base[c], trader)
      /\ base[c] \in AccountDoc /\ DocSound(account, trader)
  BY CommandFacts DEF SavePhase, At, CommandSound
<1>2. PICK saved : saved = WriteModified(account, base[c], copy[c])
  OBVIOUS
<1>3. DocSound(saved, trader) /\ saved \in AccountDoc
  BY <1>1, <1>2, SavedSound DEF DocSound
<1>4. PICK replaced : replaced = [saved EXCEPT !.platformStatus = copy[c].platformStatus]
  OBVIOUS
<1>5. replaced \in AccountDoc
  BY <1>1, <1>3, <1>4 DEF AccountDoc
<1>6. replaced.platformStatus = copy[c].platformStatus /\ replaced.currentPhase = saved.currentPhase
  BY <1>3, <1>4 DEF AccountDoc
<1>7. DocSound(replaced, trader)
  BY <1>1, <1>3, <1>5, <1>6 DEF DocSound
<1>8. account' \in {saved, replaced}
  BY <1>2, <1>4 DEF SavePhase
<1>9. /\ UNCHANGED <<dayRows, job, commandQueue, sweep, workerVars, faults, trader, command, copy>>
      /\ cpc' = [cpc EXCEPT ![c] = "commit"] /\ base' = [base EXCEPT ![c] = copy[c]]
  BY DEF SavePhase, EngineExceptAccount, Goto
<1>10. EngineLeft /\ job' = job
  BY <1>9, EngineIsLeft
<1>11. CommandSound("commit", command[c], copy[c], copy[c], trader)
  BY <1>1 DEF CommandSound
<1>12. command' = [command EXCEPT ![c] = command[c]] /\ copy' = [copy EXCEPT ![c] = copy[c]]
  BY <1>9, CommandFacts
<1>13. Proceeds(c, "commit", command[c], copy[c], copy[c])
  BY <1>1, <1>9, <1>11, <1>12 DEF Proceeds, CommandStates
<1>14. DocSound(account', trader')
  BY <1>3, <1>7, <1>8, <1>9
<1> QED
  BY <1>1, <1>9, <1>10, <1>13, <1>14, CommandStepInductive

(* The second phase begins only when the first one's account is over.      *)
LEMMA CommitPhaseTwoStep ==
  ASSUME LifecycleInv, NEW c \in CommandWorkers, CommitPhaseTwo(c)
  PROVE  LifecycleInv'
<1>1. /\ cpc[c] = "commit" /\ Follows(trader, trader) /\ FirstPhaseOver(trader)
      /\ command[c] \in Commands /\ account \in AccountDoc
      /\ copy[c] \in AccountDoc /\ DocSound(copy[c], trader) /\ DocSound(base[c], trader)
      /\ base[c] \in AccountDoc /\ DocSound(account, trader)
  BY CommandFacts DEF CommitPhaseTwo, At, CommandSound
<1>2. UNCHANGED <<dayRows, job, commandQueue, sweep, workerVars, faults, trader, command>>
  BY DEF CommitPhaseTwo, EngineExceptAccount
<1>3. EngineLeft /\ job' = job
  BY <1>2, EngineIsLeft
<1>4. CASE /\ account' = PhaseTwoReset(account)
           /\ copy' = [copy EXCEPT ![c] = account']
           /\ base' = [base EXCEPT ![c] = account']
           /\ Goto(c, "activate")
  <2>1. PICK v : v = [level |-> "NORMAL", at |-> 0]
    OBVIOUS
  <2>2. v \in Valuation
    BY <2>1 DEF Valuation, Levels
  <2>3. PICK new : new = PhaseTwoReset(account)
    OBVIOUS
  <2>4. new = [account EXCEPT !.currentPhase = 2, !.status = "PHASE_2", !.enabled = FALSE,
                 !.commandPending = "CREATE_PHASE_2_ACCOUNT", !.valuation = v,
                 !.lastSnapshotAt = 0, !.lastSnapshotSequence = 0,
                 !.tradingDays = 0, !.totalTrades = 0, !.breach = None]
    BY <2>1, <2>3 DEF PhaseTwoReset
  <2>5. new \in AccountDoc
    <3>1. PICK staged : staged = [account EXCEPT !.currentPhase = 2, !.status = "PHASE_2",
                         !.enabled = FALSE, !.commandPending = "CREATE_PHASE_2_ACCOUNT"]
      OBVIOUS
    <3>2. staged \in AccountDoc
      <4>1. /\ "PHASE_2" \in AccountStatus /\ "CREATE_PHASE_2_ACCOUNT" \in Commands
            /\ 2 \in {1, 2} /\ FALSE \in BOOLEAN
        BY DEF AccountStatus, Commands
      <4>2. account \in AccountDoc
        BY <1>1
      <4> QED
        BY <3>1, <4>1, <4>2 DEF AccountDoc
    <3>3. new = [staged EXCEPT !.valuation = v, !.lastSnapshotAt = 0,
                   !.lastSnapshotSequence = 0, !.tradingDays = 0, !.totalTrades = 0,
                   !.breach = None]
      BY <2>4, <3>1
    <3> QED
      BY <2>2, <3>2, <3>3 DEF AccountDoc
  <2>6. new.platformStatus = account.platformStatus
    BY <1>1, <2>4 DEF AccountDoc
  <2>7. DocSound(new, trader)
    BY <1>1, <2>5, <2>6 DEF DocSound
  <2>8. CommandSound("activate", command[c], new, new, trader)
    BY <1>1, <2>7 DEF CommandSound
  <2>9. command' = [command EXCEPT ![c] = command[c]]
    BY <1>2, CommandFacts
  <2>10. Proceeds(c, "activate", command[c], new, new)
    BY <1>1, <1>2, <1>4, <2>3, <2>5, <2>8, <2>9 DEF Proceeds, CommandStates, Goto
  <2> QED
    BY <1>1, <1>2, <1>3, <1>4, <2>3, <2>7, <2>10, CommandStepInductive
<1>5. CASE Goto(c, "superseded") /\ UNCHANGED <<account, copy, base>>
  <2>1. CommandSound("superseded", command[c], copy[c], base[c], trader)
    BY <1>1 DEF CommandSound
  <2>2. /\ command' = [command EXCEPT ![c] = command[c]] /\ copy' = [copy EXCEPT ![c] = copy[c]]
        /\ base' = [base EXCEPT ![c] = base[c]]
    BY <1>2, <1>5, CommandFacts
  <2>3. Proceeds(c, "superseded", command[c], copy[c], base[c])
    BY <1>1, <1>2, <1>5, <2>1, <2>2 DEF Proceeds, CommandStates, Goto
  <2> QED
    BY <1>1, <1>2, <1>3, <1>5, <2>3, CommandStepInductive
<1> QED
  BY <1>4, <1>5 DEF CommitPhaseTwo

(* A step of a command worker that moves on with its copy and base.        *)
LEMMA OnwardStep ==
  ASSUME LifecycleInv, NEW c \in CommandWorkers, cpc[c] \notin {"idle", "start"},
         NEW s \in CommandStates, cpc' = [cpc EXCEPT ![c] = s],
         UNCHANGED <<command, copy, base>>, EngineLeft, job' = job,
         Follows(trader, trader'), DocSound(account', trader'),
         \/ s = "clear"
         \/ /\ s \in {"open", "unstage", "shut"}
            /\ cpc[c] \in {"provision", "savePhase", "commit", "superseded", "activate", "open",
                           "unstage", "shut"}
  PROVE  LifecycleInv'
<1>1. /\ command' = [command EXCEPT ![c] = command[c]] /\ copy' = [copy EXCEPT ![c] = copy[c]]
      /\ base' = [base EXCEPT ![c] = base[c]] /\ command[c] \in Commands
      /\ copy[c] \in AccountDoc /\ base[c] \in AccountDoc
      /\ DocSound(copy[c], trader) /\ DocSound(base[c], trader)
      /\ CommandSound(cpc[c], command[c], copy[c], base[c], trader)
  BY CommandFacts
<1>2. DocSound(copy[c], trader') /\ DocSound(base[c], trader')
  BY <1>1, SoundOutlives
<1>3. s # "clear" => FirstPhaseOver(trader')
  BY <1>1 DEF CommandSound, Follows
<1>4. CommandSound(s, command[c], copy[c], base[c], trader')
  BY <1>1, <1>2, <1>3 DEF CommandSound
<1>5. Proceeds(c, s, command[c], copy[c], base[c])
  BY <1>1, <1>4 DEF Proceeds
<1> QED
  BY <1>5, CommandStepInductive

LEMMA StagingStep ==
  ASSUME LifecycleInv, NEW c \in CommandWorkers, StageSuperseded(c) \/ Unstage(c)
  PROVE  LifecycleInv'
<1>1. PICK s : /\ cpc' = [cpc EXCEPT ![c] = s]
               /\ \/ s = "clear" /\ cpc[c] = "superseded"
                  \/ s = "shut" /\ cpc[c] = "unstage"
               /\ Stage(copy[c].platformAccountId)
               /\ UNCHANGED <<account, dayRows, job, commandQueue, sweep, workerVars, command, copy, base>>
  BY DEF StageSuperseded, Unstage, At, Goto
<1>2. /\ copy[c] \in AccountDoc /\ TraderSound(trader) /\ DocSound(account, trader) /\ TypeOK
  BY <1>1, CommandFacts
<1>3. copy[c].platformAccountId \in PlatformIds \cup {None}
  BY <1>2 DEF AccountDoc
<1>4. Follows(trader, trader')
  BY <1>1, <1>2, <1>3, StageFollows
<1>5. faults' = faults \/ faults' \in 0..MaxFaults
  BY <1>1, <1>2, EngineBoundsAssumption DEF Stage, TypeOK
<1>6. EngineLeft /\ job' = job
  BY <1>1, <1>5, EngineIsLeft
<1>7. DocSound(account', trader')
  BY <1>1, <1>2, <1>4, SoundOutlives
<1>8. s \in CommandStates
  BY <1>1 DEF CommandStates
<1> QED
  BY <1>1, <1>4, <1>6, <1>7, <1>8, OnwardStep

LEMMA ActivateStep ==
  ASSUME LifecycleInv, NEW c \in CommandWorkers, Activate(c)
  PROVE  LifecycleInv'
<1>1. /\ UNCHANGED <<account, dayRows, job, commandQueue, sweep, workerVars, faults, command, copy, base>>
      /\ cpc' = [cpc EXCEPT ![c] = "open"] /\ cpc[c] = "activate"
  BY DEF Activate, engineVars, At, Goto
<1>2. /\ copy[c] \in AccountDoc /\ TraderSound(trader) /\ DocSound(account, trader)
  BY <1>1, CommandFacts
<1>3. copy[c].platformAccountId \in PlatformIds \cup {None}
  BY <1>2 DEF AccountDoc
<1>4. Follows(trader, trader')
  BY <1>2, <1>3, SetStatusFollows DEF Activate, PlatformStatus
<1>5. EngineLeft /\ job' = job
  BY <1>1, EngineIsLeft
<1>6. DocSound(account', trader') /\ "open" \in CommandStates
  BY <1>1, <1>2, <1>4, SoundOutlives DEF CommandStates
<1> QED
  BY <1>1, <1>4, <1>5, <1>6, OnwardStep

LEMMA OpenPhaseTwoStep ==
  ASSUME LifecycleInv, NEW c \in CommandWorkers, OpenPhaseTwo(c)
  PROVE  LifecycleInv'
<1>1. /\ UNCHANGED <<dayRows, job, commandQueue, sweep, workerVars, faults, trader, command, copy, base>>
      /\ cpc[c] = "open"
  BY DEF OpenPhaseTwo, EngineExceptAccount, At
<1>2. /\ account \in AccountDoc /\ DocSound(account, trader) /\ Follows(trader, trader)
      /\ copy[c] \in AccountDoc
  BY <1>1, CommandFacts
<1>3. EngineLeft /\ job' = job
  BY <1>1, EngineIsLeft
<1>4. PICK p : p = copy[c].platformAccountId
  OBVIOUS
<1>5. CASE /\ account' = [account EXCEPT !.enabled = TRUE, !.platformStatus[p] = "ACTIVE"]
           /\ Goto(c, "clear")
  <2>1. PICK enabled : enabled = [account EXCEPT !.enabled = TRUE]
    OBVIOUS
  <2>2. enabled \in AccountDoc
    BY <1>2, <2>1 DEF AccountDoc
  <2>3. enabled.platformStatus = account.platformStatus
        /\ enabled.currentPhase = account.currentPhase
    BY <1>2, <2>1 DEF AccountDoc
  <2>4. DocSound(enabled, trader)
    BY <1>2, <2>2, <2>3, SameRecordsSound DEF SameRecords
  <2>5. account' = [enabled EXCEPT !.platformStatus[p] = "ACTIVE"]
    BY <1>5, <2>1
  <2>6. CASE p \in PlatformIds
    <3>1. RecordSet(enabled, account', p, "ACTIVE")
      BY <2>2, <2>5, <2>6, RecordWritten DEF PlatformStatus
    <3>2. DocSound(account', trader)
      BY <2>4, <3>1, RecordSetSound
    <3> QED
      BY <1>1, <1>2, <1>3, <1>5, <3>2, OnwardStep DEF Goto, CommandStates
  <2>7. CASE p \notin PlatformIds
    <3>1. [enabled.platformStatus EXCEPT ![p] = "ACTIVE"] = enabled.platformStatus
      BY <2>2, <2>7 DEF AccountDoc
    <3>2. account' = [enabled EXCEPT !.platformStatus = enabled.platformStatus]
      BY <2>5, <3>1
    <3>3. account' = enabled
      BY <2>2, <3>2 DEF AccountDoc
    <3> QED
      BY <1>1, <1>2, <1>3, <1>5, <2>4, <3>3, OnwardStep DEF Goto, CommandStates
  <2> QED
    BY <2>6, <2>7
<1>6. CASE Goto(c, "unstage") /\ UNCHANGED account
  BY <1>1, <1>2, <1>3, <1>6, OnwardStep DEF Goto, CommandStates
<1> QED
  BY <1>4, <1>5, <1>6 DEF OpenPhaseTwo

-----------------------------------------------------------------------------
(* The ends of a command, and failures.                                    *)

LEMMA ShutLaunch ==
  ASSUME NEW doc \in AccountDoc
  PROVE  SameRecords(doc, [doc EXCEPT !.enabled = FALSE])
<1>1. PICK new : new = [doc EXCEPT !.enabled = FALSE]
  OBVIOUS
<1>2. new \in AccountDoc
  BY <1>1 DEF AccountDoc
<1>3. new.platformStatus = doc.platformStatus /\ new.currentPhase = doc.currentPhase
  BY <1>1 DEF AccountDoc
<1> QED
  BY <1>1, <1>2, <1>3 DEF SameRecords

LEMMA ShutStep ==
  ASSUME LifecycleInv, NEW c \in CommandWorkers, Shut(c)
  PROVE  LifecycleInv'
<1>1. /\ account \in AccountDoc /\ DocSound(account, trader) /\ Follows(trader, trader)
  BY CommandFacts
<1>2. DocSound(account', trader)
  BY <1>1, ShutLaunch, SameRecordsSound DEF Shut
<1> QED
  BY <1>1, <1>2, FailJobStep DEF Shut, At

LEMMA CompleteTrialStep ==
  ASSUME LifecycleInv, NEW c \in CommandWorkers, CompleteTrial(c)
  PROVE  LifecycleInv'
<1>1. /\ UNCHANGED <<dayRows, job, commandQueue, sweep, workerVars, faults, trader, command, copy, base>>
      /\ cpc[c] = "trial" /\ cpc' = [cpc EXCEPT ![c] = "clear"]
  BY DEF CompleteTrial, EngineExceptAccount, At, Goto
<1>2. /\ account \in AccountDoc /\ DocSound(account, trader) /\ Follows(trader, trader)
  BY CommandFacts
<1>3. EngineLeft /\ job' = job
  BY <1>1, EngineIsLeft
<1>4. PICK shut : shut = [account EXCEPT !.enabled = FALSE]
  OBVIOUS
<1>5. SameRecords(account, shut) /\ shut \in AccountDoc
  BY <1>2, <1>4, ShutLaunch DEF SameRecords
<1>6. SameRecords(shut, EndTrial(shut, "PASSED"))
  BY <1>5, EndTrialRecords DEF TrialResults
<1>7. account' \in {account, EndTrial(shut, "PASSED")}
  BY <1>4 DEF CompleteTrial
<1>8. DocSound(account', trader)
  BY <1>2, <1>5, <1>6, <1>7, SameRecordsSound
<1> QED
  BY <1>1, <1>2, <1>3, <1>8, OnwardStep DEF CommandStates

LEMMA EnterFundedReviewStep ==
  ASSUME LifecycleInv, NEW c \in CommandWorkers, EnterFundedReview(c)
  PROVE  LifecycleInv'
<1>1. PICK p : p = Record(c)
  OBVIOUS
<1>2. /\ cpc[c] = "review" /\ p \in PlatformIds /\ Follows(trader, trader)
      /\ command[c] \in Commands /\ ShutAt(trader, p)
      /\ copy[c] \in AccountDoc /\ DocSound(copy[c], trader) /\ DocSound(base[c], trader)
      /\ base[c] \in AccountDoc /\ DocSound(account, trader)
  BY <1>1, CommandFacts DEF EnterFundedReview, At, CommandSound, Record
<1>3. PICK reviewed : reviewed = [copy[c] EXCEPT !.enabled = FALSE, !.status = "FUNDED_REVIEW"]
  OBVIOUS
<1>4. reviewed \in AccountDoc
  BY <1>2, <1>3 DEF AccountDoc, AccountStatus
<1>5. reviewed.platformStatus = copy[c].platformStatus /\ reviewed.currentPhase = copy[c].currentPhase
  BY <1>2, <1>3 DEF AccountDoc
<1>6. DocSound(reviewed, trader)
  BY <1>2, <1>4, <1>5, SameRecordsSound DEF SameRecords
<1>7. PICK modified : modified = [reviewed EXCEPT !.platformStatus[p] = "COMPLETED"]
  OBVIOUS
<1>8. RecordSet(reviewed, modified, p, "COMPLETED") /\ modified \in AccountDoc
  BY <1>2, <1>4, <1>7, RecordWritten DEF RecordSet, PlatformStatus
<1>9. DocSound(modified, trader)
  BY <1>2, <1>6, <1>8, RecordSetSound
<1>10. /\ UNCHANGED <<dayRows, job, commandQueue, sweep, workerVars, faults, trader, command>>
       /\ cpc' = [cpc EXCEPT ![c] = "clear"] /\ copy' = [copy EXCEPT ![c] = modified]
       /\ base' = [base EXCEPT ![c] = modified]
       /\ account' = WriteModified(account, base[c], modified)
  BY <1>1, <1>3, <1>7 DEF EnterFundedReview, EngineExceptAccount, Goto, Save
<1>11. DocSound(account', trader')
  BY <1>2, <1>9, <1>10, SavedSound
<1>12. EngineLeft /\ job' = job
  BY <1>10, EngineIsLeft
<1>13. CommandSound("clear", command[c], modified, modified, trader)
  BY <1>2, <1>9 DEF CommandSound
<1>14. command' = [command EXCEPT ![c] = command[c]]
  BY <1>10, CommandFacts
<1>15. Proceeds(c, "clear", command[c], modified, modified)
  BY <1>2, <1>8, <1>10, <1>13, <1>14 DEF Proceeds, CommandStates
<1> QED
  BY <1>2, <1>10, <1>11, <1>12, <1>15, CommandStepInductive

LEMMA ClearPendingStep ==
  ASSUME LifecycleInv, NEW c \in CommandWorkers, ClearPending(c)
  PROVE  LifecycleInv'
<1>1. /\ UNCHANGED <<dayRows, job, commandQueue, sweep, workerVars, faults, trader>> /\ EndJob(c)
  BY DEF ClearPending, EngineExceptAccount
<1>2. /\ account \in AccountDoc /\ DocSound(account, trader) /\ Follows(trader, trader)
  BY CommandFacts
<1>3. EngineLeft /\ job' = job
  BY <1>1, EngineIsLeft
<1>4. PICK cleared : cleared = [account EXCEPT !.commandPending = None]
  OBVIOUS
<1>5. cleared \in AccountDoc
  BY <1>2, <1>4 DEF AccountDoc
<1>6. cleared.platformStatus = account.platformStatus /\ cleared.currentPhase = account.currentPhase
  BY <1>2, <1>4 DEF AccountDoc
<1>7. account' \in {account, cleared}
  BY <1>4 DEF ClearPending
<1>8. DocSound(account', trader)
  BY <1>2, <1>5, <1>6, <1>7, SameRecordsSound DEF SameRecords
<1>9. Proceeds(c, "idle", None, None, None)
  BY <1>1 DEF EndJob, Proceeds, CommandSound, CommandStates
<1> QED
  BY <1>1, <1>2, <1>3, <1>8, <1>9, CommandStepInductive

LEMMA FailureStep ==
  ASSUME LifecycleInv, NEW c \in CommandWorkers, Refused(c) \/ Outage(c) \/ CommandCrash(c)
  PROVE  LifecycleInv'
<1>1. /\ UNCHANGED <<account, dayRows, job, sweep, workerVars, trader>>
      /\ \/ cpc[c] # "idle" /\ FailJob(c)
         \/ /\ cpc[c] = "activate" /\ cpc' = [cpc EXCEPT ![c] = "unstage"]
            /\ UNCHANGED <<command, copy, base, commandQueue>>
  BY DEF Refused, Outage, CommandCrash, CallFails, At, Goto
<1>2. DocSound(account, trader) /\ Follows(trader, trader) /\ TypeOK
  BY CommandFacts
<1>3. faults' = faults \/ faults' \in 0..MaxFaults
  BY <1>2, EngineBoundsAssumption DEF Refused, Outage, CommandCrash, TypeOK
<1>4. CASE cpc[c] # "idle" /\ FailJob(c)
  BY <1>1, <1>2, <1>3, <1>4, FailJobStep DEF At
<1>5. CASE /\ cpc[c] = "activate" /\ cpc' = [cpc EXCEPT ![c] = "unstage"]
           /\ UNCHANGED <<command, copy, base, commandQueue>>
  <2>1. EngineLeft /\ job' = job
    BY <1>1, <1>3, <1>5, EngineIsLeft
  <2> QED
    BY <1>1, <1>2, <1>5, <2>1, OnwardStep DEF CommandStates
<1> QED
  BY <1>1, <1>4, <1>5

-----------------------------------------------------------------------------
(* The theorems.                                                           *)

LEMMA LifecycleInitInductive == LifecycleInit => LifecycleInv
<1> SUFFICES ASSUME LifecycleInit PROVE LifecycleInv
  OBVIOUS
<1>1. TypeOK /\ IsFiniteSet(dayRows) /\ account \in InitialAccounts
  BY InitInductive DEF IInv, LifecycleInit, EngineInit
<1>2. account \in AccountDoc
  BY <1>1 DEF TypeOK
<1>3. ASSUME NEW p \in PlatformIds
      PROVE  trader[p] \in TraderAccount /\ trader[p].status = account.platformStatus[p]
  BY <1>2 DEF LifecycleInit, TraderAccount, AccountDoc, Valuation
<1>4. trader \in [PlatformIds -> TraderAccount]
  BY <1>3 DEF LifecycleInit
<1>5. LifecycleTypeOK
  BY <1>1, <1>4 DEF LifecycleInit, LifecycleTypeOK, CommandStates
<1>6. TraderSound(trader)
  BY <1>1, <1>3, <1>4, PhasesAre, InitialRecordsAssumption
     DEF TraderSound, FirstPhaseOver, Opening, PhaseFacts
<1>7. DocSound(account, trader)
  BY <1>1, <1>2, <1>3, PhasesAre, InitialRecordsAssumption
     DEF DocSound, ShutAt, FirstPhaseOver, Opening, PhaseFacts, PlatformStatus
<1>8. Arrived(job) = {}
  BY DEF LifecycleInit, EngineInit, Arrived
<1>9. \A w \in Workers : WorkerSound(w)
  BY DEF LifecycleInit, EngineInit, WorkerSound, Batch, Handling
<1>10. \A c \in CommandWorkers : CommandSound(cpc[c], command[c], copy[c], base[c], trader)
  BY DEF LifecycleInit, CommandSound
<1> QED
  BY <1>1, <1>5, <1>6, <1>7, <1>8, <1>9, <1>10 DEF LifecycleInv

LEMMA LifecycleStepInductive == LifecycleInv /\ [LifecycleNext]_lifecycleVars => LifecycleInv'
<1> SUFFICES ASSUME LifecycleInv, [LifecycleNext]_lifecycleVars PROVE LifecycleInv'
  OBVIOUS
<1>1. CASE UNCHANGED lifecycleVars
  <2>1. /\ UNCHANGED <<account, commandVars, trader, job>> /\ EngineLeft
        /\ TypeOK /\ Follows(trader, trader)
    BY <1>1, SameFollows DEF lifecycleVars, engineVars, workerVars, commandVars, EngineLeft,
       LifecycleInv, LifecycleTypeOK, TypeOK
  <2> QED
    BY <2>1, PlatformStepInductive DEF TypeOK
<1>2. ASSUME NEW c \in CommandWorkers, CommandStep(c) \/ Outage(c) \/ CommandCrash(c)
      PROVE  LifecycleInv'
  BY <1>2, TakeCommandStep, ReadAccountStep, LockRemoteStep, DisableLaunchStep, FetchRemoteStep,
     ResumeStep, SaveResultStep, DisableRemoteStep, CompletePhaseStep, ProvisionStep, SavePhaseStep,
     CommitPhaseTwoStep, StagingStep, ActivateStep, OpenPhaseTwoStep, ShutStep, CompleteTrialStep,
     EnterFundedReviewStep, ClearPendingStep, FailureStep DEF CommandStep
<1> QED
  BY <1>1, <1>2, EngineStepInductive, EventArrivesStep, TraderMovesStep DEF LifecycleNext

(* The invariant holds in every reachable state.                           *)
THEOREM LifecycleInductive == LifecycleSpec => []LifecycleInv
BY LifecycleInitInductive, LifecycleStepInductive, PTL DEF LifecycleSpec

(* Every variable of the engine, the platform and the command workers      *)
(* keeps its type.                                                         *)
THEOREM LifecycleTyped == LifecycleSpec => []LifecycleTypeOK
<1>1. LifecycleInv => LifecycleTypeOK
  BY DEF LifecycleInv
<1> QED
  BY <1>1, LifecycleInductive, PTL

(* No two Trader accounts of one account are ever open for trading,        *)
(* however many command workers run a promotion, and wherever it crashes,  *)
(* is refused or is overtaken.                                             *)
THEOREM OneIsLive == LifecycleSpec => []OneLiveTraderAccount
<1>1. LifecycleInv => OneLiveTraderAccount
  <2> SUFFICES ASSUME LifecycleInv PROVE OneLiveTraderAccount
    OBVIOUS
  <2>1. TraderSound(trader)
    BY DEF LifecycleInv
  <2>2. PICK live : live = {p \in PlatformIds : Tradable(p)}
    OBVIOUS
  <2>3. live \subseteq {PhaseAccount[1]} \/ live \subseteq {PhaseAccount[2]}
    BY <2>1, <2>2, PhasesAre
       DEF Tradable, TraderSound, FirstPhaseOver, Opening, PhaseFacts, PlatformStatus
  <2>4. live = {} \/ live = {PhaseAccount[1]} \/ live = {PhaseAccount[2]}
    BY <2>3
  <2>5. Cardinality(live) \in {0, 1}
    BY <2>4, FS_EmptySet, FS_Singleton
  <2> QED
    BY <2>2, <2>5 DEF OneLiveTraderAccount
<1> QED
  BY <1>1, LifecycleInductive, PTL

(* A phase on record as completed, and the first phase once the second has *)
(* begun, takes no new exposure on the platform, though every save of a    *)
(* command worker but the promotion's is unconditional.                    *)
THEOREM CompletedIsShut == LifecycleSpec => []CompletedPhaseRejectsExposure
<1>1. LifecycleInv => CompletedPhaseRejectsExposure
  BY DEF LifecycleInv, CompletedPhaseRejectsExposure, DocSound, ShutAt, FirstPhaseOver, Opening, Tradable
<1> QED
  BY <1>1, LifecycleInductive, PTL

-----------------------------------------------------------------------------
(* Pending commands, beside the command workers.                           *)

(* A worker's saves of the status and of the pending command are decided   *)
(* on copies. What keeps a stale copy from leaving a command that does not *)
(* fit the status: only the engine makes a command pending, in a commit    *)
(* that counts the version up; a command worker never does more than       *)
(* withdraw the command, which an engine's copy of the version tolerates.  *)
ReadCurrent(w) ==
  pc[w] \in Handling =>
    /\ read[w].accountMode = account.accountMode
    /\ read[w].challengeType = account.challengeType
    /\ read[w].version <= account.version
    /\ read[w].version = account.version =>
         account.commandPending \in {read[w].commandPending, None}

(* States in which the copy's status and command are those it was read with. *)
Unmodified == {"fetch", "resume", "disable", "complete", "provision", "savePhase", "review"}

CommandCurrent(s, k, modified, loaded) ==
  /\ s \in Unmodified =>
       modified.status = loaded.status /\ modified.commandPending = loaded.commandPending
  /\ s \in {"fetch", "resume", "save"} => loaded.commandPending # None
  /\ s = "save" => modified.commandPending = None
  /\ s = "review" => k = "ENTER_FUNDED_REVIEW"
  /\ s \in {"fetch", "disable", "complete", "review"} /\ k = "ENTER_FUNDED_REVIEW"
       => loaded.status = "FUNDED_REVIEW"

MatchInv ==
  /\ PendingCommandValid(account)
  /\ \A w \in Workers : ReadCurrent(w)
  /\ \A c \in CommandWorkers : CommandCurrent(cpc[c], command[c], copy[c], base[c])

(* `new` has the status and the command of `old`.                          *)
SameCommand(old, new) ==
  /\ SameIdentity(old, new)
  /\ new.status = old.status
  /\ new.commandPending = old.commandPending

(* What an event decides about the copy it is handled on.                  *)
DecidesWell(doc, new) ==
  /\ new \in AccountDoc
  /\ SameIdentity(doc, new)
  /\ \/ SameCommand(doc, new)
     \/ new.commandPending = None
     \/ new.status # doc.status /\ PendingCommandValid(new)

LEMMA MetricsDecide ==
  ASSUME NEW doc \in AccountDoc, NEW e \in EventDoc
  PROVE  /\ SameCommand(doc, ApplyMetrics(doc, e))
         /\ SameCommand(doc, Stamp(doc, e))
         /\ SameCommand(doc, Stamp(ApplyMetrics(doc, e), e))
         /\ SameCommand(doc, ControlMetrics(doc, e))
<1>1. ASSUME NEW d \in AccountDoc
      PROVE  SameCommand(d, ApplyMetrics(d, e)) /\ SameCommand(d, Stamp(d, e))
  <2>1. PICK v, q : v = [level |-> e.level, at |-> e.at]
                    /\ q = IF e.sequence = NoSequence THEN d.lastSnapshotSequence ELSE e.sequence
    OBVIOUS
  <2>2. ApplyMetrics(d, e) = [d EXCEPT !.valuation = v]
    BY <2>1 DEF ApplyMetrics
  <2>3. Stamp(d, e) = [d EXCEPT !.lastSnapshotAt = e.at, !.lastSnapshotSequence = q]
    BY <2>1 DEF Stamp
  <2> QED
    BY <2>2, <2>3 DEF SameCommand, SameIdentity, AccountDoc
<1>2. PICK valued : valued = ApplyMetrics(doc, e)
  OBVIOUS
<1>3. valued \in AccountDoc
  BY <1>2, MetricsRecords DEF SameRecords
<1>4. SameCommand(doc, Stamp(valued, e))
  BY <1>1, <1>2, <1>3 DEF SameCommand, SameIdentity
<1>5. SameCommand(doc, doc)
  BY DEF SameCommand, SameIdentity
<1> QED
  BY <1>1, <1>2, <1>4, <1>5 DEF ControlMetrics

LEMMA EndTrialDecides ==
  ASSUME NEW doc \in AccountDoc, NEW result
  PROVE  SameCommand(doc, EndTrial(doc, result))
BY DEF EndTrial, SameCommand, SameIdentity, AccountDoc

LEMMA ControlDecides ==
  ASSUME NEW doc \in AccountDoc, NEW e \in EventDoc, e.type = "CONTROL"
  PROVE  DecidesWell(doc, ControlOutcome(doc, e))
<1>1. PICK valued : valued = ControlMetrics(doc, e)
  OBVIOUS
<1>2. SameCommand(doc, valued) /\ valued \in AccountDoc
  BY <1>1, MetricsDecide, ControlMetricsRecords DEF SameRecords
<1>3. PICK controlled : controlled = RecordStatus(valued, e)
  OBVIOUS
<1>4. SameCommand(valued, controlled) /\ controlled \in AccountDoc
  <2>1. PICK records : records = [valued.platformStatus EXCEPT ![e.platformAccountId] = e.status]
    OBVIOUS
  <2>2. records \in [PlatformIds -> PlatformStatus \cup {None}]
    BY <1>2, <2>1 DEF AccountDoc, EventDoc
  <2>3. controlled \in {valued, [valued EXCEPT !.platformStatus = records]}
    BY <1>3, <2>1 DEF RecordStatus
  <2>4. controlled = valued \/ controlled = [valued EXCEPT !.platformStatus = records]
    BY <2>3
  <2>5. CASE controlled = valued
    BY <1>2, <2>5 DEF SameCommand, SameIdentity
  <2>6. CASE controlled = [valued EXCEPT !.platformStatus = records]
    BY <1>2, <2>2, <2>6 DEF SameCommand, SameIdentity, AccountDoc
  <2> QED
    BY <2>4, <2>5, <2>6
<1>5. PICK breached : breached = ControlBreached(controlled, e)
  OBVIOUS
<1>6. /\ breached \in AccountDoc /\ breached.commandPending = None
      /\ SameIdentity(controlled, breached)
  <2>1. PICK closed : closed = [controlled EXCEPT !.status = "BREACHED", !.enabled = FALSE,
                                                  !.commandPending = None,
                                                  !.lifecycleOperation = None]
    OBVIOUS
  <2>2. closed \in AccountDoc /\ closed.commandPending = None /\ SameIdentity(controlled, closed)
    <3>0. controlled \in AccountDoc /\ "BREACHED" \in AccountStatus
      BY <1>4 DEF AccountStatus
    <3>1. closed \in AccountDoc
      BY <2>1, <3>0 DEF AccountDoc
    <3>2. /\ closed.commandPending = None /\ closed.version = controlled.version
          /\ closed.accountMode = controlled.accountMode
          /\ closed.challengeType = controlled.challengeType
      BY <2>1, <3>0 DEF AccountDoc
    <3> QED
      BY <3>1, <3>2 DEF SameIdentity
  <2>3. PICK ended : ended = EndTrial(closed, "BREACHED")
    OBVIOUS
  <2>4. SameCommand(closed, ended) /\ ended \in AccountDoc
    BY <2>2, <2>3, EndTrialDecides, EndTrialRecords DEF SameRecords, TrialResults
  <2>5. PICK b : b = IF ShouldReplaceBreachRecord(ended.breach, ControlBreach(e))
                     THEN ControlBreach(e) ELSE ended.breach
    OBVIOUS
  <2>6. breached = [ended EXCEPT !.breach = b]
    BY <1>5, <2>1, <2>3, <2>5 DEF ControlBreached
  <2>7. breached \in AccountDoc
    BY <1>4, <1>5, ControlBreachedRecords DEF SameRecords
  <2> QED
    BY <2>2, <2>4, <2>6, <2>7 DEF SameCommand, SameIdentity, AccountDoc
<1>7. ControlOutcome(doc, e) \in {controlled, breached}
  BY <1>1, <1>3, <1>5 DEF ControlOutcome
<1> QED
  BY <1>2, <1>4, <1>6, <1>7 DEF DecidesWell, SameCommand, SameIdentity

LEMMA DealDecides ==
  ASSUME NEW doc \in AccountDoc, NEW e \in EventDoc, NEW n \in Nat
  PROVE  DecidesWell(doc, DealOutcome(doc, e, n))
<1>1. PICK d, t : d = (IF e.opens THEN n ELSE doc.tradingDays)
                  /\ t = (IF e.closes THEN doc.totalTrades + 1 ELSE doc.totalTrades)
  OBVIOUS
<1>2. DealOutcome(doc, e, n) = [doc EXCEPT !.tradingDays = d, !.totalTrades = t]
  BY <1>1 DEF DealOutcome
<1>3. SameCommand(doc, DealOutcome(doc, e, n))
  BY <1>2 DEF SameCommand, SameIdentity, AccountDoc
<1> QED
  BY <1>3, DealRecords DEF DecidesWell, SameCommand, SameRecords

LEMMA SnapshotDecides ==
  ASSUME NEW doc \in AccountDoc, NEW e \in EventDoc
  PROVE  DecidesWell(doc, SnapshotOutcome(doc, e))
<1>1. PICK valued : valued = Stamp(ApplyMetrics(doc, e), e)
  OBVIOUS
<1>2. SameCommand(doc, valued) /\ valued \in AccountDoc
  BY <1>1, MetricsDecide, StampedRecords DEF SameRecords
<1>3. PICK d : d = ResolveDecision(valued)
  OBVIOUS
<1>4. PICK decided : decided = [valued EXCEPT !.status = d.status, !.enabled = FALSE,
                                              !.commandPending = d.command]
  OBVIOUS
<1>5. d # NoDecision =>
        /\ decided \in AccountDoc /\ SameIdentity(valued, decided)
        /\ decided.status # valued.status /\ PendingCommandValid(decided)
  <2> SUFFICES ASSUME d # NoDecision
               PROVE  /\ decided \in AccountDoc /\ SameIdentity(valued, decided)
                      /\ decided.status # valued.status /\ PendingCommandValid(decided)
    OBVIOUS
  <2>1. d.status \in AccountStatus /\ d.command \in Commands \cup {None}
    BY <1>3, DecisionTyped
  <2>2. /\ decided \in AccountDoc /\ SameIdentity(valued, decided)
        /\ decided.status = d.status /\ decided.commandPending = d.command
    BY <1>2, <1>4, <2>1 DEF AccountDoc, SameIdentity
  <2>3. /\ valued.status \notin Decided
        /\ \/ d = [status |-> "BREACHED", command |-> "LOCK_ACCOUNT"]
           \/ /\ d.status \in {"PASSED", "FUNDED_REVIEW"}
              /\ d.status = "FUNDED_REVIEW" => d.command = "ENTER_FUNDED_REVIEW"
              /\ d.status = "PASSED" =>
                   \/ d.command = "CREATE_PHASE_2_ACCOUNT" /\ valued.challengeType = "TWO_STEP"
                   \/ d.command = "COMPLETE_TRIAL" /\ valued.accountMode = "DEMO"
    BY <1>2, <1>3, DecisionCases
  <2>4. decided.status # valued.status
    BY <2>2, <2>3 DEF Decided
  <2>5. PendingCommandValid(decided)
    BY <2>2, <2>3 DEF PendingCommandValid, CommandStillValid, SameIdentity
  <2> QED
    BY <2>2, <2>4, <2>5
<1>6. d # NoDecision => SameCommand(decided, SnapshotBreached(decided, e))
  <2> SUFFICES ASSUME d # NoDecision PROVE SameCommand(decided, SnapshotBreached(decided, e))
    OBVIOUS
  <2>1. PICK released : released = [decided EXCEPT !.lifecycleOperation = None]
    OBVIOUS
  <2>2. released \in AccountDoc /\ SameCommand(decided, released)
    BY <1>5, <2>1 DEF AccountDoc, SameCommand, SameIdentity
  <2>3. PICK ended : ended = EndTrial(released, "BREACHED")
    OBVIOUS
  <2>4. SameCommand(released, ended) /\ ended \in AccountDoc
    BY <2>2, <2>3, EndTrialDecides, EndTrialRecords DEF SameRecords, TrialResults
  <2>5. PICK b : b = IF ended.breach = None THEN SnapshotBreach(e) ELSE ended.breach
    OBVIOUS
  <2>6. SnapshotBreached(decided, e) = [ended EXCEPT !.breach = b]
    BY <2>1, <2>3, <2>5 DEF SnapshotBreached
  <2> QED
    BY <2>2, <2>4, <2>6 DEF SameCommand, SameIdentity, AccountDoc
<1>7. \/ SnapshotOutcome(doc, e) = valued
      \/ d # NoDecision /\ SnapshotOutcome(doc, e) \in {decided, SnapshotBreached(decided, e)}
  <2>1. SnapshotOutcome(doc, e) \in {valued, Decide(valued, e)}
    BY <1>1 DEF SnapshotOutcome
  <2>2. ASSUME d # NoDecision
        PROVE  Decide(valued, e) = IF d.status = "BREACHED" THEN SnapshotBreached(decided, e) ELSE decided
    BY <1>3, <1>4, <2>2 DEF Decide
  <2>3. d = NoDecision => Decide(valued, e) = valued
    BY <1>3 DEF Decide
  <2>4. CASE d = NoDecision
    BY <2>1, <2>3, <2>4
  <2>5. CASE d # NoDecision
    <3>1. Decide(valued, e) \in {decided, SnapshotBreached(decided, e)}
      BY <2>2, <2>5
    <3> QED
      BY <2>1, <2>5, <3>1
  <2> QED
    BY <2>4, <2>5
<1>8. SnapshotOutcome(doc, e) \in AccountDoc
  BY SnapshotRecords DEF SameRecords
<1>9. ASSUME d # NoDecision, NEW new, SameCommand(decided, new)
      PROVE  new.status # doc.status /\ PendingCommandValid(new) /\ SameIdentity(doc, new)
  BY <1>2, <1>5, <1>9 DEF SameCommand, SameIdentity, PendingCommandValid, CommandStillValid
<1>10. SameCommand(decided, decided)
  BY DEF SameCommand, SameIdentity
<1>11. CASE SnapshotOutcome(doc, e) = valued
  BY <1>2, <1>8, <1>11 DEF DecidesWell, SameCommand
<1>12. CASE d # NoDecision /\ SnapshotOutcome(doc, e) \in {decided, SnapshotBreached(decided, e)}
  BY <1>6, <1>8, <1>9, <1>10, <1>12 DEF DecidesWell
<1> QED
  BY <1>7, <1>11, <1>12

(* What a save of modified paths does to the status and the command.       *)
LEMMA WrittenCommand ==
  ASSUME NEW current, NEW loaded, NEW modified
  PROVE  LET new == WriteModified(current, loaded, modified)
         IN  /\ SameIdentity(current, new)
             /\ new.status = IF modified.status # loaded.status
                             THEN modified.status ELSE current.status
             /\ new.commandPending = IF modified.commandPending # loaded.commandPending
                                     THEN modified.commandPending ELSE current.commandPending
BY DEF WriteModified, SameIdentity

LEMMA SameCommandValid ==
  ASSUME NEW old, NEW new, SameCommand(old, new), PendingCommandValid(old)
  PROVE  PendingCommandValid(new)
BY DEF SameCommand, SameIdentity, PendingCommandValid, CommandStillValid

(* A guarded commit: the account has the status the copy was read with, and *)
(* its command or none. So a decision's status and command are both        *)
(* written, or the command was withdrawn meanwhile.                        *)
LEMMA CommitMatches ==
  ASSUME NEW w \in Workers, pc[w] \in Handling, ReadCurrent(w), PendingCommandValid(account),
         account \in AccountDoc, event[w] \in Events,
         NEW next, DecidesWell(read[w], next), GuardHolds(w), Commit(w, next)
  PROVE  /\ PendingCommandValid(account')
         /\ account'.version = account.version + 1
         /\ account'.accountMode = account.accountMode
         /\ account'.challengeType = account.challengeType
<1>1. event[w].id \in EventIds /\ next \in AccountDoc /\ account.version \in Nat
  BY EventsAssumption DEF EventDoc, DecidesWell, AccountDoc
<1>2. PICK marked : marked = [next EXCEPT !.lastProcessedEventId = event[w].id]
  OBVIOUS
<1>3. SameCommand(next, marked)
  BY <1>1, <1>2 DEF SameCommand, SameIdentity, AccountDoc
<1>4. PICK new : new = WriteModified(account, read[w], marked)
  OBVIOUS
<1>5. /\ SameIdentity(account, new)
      /\ new.status = IF marked.status # read[w].status
                      THEN marked.status ELSE account.status
      /\ new.commandPending = IF marked.commandPending # read[w].commandPending
                              THEN marked.commandPending ELSE account.commandPending
  BY <1>4, WrittenCommand
<1>6. account' = [new EXCEPT !.version = account.version + 1]
  BY <1>2, <1>4 DEF Commit
<1>7. /\ account'.version = account.version + 1
      /\ account'.accountMode = account.accountMode
      /\ account'.challengeType = account.challengeType
      /\ account'.status = new.status /\ account'.commandPending = new.commandPending
  BY <1>4, <1>5, <1>6 DEF WriteModified, SameIdentity
<1>8. /\ account.status = read[w].status
      /\ account.commandPending \in {read[w].commandPending, None}
      /\ read[w].accountMode = account.accountMode
      /\ read[w].challengeType = account.challengeType
  BY DEF GuardHolds, ReadCurrent
<1>9. CASE SameCommand(read[w], next)
  <2>1. new.status = account.status /\ new.commandPending = account.commandPending
    BY <1>3, <1>5, <1>9 DEF SameCommand
  <2> QED
    BY <1>7, <2>1 DEF PendingCommandValid, CommandStillValid
<1>10. CASE next.commandPending = None
  <2>1. new.commandPending = None
    BY <1>3, <1>5, <1>8, <1>10 DEF SameCommand
  <2> QED
    BY <1>7, <2>1 DEF PendingCommandValid
<1>11. CASE next.status # read[w].status /\ PendingCommandValid(next)
  <2>1. new.status = next.status /\ new.commandPending \in {next.commandPending, None}
    BY <1>3, <1>5, <1>8, <1>11 DEF SameCommand
  <2>2. /\ next.accountMode = account.accountMode
        /\ next.challengeType = account.challengeType
    BY <1>8 DEF DecidesWell, SameIdentity
  <2> QED
    BY <1>7, <1>11, <2>1, <2>2 DEF PendingCommandValid, CommandStillValid
<1> QED
  BY <1>7, <1>9, <1>10, <1>11 DEF DecidesWell

(* What a step of engine worker w does to the account, and to its copy.    *)
Reads(w) ==
  /\ \/ account' = account
     \/ /\ PendingCommandValid(account')
        /\ account'.version = account.version + 1
        /\ account'.accountMode = account.accountMode
        /\ account'.challengeType = account.challengeType
  /\ pc'[w] \in Handling =>
       \/ account' = account /\ read'[w] = account
       \/ pc[w] \in Handling /\ read'[w] = read[w]

LEMMA ForgetReads ==
  ASSUME TypeOK, NEW w \in Workers, FinishEvent(w) \/ FailBatch(w) \/ Crash(w)
  PROVE  pc'[w] \notin Handling
<1>1. PICK next \in {"idle", "load"} : Forget(w, next)
  BY DEF FinishEvent, FailBatch, Crash
<1> QED
  BY <1>1 DEF Forget, TypeOK, Handling

LEMMA SaveReads ==
  ASSUME LifecycleInv, MatchInv, NEW w \in Workers, pc[w] \in {"handle", "save"},
         NEW next, DecidesWell(read[w], next), NEW outgoing, SaveConditional(w, next, outgoing)
  PROVE  Reads(w)
<1>1. /\ TypeOK /\ pc[w] \in Handling /\ account \in AccountDoc /\ event[w] \in Events
      /\ ReadCurrent(w) /\ PendingCommandValid(account)
  BY DEF LifecycleInv, LifecycleTypeOK, TypeOK, WorkerSound, Arrived, Handling, MatchInv
<1>2. CASE GuardHolds(w) /\ Commit(w, next)
  <2>1. /\ PendingCommandValid(account')
        /\ account'.version = account.version + 1
        /\ account'.accountMode = account.accountMode
        /\ account'.challengeType = account.challengeType
    BY <1>1, <1>2, CommitMatches
  <2>2. pc'[w] \notin Handling \/ read' = read
    BY <1>1, <1>2, ForgetReads DEF SaveConditional, GuardHolds
  <2> QED
    BY <1>1, <2>1, <2>2 DEF Reads
<1>3. CASE FailBatch(w) /\ UNCHANGED account
  BY <1>1, <1>3, ForgetReads DEF Reads
<1> QED
  BY <1>2, <1>3 DEF SaveConditional

LEMMA WorkerStepReads ==
  ASSUME LifecycleInv, MatchInv, NEW w \in Workers,
         TakeBatch(w) \/ WorkerStep(w) \/ SendFails(w) \/ Crash(w)
  PROVE  Reads(w)
<1>0. /\ TypeOK /\ WorkerSound(w)
  BY DEF LifecycleInv, LifecycleTypeOK
<1>1. pc[w] \in Handling =>
        event[w] \in Events /\ event[w] \in EventDoc /\ read[w] \in AccountDoc
  BY <1>0, EventsAssumption DEF WorkerSound, Arrived, DocSound
<1>2. CASE TakeBatch(w)
  <2>1. pc'[w] = "load" /\ account' = account
    BY <1>0, <1>2 DEF TakeBatch, TypeOK
  <2> QED
    BY <2>1 DEF Reads, Handling
<1>3. CASE Load(w)
  <2>1. read'[w] = account /\ account' = account
    BY <1>0, <1>3 DEF Load, TypeOK
  <2> QED
    BY <2>1 DEF Reads
<1>4. CASE HandleDuplicate(w)
  <2>1. account' = account /\ pc[w] \in Handling /\ (FinishEvent(w) \/ read' = read)
    BY <1>4 DEF HandleDuplicate, Handling
  <2> QED
    BY <1>0, <2>1, ForgetReads DEF Reads
<1>5. CASE HandleIgnored(w)
  <2>1. pc[w] \in Handling /\ pc[w] = "handle"
    BY <1>5 DEF HandleIgnored, Handling
  <2>2. DecidesWell(read[w], read[w])
    BY <1>1, <2>1 DEF DecidesWell, SameCommand, SameIdentity
  <2> QED
    BY <1>5, <2>1, <2>2, SaveReads DEF HandleIgnored
<1>6. CASE HandleControl(w)
  <2>1. pc[w] \in Handling /\ pc[w] = "handle" /\ event[w].type = "CONTROL"
    BY <1>6 DEF HandleControl, Applies, Handling
  <2> QED
    BY <1>1, <1>6, <2>1, ControlDecides, SaveReads DEF HandleControl
<1>7. CASE HandleDeal(w)
  <2>1. pc[w] \in Handling /\ pc[w] \in {"handle", "save"} /\ days[w] \in Nat
    BY <1>0, <1>7 DEF HandleDeal, Applies, Handling, TypeOK
  <2> QED
    BY <1>1, <1>7, <2>1, DealDecides, SaveReads DEF HandleDeal
<1>8. CASE HandleSnapshot(w)
  <2>1. pc[w] \in Handling /\ pc[w] = "handle"
    BY <1>8 DEF HandleSnapshot, Applies, Handling
  <2> QED
    BY <1>1, <1>8, <2>1, SnapshotDecides, SaveReads DEF HandleSnapshot
<1>9. CASE RecordTradingDay(w) \/ CountTradingDays(w)
  <2>1. account' = account /\ pc[w] \in Handling /\ read' = read
    BY <1>9 DEF RecordTradingDay, Applies, CountTradingDays, Handling
  <2> QED
    BY <2>1 DEF Reads
<1>10. CASE SendCommand(w) \/ SendFails(w) \/ Crash(w)
  <2>1. account' = account /\ (FinishEvent(w) \/ FailBatch(w) \/ Crash(w))
    BY <1>10 DEF SendCommand, SendFails, Crash
  <2> QED
    BY <1>0, <2>1, ForgetReads DEF Reads
<1> QED
  BY <1>2, <1>3, <1>4, <1>5, <1>6, <1>7, <1>8, <1>9, <1>10 DEF WorkerStep

LEMMA EngineStepMatches ==
  ASSUME LifecycleInv, MatchInv, EngineStep
  PROVE  MatchInv'
<1>0. /\ UNCHANGED <<trader, cpc, command, copy, base>>
      /\ TypeOK /\ account \in AccountDoc /\ account.version \in Nat
  BY DEF EngineStep, commandVars, LifecycleInv, LifecycleTypeOK, TypeOK, AccountDoc
<1>1. ASSUME NEW w \in Workers, TakeBatch(w) \/ WorkerStep(w) \/ SendFails(w) \/ Crash(w)
      PROVE  MatchInv'
  <2>1. Reads(w) /\ OthersUnchanged(w)
    BY <1>0, <1>1, WorkerStepReads, WorkerStepMoves DEF Moves
  <2>2. PendingCommandValid(account')
    BY <2>1 DEF Reads, MatchInv
  <2>3. ASSUME NEW v \in Workers PROVE ReadCurrent(v)'
    <3> SUFFICES ASSUME pc'[v] \in Handling
                 PROVE  /\ read'[v].accountMode = account'.accountMode
                        /\ read'[v].challengeType = account'.challengeType
                        /\ read'[v].version <= account'.version
                        /\ read'[v].version = account'.version =>
                             account'.commandPending \in {read'[v].commandPending, None}
      BY DEF ReadCurrent
    <3>1. CASE account' = account /\ read'[v] = account
      BY <1>0, <3>1
    <3>2. CASE pc[v] \in Handling /\ read'[v] = read[v]
      <4>1. ReadCurrent(v) /\ WorkerSound(v)
        BY DEF MatchInv, LifecycleInv
      <4>2. /\ read[v].accountMode = account.accountMode
            /\ read[v].challengeType = account.challengeType
            /\ read[v].version <= account.version
            /\ read[v].version = account.version =>
                 account.commandPending \in {read[v].commandPending, None}
            /\ read[v].version \in Nat
        BY <3>2, <4>1 DEF ReadCurrent, WorkerSound, DocSound, AccountDoc
      <4>3. CASE account' = account
        BY <3>2, <4>2, <4>3
      <4>4. CASE /\ account'.version = account.version + 1
                 /\ account'.accountMode = account.accountMode
                 /\ account'.challengeType = account.challengeType
        BY <1>0, <3>2, <4>2, <4>4
      <4> QED
        BY <2>1, <4>3, <4>4 DEF Reads
    <3> QED
      BY <2>1, <3>1, <3>2 DEF Reads, OthersUnchanged
  <2> QED
    BY <1>0, <2>2, <2>3 DEF MatchInv
<1>2. CASE Sweep
  <2>1. UNCHANGED <<account, pc, read>>
    BY <1>2 DEF Sweep, SweepFinds, SweepSends, workerVars
  <2> QED
    BY <1>0, <2>1 DEF MatchInv, ReadCurrent, PendingCommandValid, CommandStillValid
<1> QED
  BY <1>1, <1>2 DEF EngineStep

(* What a command worker, or the platform, may do to the account.          *)
Withdraws(old, new) ==
  /\ SameIdentity(old, new)
  /\ new.commandPending \in {old.commandPending, None}
  /\ PendingCommandValid(new)

LEMMA SameCommandWithdraws ==
  ASSUME NEW old, NEW new, SameCommand(old, new), PendingCommandValid(old)
  PROVE  Withdraws(old, new)
BY SameCommandValid DEF Withdraws, SameCommand

(* What a step of command worker c has to show: where it goes on.          *)
Answers(c, s, k, modified, loaded) ==
  /\ cpc' = [cpc EXCEPT ![c] = s]
  /\ command' = [command EXCEPT ![c] = k]
  /\ copy' = [copy EXCEPT ![c] = modified]
  /\ base' = [base EXCEPT ![c] = loaded]
  /\ CommandCurrent(s, k, modified, loaded)

LEMMA CommandStepMatches ==
  ASSUME LifecycleInv, MatchInv, NEW c \in CommandWorkers,
         NEW s, NEW k, NEW modified, NEW loaded, Answers(c, s, k, modified, loaded),
         UNCHANGED workerVars, Withdraws(account, account')
  PROVE  MatchInv'
<1>1. LifecycleTypeOK
  BY DEF LifecycleInv
<1>2. ASSUME NEW w \in Workers PROVE ReadCurrent(w)'
  <2>1. ReadCurrent(w) /\ pc' = pc /\ read' = read
    BY DEF MatchInv, workerVars
  <2>2. /\ account'.version = account.version
        /\ account'.accountMode = account.accountMode
        /\ account'.challengeType = account.challengeType
        /\ account'.commandPending \in {account.commandPending, None}
    BY DEF Withdraws, SameIdentity
  <2> QED
    BY <2>1, <2>2 DEF ReadCurrent
<1>3. ASSUME NEW d \in CommandWorkers
      PROVE  CommandCurrent(cpc'[d], command'[d], copy'[d], base'[d])
  <2>1. CASE d = c
    BY <1>1, <2>1 DEF Answers, LifecycleTypeOK
  <2>2. CASE d # c
    <3>1. CommandCurrent(cpc[d], command[d], copy[d], base[d])
      BY DEF MatchInv
    <3>2. /\ cpc'[d] = cpc[d] /\ command'[d] = command[d] /\ copy'[d] = copy[d]
          /\ base'[d] = base[d]
      BY <1>1, <2>2 DEF Answers, LifecycleTypeOK
    <3> QED
      BY <3>1, <3>2
  <2> QED
    BY <2>1, <2>2
<1> QED
  BY <1>2, <1>3 DEF MatchInv, Withdraws

(* A step into a state of which nothing is said.                           *)
LEMMA OnwardMatches ==
  ASSUME LifecycleInv, MatchInv, NEW c \in CommandWorkers,
         NEW s, cpc' = [cpc EXCEPT ![c] = s], s \notin Unmodified \cup {"save"},
         \E k : command' = [command EXCEPT ![c] = k],
         \E modified : copy' = [copy EXCEPT ![c] = modified],
         \E loaded : base' = [base EXCEPT ![c] = loaded],
         UNCHANGED workerVars, Withdraws(account, account')
  PROVE  MatchInv'
<1>1. PICK k, modified, loaded :
        /\ command' = [command EXCEPT ![c] = k]
        /\ copy' = [copy EXCEPT ![c] = modified]
        /\ base' = [base EXCEPT ![c] = loaded]
  OBVIOUS
<1>2. CommandCurrent(s, k, modified, loaded)
  BY DEF CommandCurrent, Unmodified
<1>3. Answers(c, s, k, modified, loaded)
  BY <1>1, <1>2 DEF Answers
<1> QED
  BY <1>3, CommandStepMatches

(* What is known of command worker c, and of an account left as it is.     *)
LEMMA MatchFacts ==
  ASSUME LifecycleInv, MatchInv, NEW c \in CommandWorkers
  PROVE  /\ PendingCommandValid(account)
         /\ CommandCurrent(cpc[c], command[c], copy[c], base[c])
         /\ account' = account => Withdraws(account, account')
         /\ command' = command => command' = [command EXCEPT ![c] = command[c]]
         /\ copy' = copy => copy' = [copy EXCEPT ![c] = copy[c]]
         /\ base' = base => base' = [base EXCEPT ![c] = base[c]]
<1>1. PendingCommandValid(account) /\ SameCommand(account, account)
  BY DEF MatchInv, SameCommand, SameIdentity
<1>2. Withdraws(account, account)
  BY <1>1, SameCommandWithdraws
<1> QED
  BY <1>1, <1>2, CommandFacts DEF MatchInv

LEMMA FailJobMatches ==
  ASSUME LifecycleInv, MatchInv, NEW c \in CommandWorkers, EndJob(c),
         UNCHANGED workerVars, Withdraws(account, account')
  PROVE  MatchInv'
BY OnwardMatches DEF EndJob, Unmodified

LEMMA FirstStepCurrent ==
  ASSUME NEW doc, NEW k \in Commands
  PROVE  CommandCurrent(FirstStep(k, doc), k, doc, doc)
<1>1. CASE ~CommandStillValid(doc, k)
  <2>1. FirstStep(k, doc) = "clear"
    BY <1>1 DEF FirstStep
  <2> QED
    BY <2>1 DEF CommandCurrent, Unmodified
<1>2. CASE CommandStillValid(doc, k)
  <2>1. doc.commandPending = k /\ k # None
        /\ (k = "ENTER_FUNDED_REVIEW" => doc.status = "FUNDED_REVIEW")
    BY <1>2, NoneIsNoData DEF CommandStillValid
  <2>2. FirstStep(k, doc) = "review" => k = "ENTER_FUNDED_REVIEW"
    BY DEF FirstStep, Confirmed, Commands
  <2>3. FirstStep(k, doc) # "save"
    BY DEF FirstStep, Confirmed, Commands
  <2> QED
    BY <2>1, <2>2, <2>3 DEF CommandCurrent
<1> QED
  BY <1>1, <1>2

LEMMA QuietStepMatches ==
  ASSUME LifecycleInv, MatchInv, NEW c \in CommandWorkers,
         \/ TakeCommand(c) \/ ReadAccount(c) \/ LockRemote(c) \/ StageSuperseded(c)
         \/ Activate(c) \/ Unstage(c)
  PROVE  MatchInv'
<1>0. UNCHANGED <<account, workerVars>>
  BY DEF TakeCommand, ReadAccount, LockRemote, StageSuperseded, Activate, Unstage, engineVars
<1>1. CASE TakeCommand(c)
  <2>1. /\ cpc' = [cpc EXCEPT ![c] = "start"] /\ copy' = copy /\ base' = base
        /\ \E k : command' = [command EXCEPT ![c] = k]
    BY <1>1 DEF TakeCommand, Goto
  <2> QED
    BY <1>0, <2>1, MatchFacts, OnwardMatches DEF Unmodified
<1>2. CASE ReadAccount(c)
  <2>1. /\ cpc' = [cpc EXCEPT ![c] = FirstStep(command[c], account)]
        /\ copy' = [copy EXCEPT ![c] = account] /\ base' = [base EXCEPT ![c] = account]
        /\ command' = command /\ cpc[c] = "start"
    BY <1>2 DEF ReadAccount, Goto, At
  <2>2. command[c] \in Commands
    BY <2>1, CommandFacts
  <2>3. Answers(c, FirstStep(command[c], account), command[c], account, account)
    BY <2>1, <2>2, MatchFacts, FirstStepCurrent DEF Answers
  <2> QED
    BY <1>0, <2>3, MatchFacts, CommandStepMatches
<1>3. CASE LockRemote(c) \/ StageSuperseded(c) \/ Activate(c) \/ Unstage(c)
  <2>1. PICK s \in {"disableLaunch", "clear", "open", "shut"} :
          cpc' = [cpc EXCEPT ![c] = s] /\ UNCHANGED <<command, copy, base>>
    BY <1>3 DEF LockRemote, StageSuperseded, Activate, Unstage, Goto
  <2> QED
    BY <1>0, <2>1, MatchFacts, OnwardMatches DEF Unmodified
<1> QED
  BY <1>1, <1>2, <1>3

(* The platform's answer, before anything is saved.                        *)
LEMMA FetchRemoteMatches ==
  ASSUME LifecycleInv, MatchInv, NEW c \in CommandWorkers, FetchRemote(c)
  PROVE  MatchInv'
<1>1. PICK p, remote, valued :
        p = Record(c) /\ remote = trader[p] /\ valued = [copy[c] EXCEPT !.valuation.level = remote.level]
  OBVIOUS
<1>2. /\ cpc[c] = "fetch" /\ copy[c] \in AccountDoc /\ command[c] # "LOCK_ACCOUNT"
      /\ p \in PlatformIds /\ TraderSound(trader)
  BY <1>1, CommandFacts DEF FetchRemote, At, CommandSound
<1>3. SameCommand(copy[c], valued) /\ valued \in AccountDoc
  <2>1. PICK v : v = [copy[c].valuation EXCEPT !.level = remote.level]
    OBVIOUS
  <2>2. valued = [copy[c] EXCEPT !.valuation = v]
    BY <1>1, <2>1
  <2>3. SameCommand(copy[c], valued)
    BY <1>2, <2>2 DEF SameCommand, SameIdentity, AccountDoc
  <2>4. valued \in AccountDoc
    BY <1>1, <1>2, ValuedIs DEF SameRecords, TraderSound, TraderAccount
  <2> QED
    BY <2>3, <2>4
<1>4. CommandCurrent("fetch", command[c], copy[c], base[c])
  BY <1>2, MatchFacts
<1>5. ASSUME NEW s \in {"disable", "resume", "complete"}
      PROVE  CommandCurrent(s, command[c], valued, base[c])
  BY <1>3, <1>4 DEF CommandCurrent, Unmodified, SameCommand
<1>6. ASSUME NEW status
      PROVE  CommandCurrent("save", command[c], TerminalCopy(valued, p, status), base[c])
  <2>1. PICK ended : ended = [valued EXCEPT !.platformStatus[p] = status, !.status = status,
                                            !.enabled = FALSE, !.commandPending = None]
    OBVIOUS
  <2>2. ended.commandPending = None
    BY <1>3, <2>1 DEF AccountDoc
  <2>3. EndTrial(ended, "BREACHED").commandPending = None
    BY <1>3, <2>1, <2>2 DEF EndTrial, AccountDoc
  <2>4. [ended EXCEPT !.activeTrialKey = FALSE].commandPending = None
    BY <1>3, <2>1, <2>2 DEF AccountDoc
  <2>5. TerminalCopy(valued, p, status) \in
          {ended, EndTrial(ended, "BREACHED"), [ended EXCEPT !.activeTrialKey = FALSE]}
    BY <2>1 DEF TerminalCopy
  <2>6. TerminalCopy(valued, p, status).commandPending = None
    BY <2>2, <2>3, <2>4, <2>5
  <2> QED
    BY <1>4, <2>6 DEF CommandCurrent, Unmodified
<1>7. ASSUME NEW s, NEW modified, CommandCurrent(s, command[c], modified, base[c]),
             cpc' = [cpc EXCEPT ![c] = s], copy' = [copy EXCEPT ![c] = modified],
             UNCHANGED <<engineVars, command, base>>
      PROVE  MatchInv'
  <2>1. Answers(c, s, command[c], modified, base[c])
    BY <1>7, MatchFacts DEF Answers
  <2> QED
    BY <1>7, <2>1, MatchFacts, CommandStepMatches DEF engineVars
<1>8. CASE /\ copy' = [copy EXCEPT ![c] = TerminalCopy(valued, p, remote.status)]
           /\ Goto(c, "save")
           /\ UNCHANGED <<engineVars, command, base>>
  BY <1>6, <1>7, <1>8 DEF Goto
<1>9. ASSUME NEW s \in {"disable", "resume", "complete"}, copy' = [copy EXCEPT ![c] = valued],
             Goto(c, s), UNCHANGED <<engineVars, command, base>>
      PROVE  MatchInv'
  BY <1>5, <1>7, <1>9 DEF Goto
<1>10. CASE FailJob(c) /\ UNCHANGED <<account, dayRows, job, sweep, workerVars, faults>>
  BY <1>10, FailJobMatches, MatchFacts DEF FailJob
<1> QED
  BY <1>1, <1>8, <1>9, <1>10 DEF FetchRemote

LEMMA ResumeMatches ==
  ASSUME LifecycleInv, MatchInv, NEW c \in CommandWorkers, Resume(c)
  PROVE  MatchInv'
<1>1. /\ cpc[c] = "resume" /\ cpc' = [cpc EXCEPT ![c] = "save"]
      /\ UNCHANGED <<engineVars, command, base>>
  BY DEF Resume, At, Goto
<1>2. copy[c] \in AccountDoc
  BY <1>1, CommandFacts
<1>3. PICK p, status : /\ p = Record(c)
                       /\ status = TradablePhaseStatus(copy[c], FinalizedPhase(command[c], copy[c]))
  OBVIOUS
<1>4. PICK modified : modified = [copy[c] EXCEPT !.platformStatus[p] = "ACTIVE", !.status = status,
                                                 !.enabled = TRUE, !.commandPending = None]
  OBVIOUS
<1>5. modified.commandPending = None
  BY <1>2, <1>4 DEF AccountDoc
<1>6. copy' = [copy EXCEPT ![c] = modified]
  BY <1>2, <1>3, <1>4 DEF Resume
<1>7. CommandCurrent("save", command[c], modified, base[c])
  BY <1>1, <1>5, MatchFacts DEF CommandCurrent, Unmodified
<1>8. Answers(c, "save", command[c], modified, base[c])
  BY <1>1, <1>6, <1>7, MatchFacts DEF Answers
<1> QED
  BY <1>1, <1>8, MatchFacts, CommandStepMatches DEF engineVars

(* The unconditional saves.                                                *)
LEMMA SaveResultMatches ==
  ASSUME LifecycleInv, MatchInv, NEW c \in CommandWorkers, SaveResult(c)
  PROVE  MatchInv'
<1>1. /\ cpc[c] = "save" /\ cpc' = [cpc EXCEPT ![c] = "clear"] /\ command' = command
      /\ account' = WriteModified(account, base[c], copy[c])
      /\ copy' = [copy EXCEPT ![c] = copy[c]] /\ base' = [base EXCEPT ![c] = copy[c]]
      /\ UNCHANGED workerVars
  BY DEF SaveResult, At, Goto, Save, EngineExceptAccount
<1>2. base[c].commandPending # None /\ copy[c].commandPending = None
  BY <1>1, MatchFacts DEF CommandCurrent
<1>3. SameIdentity(account, account') /\ account'.commandPending = None
  BY <1>1, <1>2, WrittenCommand
<1>4. Withdraws(account, account')
  BY <1>3 DEF Withdraws, PendingCommandValid
<1> QED
  BY <1>1, <1>4, MatchFacts, OnwardMatches DEF Unmodified

(* A copy saved with the status and the command it was read with leaves    *)
(* those of the account alone.                                             *)
LEMMA UnmodifiedSaved ==
  ASSUME NEW loaded, NEW modified, PendingCommandValid(account),
         modified.status = loaded.status, modified.commandPending = loaded.commandPending
  PROVE  SameCommand(account, WriteModified(account, loaded, modified))
         /\ Withdraws(account, WriteModified(account, loaded, modified))
BY WrittenCommand, SameCommandWithdraws DEF SameCommand

LEMMA CompletePhaseMatches ==
  ASSUME LifecycleInv, MatchInv, NEW c \in CommandWorkers, CompletePhase(c)
  PROVE  MatchInv'
<1>1. PICK modified : modified = [copy[c] EXCEPT !.platformStatus[Record(c)] = "COMPLETED"]
  OBVIOUS
<1>2. /\ cpc[c] = "complete" /\ cpc' = [cpc EXCEPT ![c] = Confirmed(command[c])]
      /\ command' = command /\ account' = WriteModified(account, base[c], modified)
      /\ copy' = [copy EXCEPT ![c] = modified] /\ base' = [base EXCEPT ![c] = modified]
      /\ UNCHANGED workerVars
  BY <1>1 DEF CompletePhase, At, Goto, Save, EngineExceptAccount
<1>3. /\ copy[c] \in AccountDoc /\ command[c] \in Commands \ {"LOCK_ACCOUNT"}
      /\ CommandCurrent("complete", command[c], copy[c], base[c])
  BY <1>2, CommandFacts, MatchFacts DEF CommandSound
<1>4. modified.status = copy[c].status /\ modified.commandPending = copy[c].commandPending
  BY <1>1, <1>3 DEF AccountDoc
<1>5. /\ modified.status = base[c].status /\ modified.commandPending = base[c].commandPending
      /\ command[c] = "ENTER_FUNDED_REVIEW" => modified.status = "FUNDED_REVIEW"
  BY <1>3, <1>4 DEF CommandCurrent, Unmodified
<1>6. Withdraws(account, account')
  BY <1>2, <1>5, MatchFacts, UnmodifiedSaved
<1>7. \/ command[c] = "ENTER_FUNDED_REVIEW" /\ Confirmed(command[c]) = "review"
      \/ Confirmed(command[c]) \in {"provision", "trial"}
  BY <1>3 DEF Confirmed, Commands
<1>8. CommandCurrent(Confirmed(command[c]), command[c], modified, modified)
  BY <1>5, <1>7 DEF CommandCurrent
<1>9. Answers(c, Confirmed(command[c]), command[c], modified, modified)
  BY <1>2, <1>8, MatchFacts DEF Answers
<1> QED
  BY <1>2, <1>6, <1>9, CommandStepMatches

LEMMA EnterFundedReviewMatches ==
  ASSUME LifecycleInv, MatchInv, NEW c \in CommandWorkers, EnterFundedReview(c)
  PROVE  MatchInv'
<1>1. PICK modified : modified = [copy[c] EXCEPT !.enabled = FALSE, !.status = "FUNDED_REVIEW",
                                                 !.platformStatus[Record(c)] = "COMPLETED"]
  OBVIOUS
<1>2. /\ cpc[c] = "review" /\ cpc' = [cpc EXCEPT ![c] = "clear"]
      /\ command' = command /\ account' = WriteModified(account, base[c], modified)
      /\ copy' = [copy EXCEPT ![c] = modified] /\ base' = [base EXCEPT ![c] = modified]
      /\ UNCHANGED workerVars
  BY <1>1 DEF EnterFundedReview, At, Goto, Save, EngineExceptAccount
<1>3. copy[c] \in AccountDoc /\ CommandCurrent("review", command[c], copy[c], base[c])
  BY <1>2, CommandFacts, MatchFacts
<1>4. modified.status = "FUNDED_REVIEW" /\ modified.commandPending = copy[c].commandPending
  BY <1>1, <1>3 DEF AccountDoc
<1>5. modified.status = base[c].status /\ modified.commandPending = base[c].commandPending
  BY <1>3, <1>4 DEF CommandCurrent, Unmodified
<1>6. Withdraws(account, account')
  BY <1>2, <1>5, MatchFacts, UnmodifiedSaved
<1> QED
  BY <1>2, <1>6, MatchFacts, OnwardMatches DEF Unmodified

(* The promotion.                                                          *)
LEMMA ProvisionMatches ==
  ASSUME LifecycleInv, MatchInv, NEW c \in CommandWorkers, Provision(c)
  PROVE  MatchInv'
<1>1. PICK p, status : /\ p = PhaseAccount[2]
                       /\ status = IF trader[p].status = None THEN "PAUSED" ELSE trader[p].status
  OBVIOUS
<1>2. PICK modified : modified = [copy[c] EXCEPT !.platformStatus[p] = status, !.platformAccountId = p]
  OBVIOUS
<1>3. /\ cpc[c] = "provision" /\ cpc' = [cpc EXCEPT ![c] = "savePhase"]
      /\ copy' = [copy EXCEPT ![c] = modified] /\ UNCHANGED <<engineVars, command, base>>
  BY <1>1, <1>2 DEF Provision, At, Goto
<1>4. copy[c] \in AccountDoc /\ CommandCurrent("provision", command[c], copy[c], base[c])
  BY <1>3, CommandFacts, MatchFacts
<1>5. modified.status = copy[c].status /\ modified.commandPending = copy[c].commandPending
  BY <1>2, <1>4 DEF AccountDoc
<1>6. CommandCurrent("savePhase", command[c], modified, base[c])
  BY <1>4, <1>5 DEF CommandCurrent, Unmodified
<1>7. Answers(c, "savePhase", command[c], modified, base[c])
  BY <1>3, <1>6, MatchFacts DEF Answers
<1> QED
  BY <1>3, <1>7, MatchFacts, CommandStepMatches DEF engineVars

LEMMA SavePhaseMatches ==
  ASSUME LifecycleInv, MatchInv, NEW c \in CommandWorkers, SavePhase(c)
  PROVE  MatchInv'
<1>1. PICK saved : saved = WriteModified(account, base[c], copy[c])
  OBVIOUS
<1>2. /\ cpc[c] = "savePhase" /\ cpc' = [cpc EXCEPT ![c] = "commit"]
      /\ account' \in {saved, [saved EXCEPT !.platformStatus = copy[c].platformStatus]}
      /\ base' = [base EXCEPT ![c] = copy[c]] /\ UNCHANGED <<copy, command, workerVars>>
  BY <1>1 DEF SavePhase, At, Goto, EngineExceptAccount
<1>3. CommandCurrent("savePhase", command[c], copy[c], base[c]) /\ PendingCommandValid(account)
  BY <1>2, MatchFacts
<1>4. copy[c].status = base[c].status /\ copy[c].commandPending = base[c].commandPending
  BY <1>3 DEF CommandCurrent, Unmodified
<1>5. SameCommand(account, saved)
  BY <1>1, <1>3, <1>4, UnmodifiedSaved
<1>6. SameCommand(saved, [saved EXCEPT !.platformStatus = copy[c].platformStatus])
  BY <1>1 DEF WriteModified, SameCommand, SameIdentity
<1>7. SameCommand(account, account')
  BY <1>2, <1>5, <1>6 DEF SameCommand, SameIdentity
<1>8. Withdraws(account, account')
  BY <1>3, <1>7, SameCommandWithdraws
<1> QED
  BY <1>2, <1>8, MatchFacts, OnwardMatches DEF Unmodified

LEMMA CommitPhaseTwoMatches ==
  ASSUME LifecycleInv, MatchInv, NEW c \in CommandWorkers, CommitPhaseTwo(c)
  PROVE  MatchInv'
<1>1. /\ UNCHANGED <<command, workerVars>> /\ account \in AccountDoc /\ PendingCommandValid(account)
  BY CommandFacts, MatchFacts DEF CommitPhaseTwo, EngineExceptAccount
<1>2. CASE /\ MayCommitPhaseTwo(account)
           /\ account' = PhaseTwoReset(account)
           /\ copy' = [copy EXCEPT ![c] = account']
           /\ base' = [base EXCEPT ![c] = account']
           /\ Goto(c, "activate")
  <2>1. PICK v : v = [level |-> "NORMAL", at |-> 0]
    OBVIOUS
  <2>2. account' = [account EXCEPT !.currentPhase = 2, !.status = "PHASE_2", !.enabled = FALSE,
                      !.commandPending = "CREATE_PHASE_2_ACCOUNT", !.valuation = v,
                      !.lastSnapshotAt = 0, !.lastSnapshotSequence = 0,
                      !.tradingDays = 0, !.totalTrades = 0, !.breach = None]
    BY <1>2, <2>1 DEF PhaseTwoReset
  <2>3. /\ SameIdentity(account, account') /\ account'.status = "PHASE_2"
        /\ account'.commandPending = "CREATE_PHASE_2_ACCOUNT"
    BY <1>1, <2>2 DEF AccountDoc, SameIdentity
  <2>4. account.commandPending = "CREATE_PHASE_2_ACCOUNT" /\ account.challengeType = "TWO_STEP"
    BY <1>1, <1>2, NoneIsNoData
       DEF MayCommitPhaseTwo, PendingCommandValid, CommandStillValid, Commands
  <2>5. Withdraws(account, account')
    BY <2>3, <2>4 DEF Withdraws, PendingCommandValid, CommandStillValid, SameIdentity
  <2> QED
    BY <1>1, <1>2, <2>5, MatchFacts, OnwardMatches DEF Goto, Unmodified
<1>3. CASE Goto(c, "superseded") /\ UNCHANGED <<account, copy, base>>
  BY <1>1, <1>3, MatchFacts, OnwardMatches DEF Goto, Unmodified
<1> QED
  BY <1>2, <1>3 DEF CommitPhaseTwo

(* The updates of the account that leave its status and command alone, and *)
(* the withdrawal of the command.                                          *)
LEMMA UpdateMatches ==
  ASSUME LifecycleInv, MatchInv, NEW c \in CommandWorkers,
         DisableLaunch(c) \/ OpenPhaseTwo(c) \/ Shut(c) \/ CompleteTrial(c) \/ ClearPending(c)
  PROVE  MatchInv'
<1>0. /\ account \in AccountDoc /\ PendingCommandValid(account) /\ UNCHANGED workerVars
  BY CommandFacts, MatchFacts
     DEF DisableLaunch, OpenPhaseTwo, Shut, CompleteTrial, ClearPending, EngineExceptAccount
<1>1. ASSUME NEW b \in BOOLEAN
      PROVE  SameCommand(account, [account EXCEPT !.enabled = b]) /\ [account EXCEPT !.enabled = b] \in AccountDoc
  <2>1. SameCommand(account, [account EXCEPT !.enabled = b])
    BY <1>0 DEF SameCommand, SameIdentity, AccountDoc
  <2>2. [account EXCEPT !.enabled = b] \in AccountDoc
    BY <1>0 DEF AccountDoc
  <2> QED
    BY <2>1, <2>2
<1>2. ASSUME SameCommand(account, account') PROVE Withdraws(account, account')
  BY <1>0, <1>2, SameCommandWithdraws
<1>3. CASE DisableLaunch(c)
  BY <1>0, <1>1, <1>2, <1>3, MatchFacts, OnwardMatches DEF DisableLaunch, Goto, Unmodified
<1>4. CASE OpenPhaseTwo(c)
  <2>0. PICK p : p = copy[c].platformAccountId
    OBVIOUS
  <2>1. PICK opened : opened = [account EXCEPT !.enabled = TRUE, !.platformStatus[p] = "ACTIVE"]
    OBVIOUS
  <2>2. SameCommand(account, opened)
    BY <1>0, <2>1 DEF SameCommand, SameIdentity, AccountDoc
  <2>3. account' = opened \/ account' = account
    BY <1>4, <2>0, <2>1 DEF OpenPhaseTwo
  <2>4. Withdraws(account, account')
    BY <1>2, <2>2, <2>3, MatchFacts
  <2>5. PICK s \in {"clear", "unstage"} :
          cpc' = [cpc EXCEPT ![c] = s] /\ UNCHANGED <<command, copy, base>>
    BY <1>4 DEF OpenPhaseTwo, EngineExceptAccount, Goto
  <2> QED
    BY <1>0, <2>4, <2>5, MatchFacts, OnwardMatches DEF Unmodified
<1>5. CASE Shut(c)
  <2>1. Withdraws(account, account')
    BY <1>1, <1>2, <1>5, MatchFacts DEF Shut
  <2> QED
    BY <1>0, <1>5, <2>1, FailJobMatches DEF Shut, FailJob
<1>6. CASE CompleteTrial(c)
  <2>1. PICK shut : shut = [account EXCEPT !.enabled = FALSE]
    OBVIOUS
  <2>2. SameCommand(account, EndTrial(shut, "PASSED"))
    BY <1>1, <2>1, EndTrialDecides DEF SameCommand, SameIdentity
  <2>3. account' \in {account, EndTrial(shut, "PASSED")}
    BY <1>6, <2>1 DEF CompleteTrial
  <2>4. Withdraws(account, account')
    BY <1>2, <2>2, <2>3, MatchFacts
  <2> QED
    BY <1>0, <1>6, <2>4, MatchFacts, OnwardMatches DEF CompleteTrial, Goto, Unmodified
<1>7. CASE ClearPending(c)
  <2>1. PICK cleared : cleared = [account EXCEPT !.commandPending = None]
    OBVIOUS
  <2>2. SameIdentity(account, cleared) /\ cleared.commandPending = None
    BY <1>0, <2>1 DEF SameIdentity, AccountDoc
  <2>3. Withdraws(account, cleared)
    BY <2>2 DEF Withdraws, PendingCommandValid
  <2>4. Withdraws(account, account')
    BY <1>7, <2>1, <2>3, MatchFacts DEF ClearPending
  <2> QED
    BY <1>0, <1>7, <2>4, FailJobMatches DEF ClearPending
<1> QED
  BY <1>3, <1>4, <1>5, <1>6, <1>7

LEMMA DisableRemoteMatches ==
  ASSUME LifecycleInv, MatchInv, NEW c \in CommandWorkers, DisableRemote(c)
  PROVE  MatchInv'
<1>1. /\ cpc[c] = "disable" /\ cpc' = [cpc EXCEPT ![c] = "complete"]
      /\ UNCHANGED <<engineVars, command, copy, base>>
  BY DEF DisableRemote, At, Goto
<1>2. CommandCurrent("complete", command[c], copy[c], base[c])
  BY <1>1, MatchFacts DEF CommandCurrent, Unmodified
<1>3. Answers(c, "complete", command[c], copy[c], base[c])
  BY <1>1, <1>2, MatchFacts DEF Answers
<1> QED
  BY <1>1, <1>3, MatchFacts, CommandStepMatches DEF engineVars

LEMMA FailureMatches ==
  ASSUME LifecycleInv, MatchInv, NEW c \in CommandWorkers,
         Refused(c) \/ Outage(c) \/ CommandCrash(c)
  PROVE  MatchInv'
<1>1. /\ UNCHANGED <<account, workerVars>>
      /\ \/ FailJob(c)
         \/ cpc' = [cpc EXCEPT ![c] = "unstage"] /\ UNCHANGED <<command, copy, base>>
  BY DEF Refused, Outage, CommandCrash, CallFails, Goto
<1>2. CASE FailJob(c)
  BY <1>1, <1>2, FailJobMatches, MatchFacts DEF FailJob
<1>3. CASE cpc' = [cpc EXCEPT ![c] = "unstage"] /\ UNCHANGED <<command, copy, base>>
  BY <1>1, <1>3, MatchFacts, OnwardMatches DEF Unmodified
<1> QED
  BY <1>1, <1>2, <1>3

LEMMA MatchInductive ==
  LifecycleInv /\ MatchInv /\ [LifecycleNext]_lifecycleVars => MatchInv'
<1> SUFFICES ASSUME LifecycleInv, MatchInv, [LifecycleNext]_lifecycleVars PROVE MatchInv'
  OBVIOUS
<1>1. CASE UNCHANGED <<account, pc, read, commandVars>>
  BY <1>1 DEF MatchInv, ReadCurrent, commandVars
<1>2. ASSUME NEW c \in CommandWorkers, CommandStep(c) \/ Outage(c) \/ CommandCrash(c)
      PROVE  MatchInv'
  BY <1>2, QuietStepMatches, FetchRemoteMatches, ResumeMatches, SaveResultMatches,
     DisableRemoteMatches, CompletePhaseMatches, ProvisionMatches, SavePhaseMatches,
     CommitPhaseTwoMatches, UpdateMatches, EnterFundedReviewMatches, FailureMatches DEF CommandStep
<1>3. ASSUME NEW e \in Events, EventArrives(e) PROVE MatchInv'
  BY <1>1, <1>3 DEF EventArrives, Arrive, workerVars
<1>4. ASSUME NEW p \in PlatformIds, TraderMoves(p) PROVE MatchInv'
  BY <1>1, <1>4 DEF TraderMoves, engineVars, workerVars
<1>5. CASE UNCHANGED lifecycleVars
  BY <1>1, <1>5 DEF lifecycleVars, engineVars, workerVars
<1> QED
  BY <1>2, <1>3, <1>4, <1>5, EngineStepMatches DEF LifecycleNext

LEMMA MatchStarts == LifecycleInit => MatchInv
BY InitialAccountsAssumption
   DEF LifecycleInit, EngineInit, MatchInv, ReadCurrent, Handling, CommandCurrent, Unmodified

(* A pending command is one the command worker would still execute, also   *)
(* while command workers, whose saves are unconditional, carry out earlier *)
(* ones from stale copies: no interleaving of them with the engine leaves  *)
(* a command pending on a status it is not for.                            *)
THEOREM CommandsMatchBeside == LifecycleSpec => []CommandMatchesStatus
<1>1. MatchInv => CommandMatchesStatus
  BY DEF MatchInv, CommandMatchesStatus
<1> QED
  BY <1>1, MatchStarts, MatchInductive, LifecycleInductive, PTL DEF LifecycleSpec
-----------------------------------------------------------------------------
(* The second phase begins once.                                           *)

(* `new` is a later state, or a modified copy, of `old`: it has made the    *)
(* same progress, and is no more to be promoted than `old`.                *)
SameProgress(old, new) ==
  /\ new.currentPhase = old.currentPhase
  /\ new.lastSnapshotAt = old.lastSnapshotAt
  /\ new.totalTrades = old.totalTrades

Derived(old, new) ==
  /\ SameProgress(old, new)
  /\ new.status = "PASSED" => old.status = "PASSED"
  /\ new.commandPending \in {old.commandPending, None}

(* The promotion's commit resets an account without counting the version   *)
(* up. Copies the engine read before are told from the account by their    *)
(* status: all were read PASSED, and only a commit of the engine, which    *)
(* counts the version up, makes the account PASSED again.                  *)
ReadBefore(w) ==
  pc[w] \in Handling /\ read[w].version = account.version =>
    /\ account.status = "PASSED" => read[w].status = "PASSED"
    /\ \/ SameProgress(read[w], account)
       \/ read[w].status = "PASSED" /\ account.status # "PASSED"

CommandDerived(s, modified, loaded) ==
  s \notin {"idle", "start"} => Derived(loaded, modified)

BeginsInv ==
  /\ account.currentPhase = 2 => ~MayCommitPhaseTwo(account)
  /\ \A w \in Workers : ReadBefore(w)
  /\ \A c \in CommandWorkers : CommandDerived(cpc[c], copy[c], base[c])

(* What an event decides: it counts progress on, and does not make an      *)
(* account in its second phase one to be promoted.                         *)
Progresses(doc, new) ==
  /\ new.currentPhase = doc.currentPhase
  /\ new.lastSnapshotAt >= doc.lastSnapshotAt
  /\ new.totalTrades >= doc.totalTrades

DecidesOnward(doc, new) ==
  /\ new \in AccountDoc
  /\ Progresses(doc, new)
  /\ doc.currentPhase = 2 /\ new.commandPending = "CREATE_PHASE_2_ACCOUNT"
       => SameCommand(doc, new)

LEMMA SameProgresses ==
  ASSUME NEW doc \in AccountDoc, NEW new, SameProgress(doc, new)
  PROVE  Progresses(doc, new)
BY DEF SameProgress, Progresses, AccountDoc

LEMMA MetricsProgress ==
  ASSUME NEW doc \in AccountDoc, NEW e \in EventDoc,
         doc.lastSnapshotAt # 0 => e.at >= doc.lastSnapshotAt
  PROVE  Progresses(doc, Stamp(ApplyMetrics(doc, e), e))
<1>1. PICK v, q : v = [level |-> e.level, at |-> e.at]
                  /\ q = IF e.sequence = NoSequence THEN ApplyMetrics(doc, e).lastSnapshotSequence
                         ELSE e.sequence
  OBVIOUS
<1>2. PICK valued : valued = [doc EXCEPT !.valuation = v]
  OBVIOUS
<1>3. Stamp(ApplyMetrics(doc, e), e) = [valued EXCEPT !.lastSnapshotAt = e.at, !.lastSnapshotSequence = q]
  BY <1>1, <1>2 DEF Stamp, ApplyMetrics
<1>4. doc.lastSnapshotAt \in Nat /\ doc.totalTrades \in Nat /\ e.at \in Nat
  BY DEF AccountDoc, EventDoc
<1>5. /\ Stamp(ApplyMetrics(doc, e), e).currentPhase = doc.currentPhase
      /\ Stamp(ApplyMetrics(doc, e), e).totalTrades = doc.totalTrades
      /\ Stamp(ApplyMetrics(doc, e), e).lastSnapshotAt = e.at
  BY <1>2, <1>3 DEF AccountDoc
<1> QED
  BY <1>4, <1>5 DEF Progresses

LEMMA ControlMetricsProgress ==
  ASSUME NEW doc \in AccountDoc, NEW e \in EventDoc
  PROVE  Progresses(doc, ControlMetrics(doc, e))
<1>1. CASE ControlMetrics(doc, e) = doc
  BY <1>1, SameProgresses DEF SameProgress
<1>2. CASE ControlMetrics(doc, e) = ApplyMetrics(doc, e)
  <2>1. SameProgress(doc, ApplyMetrics(doc, e))
    BY DEF SameProgress, ApplyMetrics, AccountDoc
  <2> QED
    BY <1>2, <2>1, SameProgresses
<1>3. CASE ~ControlMetricsOlder(doc, e) /\ ControlMetrics(doc, e) = Stamp(ApplyMetrics(doc, e), e)
  <2>1. PICK dated : dated = [e EXCEPT !.sequence = IF e.evidence THEN e.sequence ELSE NoSequence]
    OBVIOUS
  <2>2. ControlMetricsOlder(doc, e) <=> doc.lastSnapshotAt # 0 /\ NotNewer(doc, dated)
    BY <2>1 DEF ControlMetricsOlder
  <2>3. dated.at = e.at /\ e.at \in Nat /\ doc.lastSnapshotAt \in Nat
    BY <2>1 DEF EventDoc, AccountDoc
  <2>4. doc.lastSnapshotAt # 0 => e.at >= doc.lastSnapshotAt
    BY <1>3, <2>2, <2>3 DEF NotNewer
  <2> QED
    BY <1>3, <2>4, MetricsProgress
<1> QED
  BY <1>1, <1>2, <1>3 DEF ControlMetrics

LEMMA EndTrialProgress ==
  ASSUME NEW doc \in AccountDoc, NEW result
  PROVE  SameProgress(doc, EndTrial(doc, result))
BY DEF EndTrial, SameProgress, AccountDoc

LEMMA ControlOnward ==
  ASSUME NEW doc \in AccountDoc, NEW e \in EventDoc, e.type = "CONTROL"
  PROVE  DecidesOnward(doc, ControlOutcome(doc, e))
<1>1. PICK valued : valued = ControlMetrics(doc, e)
  OBVIOUS
<1>2. Progresses(doc, valued) /\ valued \in AccountDoc /\ SameCommand(doc, valued)
  BY <1>1, MetricsDecide, ControlMetricsProgress, ControlMetricsRecords DEF SameRecords
<1>3. PICK controlled : controlled = RecordStatus(valued, e)
  OBVIOUS
<1>4. /\ controlled \in AccountDoc /\ SameProgress(valued, controlled)
      /\ SameCommand(valued, controlled)
  <2>1. PICK records : records = [valued.platformStatus EXCEPT ![e.platformAccountId] = e.status]
    OBVIOUS
  <2>2. records \in [PlatformIds -> PlatformStatus \cup {None}]
    BY <1>2, <2>1 DEF AccountDoc, EventDoc
  <2>3. CASE controlled = valued
    BY <1>2, <2>3 DEF SameProgress, SameCommand, SameIdentity
  <2>4. CASE controlled = [valued EXCEPT !.platformStatus = records]
    BY <1>2, <2>2, <2>4 DEF SameProgress, SameCommand, SameIdentity, AccountDoc
  <2> QED
    BY <1>3, <2>1, <2>3, <2>4 DEF RecordStatus
<1>5. /\ SameProgress(controlled, ControlBreached(controlled, e))
      /\ ControlBreached(controlled, e).commandPending = None
  <2>1. PICK closed : closed = [controlled EXCEPT !.status = "BREACHED", !.enabled = FALSE,
                                                  !.commandPending = None, !.lifecycleOperation = None]
    OBVIOUS
  <2>2. /\ closed \in AccountDoc /\ SameProgress(controlled, closed)
        /\ closed.commandPending = None
    <3>0. controlled \in AccountDoc /\ "BREACHED" \in AccountStatus
      BY <1>4 DEF AccountStatus
    <3>1. closed \in AccountDoc
      BY <2>1, <3>0 DEF AccountDoc
    <3>2. /\ closed.commandPending = None /\ closed.currentPhase = controlled.currentPhase
          /\ closed.lastSnapshotAt = controlled.lastSnapshotAt
          /\ closed.totalTrades = controlled.totalTrades
      BY <2>1, <3>0 DEF AccountDoc
    <3> QED
      BY <3>1, <3>2 DEF SameProgress
  <2>3. PICK ended : ended = EndTrial(closed, "BREACHED")
    OBVIOUS
  <2>4. SameProgress(closed, ended) /\ SameCommand(closed, ended) /\ ended \in AccountDoc
    BY <2>2, <2>3, EndTrialProgress, EndTrialDecides, EndTrialRecords DEF SameRecords, TrialResults
  <2>5. PICK b : b = IF ShouldReplaceBreachRecord(ended.breach, ControlBreach(e))
                     THEN ControlBreach(e) ELSE ended.breach
    OBVIOUS
  <2>6. ControlBreached(controlled, e) = [ended EXCEPT !.breach = b]
    BY <2>1, <2>3, <2>5 DEF ControlBreached
  <2> QED
    BY <2>2, <2>4, <2>6 DEF SameProgress, SameCommand, AccountDoc
<1>6. ControlOutcome(doc, e) \in {controlled, ControlBreached(controlled, e)}
  BY <1>1, <1>3 DEF ControlOutcome
<1>7. ControlOutcome(doc, e) \in AccountDoc
  BY ControlRecords DEF RecordsAfter
<1>8. CASE ControlOutcome(doc, e) = controlled
  BY <1>2, <1>4, <1>7, <1>8
     DEF DecidesOnward, Progresses, SameProgress, SameCommand, SameIdentity
<1>9. CASE ControlOutcome(doc, e) = ControlBreached(controlled, e)
  <2>1. None # "CREATE_PHASE_2_ACCOUNT"
    BY NoneIsNoData DEF Commands
  <2> QED
    BY <1>2, <1>4, <1>5, <1>7, <1>9, <2>1 DEF DecidesOnward, Progresses, SameProgress
<1> QED
  BY <1>6, <1>8, <1>9

LEMMA DealOnward ==
  ASSUME NEW doc \in AccountDoc, NEW e \in EventDoc, NEW n \in Nat
  PROVE  DecidesOnward(doc, DealOutcome(doc, e, n))
<1>1. PICK d, t : d = (IF e.opens THEN n ELSE doc.tradingDays)
                  /\ t = (IF e.closes THEN doc.totalTrades + 1 ELSE doc.totalTrades)
  OBVIOUS
<1>2. DealOutcome(doc, e, n) = [doc EXCEPT !.tradingDays = d, !.totalTrades = t]
  BY <1>1 DEF DealOutcome
<1>3. t >= doc.totalTrades /\ doc.lastSnapshotAt \in Nat
  BY <1>1 DEF AccountDoc
<1>4. Progresses(doc, DealOutcome(doc, e, n))
  BY <1>2, <1>3 DEF Progresses, AccountDoc
<1>5. SameCommand(doc, DealOutcome(doc, e, n))
  BY <1>2 DEF SameCommand, SameIdentity, AccountDoc
<1> QED
  BY <1>4, <1>5, DealRecords DEF DecidesOnward, SameRecords

(* Passing the second phase decides no promotion.                          *)
LEMMA SnapshotOnward ==
  ASSUME NEW doc \in AccountDoc, NEW e \in EventDoc,
         ~OlderThanLastAuthoritativeSnapshot(doc, e)
  PROVE  DecidesOnward(doc, SnapshotOutcome(doc, e))
<1>1. PICK valued : valued = Stamp(ApplyMetrics(doc, e), e)
  OBVIOUS
<1>2. doc.lastSnapshotAt # 0 => e.at >= doc.lastSnapshotAt
  BY DEF OlderThanLastAuthoritativeSnapshot, NotNewer, AccountDoc, EventDoc
<1>3. Progresses(doc, valued) /\ SameCommand(doc, valued) /\ valued \in AccountDoc
  BY <1>1, <1>2, MetricsProgress, MetricsDecide, StampedRecords DEF SameRecords
<1>4. PICK d : d = ResolveDecision(valued)
  OBVIOUS
<1>5. d.status \in AccountStatus /\ d.command \in Commands \cup {None}
  BY <1>4, DecisionTyped
<1>6. valued.currentPhase = 2 => d.command # "CREATE_PHASE_2_ACCOUNT"
  BY <1>4, NoneIsNoData DEF ResolveDecision, PhasePassed, NoDecision, Commands
<1>7. PICK decided : decided = [valued EXCEPT !.status = d.status, !.enabled = FALSE,
                                              !.commandPending = d.command]
  OBVIOUS
<1>8. /\ decided \in AccountDoc /\ SameProgress(valued, decided)
      /\ decided.commandPending = d.command
  <2>1. decided \in AccountDoc
    BY <1>3, <1>5, <1>7 DEF AccountDoc
  <2>2. /\ decided.commandPending = d.command /\ decided.currentPhase = valued.currentPhase
        /\ decided.lastSnapshotAt = valued.lastSnapshotAt
        /\ decided.totalTrades = valued.totalTrades
    <3>1. valued \in AccountDoc
      BY <1>3
    <3> QED
      BY <1>7, <3>1 DEF AccountDoc
  <2> QED
    BY <2>1, <2>2 DEF SameProgress
<1>9. /\ SameProgress(decided, SnapshotBreached(decided, e))
      /\ SnapshotBreached(decided, e).commandPending = d.command
  <2>1. PICK released : released = [decided EXCEPT !.lifecycleOperation = None]
    OBVIOUS
  <2>2. /\ released \in AccountDoc /\ SameProgress(decided, released)
        /\ released.commandPending = d.command
    BY <1>8, <2>1 DEF AccountDoc, SameProgress
  <2>3. PICK ended : ended = EndTrial(released, "BREACHED")
    OBVIOUS
  <2>4. SameProgress(released, ended) /\ SameCommand(released, ended) /\ ended \in AccountDoc
    BY <2>2, <2>3, EndTrialProgress, EndTrialDecides, EndTrialRecords DEF SameRecords, TrialResults
  <2>5. PICK b : b = IF ended.breach = None THEN SnapshotBreach(e) ELSE ended.breach
    OBVIOUS
  <2>6. SnapshotBreached(decided, e) = [ended EXCEPT !.breach = b]
    BY <2>1, <2>3, <2>5 DEF SnapshotBreached
  <2> QED
    BY <2>2, <2>4, <2>6 DEF SameProgress, SameCommand, AccountDoc
<1>10. SnapshotOutcome(doc, e) \in {valued, decided, SnapshotBreached(decided, e)}
  <2>1. SnapshotOutcome(doc, e) \in {valued, Decide(valued, e)}
    BY <1>1 DEF SnapshotOutcome
  <2>2. Decide(valued, e) \in {valued, decided, SnapshotBreached(decided, e)}
    BY <1>4, <1>7 DEF Decide
  <2> QED
    BY <2>1, <2>2
<1>11. SnapshotOutcome(doc, e) \in AccountDoc
  BY SnapshotRecords DEF SameRecords
<1>12. CASE SnapshotOutcome(doc, e) = valued
  BY <1>3, <1>12 DEF DecidesOnward
<1>13. CASE SnapshotOutcome(doc, e) \in {decided, SnapshotBreached(decided, e)}
  BY <1>3, <1>6, <1>8, <1>9, <1>11, <1>13 DEF DecidesOnward, Progresses, SameProgress
<1> QED
  BY <1>10, <1>12, <1>13

(* What a save of modified paths does to progress.                         *)
LEMMA WrittenProgress ==
  ASSUME NEW current, NEW loaded, NEW modified
  PROVE  LET new == WriteModified(current, loaded, modified)
         IN  /\ new.currentPhase = IF modified.currentPhase # loaded.currentPhase
                                   THEN modified.currentPhase ELSE current.currentPhase
             /\ new.lastSnapshotAt = IF modified.lastSnapshotAt # loaded.lastSnapshotAt
                                     THEN modified.lastSnapshotAt ELSE current.lastSnapshotAt
             /\ new.totalTrades = IF modified.totalTrades # loaded.totalTrades
                                  THEN modified.totalTrades ELSE current.totalTrades
BY DEF WriteModified

(* The guard of a commit tells the copies read before the second phase     *)
(* began from the account.                                                 *)
LEMMA CommitBegins ==
  ASSUME LifecycleInv, MatchInv, BeginsInv, NEW w \in Workers, pc[w] \in Handling,
         NEW next, DecidesOnward(read[w], next), GuardHolds(w), Commit(w, next)
  PROVE  /\ account'.version = account.version + 1
         /\ StaysInPhaseTwo(account, account')
         /\ account'.currentPhase = 2 => ~MayCommitPhaseTwo(account')
<1>1. /\ account \in AccountDoc /\ read[w] \in AccountDoc /\ next \in AccountDoc
      /\ ReadCurrent(w) /\ ReadBefore(w)
  BY DEF LifecycleInv, WorkerSound, DocSound, DecidesOnward, MatchInv, BeginsInv
<1>2. SameProgress(read[w], account) /\ account.status = read[w].status
      /\ account.commandPending \in {read[w].commandPending, None}
  BY <1>1 DEF GuardHolds, ReadBefore, ReadCurrent
<1>3. PICK marked : marked = [next EXCEPT !.lastProcessedEventId = event[w].id]
  OBVIOUS
<1>4. SameCommand(next, marked) /\ SameProgress(next, marked)
  BY <1>1, <1>3 DEF SameCommand, SameIdentity, SameProgress, AccountDoc
<1>5. PICK new : new = WriteModified(account, read[w], marked)
  OBVIOUS
<1>6. account' = [new EXCEPT !.version = account.version + 1]
  BY <1>3, <1>5 DEF Commit
<1>7. /\ account'.version = account.version + 1
      /\ SameProgress(new, account')
      /\ account'.status = new.status /\ account'.commandPending = new.commandPending
  BY <1>5, <1>6 DEF WriteModified, SameProgress
<1>8. /\ new.currentPhase = account.currentPhase
      /\ new.lastSnapshotAt >= account.lastSnapshotAt
      /\ new.totalTrades >= account.totalTrades
  <2>1. /\ marked.currentPhase = read[w].currentPhase
        /\ marked.lastSnapshotAt >= read[w].lastSnapshotAt
        /\ marked.totalTrades >= read[w].totalTrades
    BY <1>4 DEF DecidesOnward, Progresses, SameProgress
  <2>2. account.lastSnapshotAt \in Nat /\ account.totalTrades \in Nat
    BY <1>1 DEF AccountDoc
  <2> QED
    BY <1>2, <1>5, <2>1, <2>2, WrittenProgress DEF SameProgress
<1>9. StaysInPhaseTwo(account, account')
  BY <1>7, <1>8 DEF StaysInPhaseTwo, SameProgress
<1>10. ASSUME account'.currentPhase = 2, MayCommitPhaseTwo(account') PROVE FALSE
  <2>1. /\ read[w].currentPhase = 2 /\ account.currentPhase = 2
        /\ new.status = "PASSED" /\ new.commandPending = "CREATE_PHASE_2_ACCOUNT"
    BY <1>2, <1>7, <1>8, <1>10 DEF SameProgress, MayCommitPhaseTwo
  <2>2. /\ new.status = IF marked.status # read[w].status THEN marked.status ELSE account.status
        /\ new.commandPending = IF marked.commandPending # read[w].commandPending
                                THEN marked.commandPending ELSE account.commandPending
    BY <1>5, WrittenCommand
  <2>3. "CREATE_PHASE_2_ACCOUNT" # None
    BY NoneIsNoData DEF Commands
  <2>4. marked.commandPending = "CREATE_PHASE_2_ACCOUNT"
    BY <1>2, <2>1, <2>2, <2>3
  <2>5. SameCommand(read[w], next)
    BY <1>4, <2>1, <2>4 DEF DecidesOnward, SameCommand
  <2>6. new.status = account.status /\ new.commandPending = account.commandPending
    BY <1>4, <2>2, <2>5 DEF SameCommand
  <2> QED
    BY <2>1, <2>6 DEF BeginsInv, MayCommitPhaseTwo
<1> QED
  BY <1>7, <1>9, <1>10

(* What a step of engine worker w does to the account.                     *)
EngineKeepsPhase ==
  \/ account' = account
  \/ /\ account'.version = account.version + 1
     /\ StaysInPhaseTwo(account, account')
     /\ account'.currentPhase = 2 => ~MayCommitPhaseTwo(account')

LEMMA SaveKeepsPhase ==
  ASSUME LifecycleInv, MatchInv, BeginsInv, NEW w \in Workers, pc[w] \in Handling,
         NEW next, DecidesOnward(read[w], next), NEW outgoing, SaveConditional(w, next, outgoing)
  PROVE  EngineKeepsPhase
BY CommitBegins DEF SaveConditional, EngineKeepsPhase

LEMMA WorkerKeepsPhase ==
  ASSUME LifecycleInv, MatchInv, BeginsInv, NEW w \in Workers,
         TakeBatch(w) \/ WorkerStep(w) \/ SendFails(w) \/ Crash(w)
  PROVE  EngineKeepsPhase
<1>0. TypeOK /\ WorkerSound(w)
  BY DEF LifecycleInv, LifecycleTypeOK
<1>1. pc[w] \in Handling => event[w] \in EventDoc /\ read[w] \in AccountDoc
  BY <1>0, EventsAssumption DEF WorkerSound, Arrived, DocSound
<1>2. CASE HandleIgnored(w)
  <2>1. pc[w] \in Handling
    BY <1>2 DEF HandleIgnored, Handling
  <2>2. DecidesOnward(read[w], read[w])
    BY <1>1, <2>1, SameProgresses DEF DecidesOnward, SameProgress, SameCommand, SameIdentity
  <2> QED
    BY <1>2, <2>1, <2>2, SaveKeepsPhase DEF HandleIgnored
<1>3. CASE HandleControl(w)
  <2>1. pc[w] \in Handling /\ event[w].type = "CONTROL"
    BY <1>3 DEF HandleControl, Applies, Handling
  <2> QED
    BY <1>1, <1>3, <2>1, ControlOnward, SaveKeepsPhase DEF HandleControl
<1>4. CASE HandleDeal(w)
  <2>1. pc[w] \in Handling /\ days[w] \in Nat
    BY <1>0, <1>4 DEF HandleDeal, Applies, Handling, TypeOK
  <2> QED
    BY <1>1, <1>4, <2>1, DealOnward, SaveKeepsPhase DEF HandleDeal
<1>5. CASE HandleSnapshot(w)
  <2>1. pc[w] \in Handling /\ ~OlderThanLastAuthoritativeSnapshot(read[w], event[w])
    BY <1>5 DEF HandleSnapshot, Applies, Handling, Ignored
  <2> QED
    BY <1>1, <1>5, <2>1, SnapshotOnward, SaveKeepsPhase DEF HandleSnapshot
<1>6. CASE \/ TakeBatch(w) \/ Load(w) \/ HandleDuplicate(w) \/ RecordTradingDay(w)
           \/ CountTradingDays(w) \/ SendCommand(w) \/ SendFails(w) \/ Crash(w)
  BY <1>6 DEF EngineKeepsPhase, TakeBatch, Load, HandleDuplicate, RecordTradingDay,
     CountTradingDays, SendCommand, SendFails, Crash
<1> QED
  BY <1>2, <1>3, <1>4, <1>5, <1>6 DEF WorkerStep

LEMMA StaysWhereItIs ==
  ASSUME LifecycleInv, SameProgress(account, account')
  PROVE  StaysInPhaseTwo(account, account')
<1>1. account.lastSnapshotAt \in Nat /\ account.totalTrades \in Nat
  BY DEF LifecycleInv, DocSound, AccountDoc
<1> QED
  BY <1>1 DEF SameProgress, StaysInPhaseTwo

LEMMA EngineStepBegins ==
  ASSUME LifecycleInv, MatchInv, BeginsInv, EngineStep
  PROVE  BeginsInv' /\ StaysInPhaseTwo(account, account')
<1>0. UNCHANGED <<trader, cpc, command, copy, base>> /\ account.version \in Nat
      /\ (account' = account => StaysInPhaseTwo(account, account'))
  BY StaysWhereItIs
     DEF EngineStep, commandVars, LifecycleInv, DocSound, AccountDoc, SameProgress
<1>1. ASSUME NEW w \in Workers, TakeBatch(w) \/ WorkerStep(w) \/ SendFails(w) \/ Crash(w)
      PROVE  BeginsInv' /\ StaysInPhaseTwo(account, account')
  <2>0. EngineKeepsPhase
    BY <1>1, WorkerKeepsPhase
  <2>1. Reads(w) /\ OthersUnchanged(w) /\ EngineKeepsPhase
    BY <1>0, <1>1, <2>0, WorkerStepReads, WorkerStepMoves DEF Moves
  <2>2. /\ account'.currentPhase = 2 => ~MayCommitPhaseTwo(account')
        /\ StaysInPhaseTwo(account, account')
    BY <1>0, <2>1 DEF EngineKeepsPhase, BeginsInv
  <2>3. ASSUME NEW v \in Workers PROVE ReadBefore(v)'
    <3> SUFFICES ASSUME pc'[v] \in Handling, read'[v].version = account'.version
                 PROVE  /\ account'.status = "PASSED" => read'[v].status = "PASSED"
                        /\ \/ SameProgress(read'[v], account')
                           \/ read'[v].status = "PASSED" /\ account'.status # "PASSED"
      BY DEF ReadBefore, SameProgress
    <3>1. CASE account' = account /\ read'[v] = account
      BY <3>1 DEF SameProgress
    <3>2. CASE pc[v] \in Handling /\ read'[v] = read[v]
      <4>1. ReadBefore(v) /\ ReadCurrent(v) /\ read[v].version \in Nat
        BY <3>2 DEF BeginsInv, MatchInv, LifecycleInv, WorkerSound, DocSound, AccountDoc
      <4>2. account' = account
        BY <1>0, <2>1, <3>2, <4>1 DEF EngineKeepsPhase, ReadCurrent
      <4> QED
        BY <3>2, <4>1, <4>2 DEF ReadBefore
    <3> QED
      BY <2>1, <3>1, <3>2 DEF Reads, OthersUnchanged
  <2> QED
    BY <1>0, <2>2, <2>3 DEF BeginsInv
<1>2. CASE Sweep
  <2>1. UNCHANGED <<account, pc, read>>
    BY <1>2 DEF Sweep, SweepFinds, SweepSends, workerVars
  <2> QED
    BY <1>0, <2>1 DEF BeginsInv, ReadBefore
<1> QED
  BY <1>1, <1>2 DEF EngineStep

(* What a command worker does to the account, other than beginning the     *)
(* second phase.                                                           *)
Keeps(old, new) == Derived(old, new) /\ new.version = old.version

LEMMA DerivedSame ==
  ASSUME NEW doc
  PROVE  Derived(doc, doc) /\ Keeps(doc, doc)
BY DEF Derived, Keeps, SameProgress

LEMMA DerivedTwice ==
  ASSUME NEW a, NEW b, NEW d, Derived(a, b), Derived(b, d)
  PROVE  Derived(a, d)
BY DEF Derived, SameProgress

(* A copy of a document is saved over what the document is by now.         *)
LEMMA DerivedSaved ==
  ASSUME NEW current, NEW loaded, NEW modified, Derived(loaded, modified)
  PROVE  Keeps(current, WriteModified(current, loaded, modified))
<1>1. PICK new : new = WriteModified(current, loaded, modified)
  OBVIOUS
<1>2. SameProgress(current, new)
  BY <1>1, WrittenProgress DEF Derived, SameProgress
<1>3. /\ new.version = current.version
      /\ new.status = IF modified.status # loaded.status
                      THEN modified.status ELSE current.status
      /\ new.commandPending = IF modified.commandPending # loaded.commandPending
                              THEN modified.commandPending ELSE current.commandPending
  BY <1>1, WrittenCommand DEF SameIdentity
<1>4. new.status = "PASSED" => current.status = "PASSED"
  BY <1>3 DEF Derived
<1>5. new.commandPending \in {current.commandPending, None}
  BY <1>3 DEF Derived
<1> QED
  BY <1>1, <1>2, <1>3, <1>4, <1>5 DEF Keeps, Derived

LEMMA CopiesStayDerived ==
  ASSUME LifecycleInv, BeginsInv, NEW c \in CommandWorkers, NEW s, NEW modified, NEW loaded,
         cpc' = [cpc EXCEPT ![c] = s],
         copy' = [copy EXCEPT ![c] = modified],
         base' = [base EXCEPT ![c] = loaded],
         CommandDerived(s, modified, loaded)
  PROVE  \A d \in CommandWorkers : CommandDerived(cpc'[d], copy'[d], base'[d])
<1>1. LifecycleTypeOK
  BY DEF LifecycleInv
<1> SUFFICES ASSUME NEW d \in CommandWorkers PROVE CommandDerived(cpc'[d], copy'[d], base'[d])
  OBVIOUS
<1>2. CASE d = c
  BY <1>1, <1>2 DEF LifecycleTypeOK
<1>3. CASE d # c
  <2>1. CommandDerived(cpc[d], copy[d], base[d])
    BY DEF BeginsInv
  <2>2. cpc'[d] = cpc[d] /\ copy'[d] = copy[d] /\ base'[d] = base[d]
    BY <1>1, <1>3 DEF LifecycleTypeOK
  <2> QED
    BY <2>1, <2>2
<1> QED
  BY <1>2, <1>3

LEMMA CommandStepBegins ==
  ASSUME LifecycleInv, BeginsInv, NEW c \in CommandWorkers, NEW s, NEW modified, NEW loaded,
         cpc' = [cpc EXCEPT ![c] = s],
         copy' = [copy EXCEPT ![c] = modified],
         base' = [base EXCEPT ![c] = loaded],
         CommandDerived(s, modified, loaded),
         UNCHANGED workerVars, Keeps(account, account')
  PROVE  BeginsInv' /\ StaysInPhaseTwo(account, account')
<1>1. StaysInPhaseTwo(account, account')
  BY StaysWhereItIs DEF Keeps, Derived
<1>2. account'.currentPhase = 2 => ~MayCommitPhaseTwo(account')
  <2>1. "CREATE_PHASE_2_ACCOUNT" # None
    BY NoneIsNoData DEF Commands
  <2> QED
    BY <2>1 DEF BeginsInv, Keeps, Derived, SameProgress, MayCommitPhaseTwo
<1>3. ASSUME NEW w \in Workers PROVE ReadBefore(w)'
  <2>1. ReadBefore(w) /\ pc' = pc /\ read' = read
    BY DEF BeginsInv, workerVars
  <2>2. /\ account'.version = account.version /\ SameProgress(account, account')
        /\ account'.status = "PASSED" => account.status = "PASSED"
    BY DEF Keeps, Derived
  <2> QED
    BY <2>1, <2>2 DEF ReadBefore, SameProgress
<1> QED
  BY <1>1, <1>2, <1>3, CopiesStayDerived DEF BeginsInv

(* The steps that leave the copy alone, or forget it.                      *)
LEMMA OnwardBegins ==
  ASSUME LifecycleInv, BeginsInv, NEW c \in CommandWorkers, cpc[c] \notin {"idle", "start"},
         NEW s, Goto(c, s), UNCHANGED <<copy, base, workerVars>>, Keeps(account, account')
  PROVE  BeginsInv' /\ StaysInPhaseTwo(account, account')
<1>1. CommandDerived(s, copy[c], base[c])
  BY DEF BeginsInv, CommandDerived
<1>2. copy' = [copy EXCEPT ![c] = copy[c]] /\ base' = [base EXCEPT ![c] = base[c]]
  BY CommandFacts
<1> QED
  BY <1>1, <1>2, CommandStepBegins DEF Goto

LEMMA EndJobBegins ==
  ASSUME LifecycleInv, BeginsInv, NEW c \in CommandWorkers, EndJob(c),
         UNCHANGED workerVars, Keeps(account, account')
  PROVE  BeginsInv' /\ StaysInPhaseTwo(account, account')
<1>1. CommandDerived("idle", None, None)
  BY DEF CommandDerived
<1> QED
  BY <1>1, CommandStepBegins DEF EndJob

(* The steps that modify the copy, and those that save it.                 *)
LEMMA CopyBegins ==
  ASSUME LifecycleInv, BeginsInv, NEW c \in CommandWorkers, cpc[c] \notin {"idle", "start"},
         NEW s, Goto(c, s), NEW modified, Derived(copy[c], modified),
         copy' = [copy EXCEPT ![c] = modified], UNCHANGED <<base, workerVars, account>>
  PROVE  BeginsInv' /\ StaysInPhaseTwo(account, account')
<1>1. Derived(base[c], copy[c])
  BY DEF BeginsInv, CommandDerived
<1>2. CommandDerived(s, modified, base[c])
  BY <1>1, DerivedTwice DEF CommandDerived
<1>3. base' = [base EXCEPT ![c] = base[c]] /\ Keeps(account, account')
  BY CommandFacts, DerivedSame
<1> QED
  BY <1>2, <1>3, CommandStepBegins DEF Goto

LEMMA SaveBegins ==
  ASSUME LifecycleInv, BeginsInv, NEW c \in CommandWorkers, cpc[c] \notin {"idle", "start"},
         NEW s, Goto(c, s), NEW modified, Derived(copy[c], modified), Save(c, modified),
         UNCHANGED workerVars
  PROVE  BeginsInv' /\ StaysInPhaseTwo(account, account')
<1>1. Derived(base[c], copy[c])
  BY DEF BeginsInv, CommandDerived
<1>2. Derived(base[c], modified)
  BY <1>1, DerivedTwice
<1>3. Keeps(account, account')
  BY <1>2, DerivedSaved DEF Save
<1>4. CommandDerived(s, modified, modified)
  BY DerivedSame DEF CommandDerived
<1> QED
  BY <1>3, <1>4, CommandStepBegins DEF Goto, Save

LEMMA QuietStepBegins ==
  ASSUME LifecycleInv, BeginsInv, NEW c \in CommandWorkers,
         \/ TakeCommand(c) \/ ReadAccount(c) \/ LockRemote(c) \/ DisableRemote(c)
         \/ StageSuperseded(c) \/ Activate(c) \/ Unstage(c)
  PROVE  BeginsInv' /\ StaysInPhaseTwo(account, account')
<1>0. UNCHANGED <<account, workerVars>> /\ Keeps(account, account')
  BY DerivedSame DEF TakeCommand, ReadAccount, LockRemote, DisableRemote, StageSuperseded,
     Activate, Unstage, engineVars
<1>1. CASE TakeCommand(c)
  <2>1. copy' = [copy EXCEPT ![c] = copy[c]] /\ base' = [base EXCEPT ![c] = base[c]]
    BY <1>1, CommandFacts DEF TakeCommand
  <2>2. CommandDerived("start", copy[c], base[c]) /\ cpc' = [cpc EXCEPT ![c] = "start"]
    BY <1>1 DEF CommandDerived, TakeCommand, Goto
  <2> QED
    BY <1>0, <2>1, <2>2, CommandStepBegins
<1>2. CASE ReadAccount(c)
  <2>1. CommandDerived(FirstStep(command[c], account), account, account)
    BY DerivedSame DEF CommandDerived
  <2> QED
    BY <1>0, <1>2, <2>1, CommandStepBegins DEF ReadAccount, Goto
<1>3. CASE LockRemote(c) \/ DisableRemote(c) \/ StageSuperseded(c) \/ Activate(c) \/ Unstage(c)
  <2>1. PICK s : Goto(c, s) /\ UNCHANGED <<copy, base>> /\ cpc[c] \notin {"idle", "start"}
    BY <1>3 DEF LockRemote, DisableRemote, StageSuperseded, Activate, Unstage, At
  <2> QED
    BY <1>0, <2>1, OnwardBegins
<1> QED
  BY <1>1, <1>2, <1>3

(* The platform's answer and what is made of it.                           *)
LEMMA FetchRemoteBegins ==
  ASSUME LifecycleInv, BeginsInv, NEW c \in CommandWorkers, FetchRemote(c)
  PROVE  BeginsInv' /\ StaysInPhaseTwo(account, account')
<1>1. PICK p, remote, valued :
        p = Record(c) /\ remote = trader[p] /\ valued = [copy[c] EXCEPT !.valuation.level = remote.level]
  OBVIOUS
<1>2. cpc[c] \notin {"idle", "start"} /\ copy[c] \in AccountDoc
  BY CommandFacts DEF FetchRemote, At
<1>3. PICK v : v = [copy[c].valuation EXCEPT !.level = remote.level]
  OBVIOUS
<1>4. valued = [copy[c] EXCEPT !.valuation = v]
  BY <1>1, <1>3
<1>5. Derived(copy[c], valued)
  BY <1>2, <1>4 DEF Derived, SameProgress, AccountDoc
<1>6. ASSUME NEW status \in {"BREACHED", "CLOSED"}
      PROVE  Derived(copy[c], TerminalCopy(valued, p, status))
  <2>0. PICK records : records = [valued.platformStatus EXCEPT ![p] = status]
    OBVIOUS
  <2>1. PICK ended : ended = [valued EXCEPT !.platformStatus = records, !.status = status,
                                            !.enabled = FALSE, !.commandPending = None]
    OBVIOUS
  <2>2. /\ ended.status = status /\ ended.commandPending = None
        /\ SameProgress(copy[c], ended)
    BY <1>2, <1>4, <2>1 DEF AccountDoc, SameProgress
  <2>3. ended.accountMode = copy[c].accountMode
    BY <1>2, <1>4, <2>1 DEF AccountDoc
  <2>4. Derived(copy[c], ended)
    BY <2>2 DEF Derived
  <2>5. PICK ending : ending = EndTrial(ended, "BREACHED")
    OBVIOUS
  <2>6. /\ ending.status = status /\ ending.commandPending = None
        /\ SameProgress(copy[c], ending)
    BY <1>2, <1>4, <2>1, <2>2, <2>5 DEF EndTrial, AccountDoc, SameProgress
  <2>7. PICK freed : freed = [ended EXCEPT !.activeTrialKey = FALSE]
    OBVIOUS
  <2>8. /\ freed.status = status /\ freed.commandPending = None
        /\ SameProgress(copy[c], freed)
    BY <1>2, <1>4, <2>1, <2>2, <2>7 DEF AccountDoc, SameProgress
  <2>9. TerminalCopy(valued, p, status) \in {ended, ending, freed}
    BY <2>0, <2>1, <2>5, <2>7 DEF TerminalCopy
  <2> QED
    BY <2>4, <2>6, <2>8, <2>9 DEF Derived
<1>7. CASE /\ remote.status \in {"BREACHED", "CLOSED"}
           /\ copy' = [copy EXCEPT ![c] = TerminalCopy(valued, p, remote.status)]
           /\ Goto(c, "save")
           /\ UNCHANGED <<engineVars, command, base>>
  BY <1>2, <1>6, <1>7, CopyBegins DEF engineVars
<1>8. ASSUME NEW s, copy' = [copy EXCEPT ![c] = valued], Goto(c, s),
             UNCHANGED <<engineVars, command, base>>
      PROVE  BeginsInv' /\ StaysInPhaseTwo(account, account')
  BY <1>2, <1>5, <1>8, CopyBegins DEF engineVars
<1>9. CASE FailJob(c) /\ UNCHANGED <<account, workerVars>>
  BY <1>9, EndJobBegins, DerivedSame DEF FailJob
<1> QED
  BY <1>1, <1>7, <1>8, <1>9 DEF FetchRemote

LEMMA ResumeBegins ==
  ASSUME LifecycleInv, BeginsInv, NEW c \in CommandWorkers, Resume(c)
  PROVE  BeginsInv' /\ StaysInPhaseTwo(account, account')
<1>1. cpc[c] \notin {"idle", "start"} /\ copy[c] \in AccountDoc
  BY CommandFacts DEF Resume, At
<1>2. PICK status : status = TradablePhaseStatus(copy[c], FinalizedPhase(command[c], copy[c]))
  OBVIOUS
<1>3. status # "PASSED"
  BY <1>2 DEF TradablePhaseStatus
<1>4. PICK records : records = [copy[c].platformStatus EXCEPT ![Record(c)] = "ACTIVE"]
  OBVIOUS
<1>5. PICK modified : modified = [copy[c] EXCEPT !.platformStatus = records, !.status = status,
                                                 !.enabled = TRUE, !.commandPending = None]
  OBVIOUS
<1>6. copy' = [copy EXCEPT ![c] = modified]
  BY <1>2, <1>4, <1>5 DEF Resume
<1>7. Derived(copy[c], modified)
  BY <1>1, <1>3, <1>5 DEF Derived, SameProgress, AccountDoc
<1>8. Goto(c, "save") /\ UNCHANGED <<base, workerVars, account>>
  BY DEF Resume, engineVars
<1> QED
  BY <1>1, <1>6, <1>7, <1>8, CopyBegins

LEMMA ProvisionBegins ==
  ASSUME LifecycleInv, BeginsInv, NEW c \in CommandWorkers, Provision(c)
  PROVE  BeginsInv' /\ StaysInPhaseTwo(account, account')
<1>1. cpc[c] \notin {"idle", "start"} /\ copy[c] \in AccountDoc
  BY CommandFacts DEF Provision, At
<1>2. PICK p, status : /\ p = PhaseAccount[2]
                       /\ status = IF trader[p].status = None THEN "PAUSED" ELSE trader[p].status
  OBVIOUS
<1>3. PICK records : records = [copy[c].platformStatus EXCEPT ![p] = status]
  OBVIOUS
<1>4. PICK modified : modified = [copy[c] EXCEPT !.platformStatus = records, !.platformAccountId = p]
  OBVIOUS
<1>5. copy' = [copy EXCEPT ![c] = modified]
  BY <1>2, <1>3, <1>4 DEF Provision
<1>6. Derived(copy[c], modified)
  BY <1>1, <1>4 DEF Derived, SameProgress, AccountDoc
<1>7. Goto(c, "savePhase") /\ UNCHANGED <<base, workerVars, account>>
  BY DEF Provision, engineVars
<1> QED
  BY <1>1, <1>5, <1>6, <1>7, CopyBegins

LEMMA SaveStepsBegin ==
  ASSUME LifecycleInv, BeginsInv, NEW c \in CommandWorkers,
         SaveResult(c) \/ CompletePhase(c) \/ EnterFundedReview(c)
  PROVE  BeginsInv' /\ StaysInPhaseTwo(account, account')
<1>1. /\ cpc[c] \notin {"idle", "start"} /\ copy[c] \in AccountDoc
      /\ UNCHANGED workerVars
  BY CommandFacts DEF SaveResult, CompletePhase, EnterFundedReview, At, EngineExceptAccount
<1>2. CASE SaveResult(c)
  <2>1. Save(c, copy[c]) /\ Goto(c, "clear") /\ Derived(copy[c], copy[c])
    BY <1>2, DerivedSame DEF SaveResult
  <2> QED
    BY <1>1, <2>1, SaveBegins
<1>3. PICK records : records = [copy[c].platformStatus EXCEPT ![Record(c)] = "COMPLETED"]
  OBVIOUS
<1>4. CASE CompletePhase(c)
  <2>1. PICK modified : modified = [copy[c] EXCEPT !.platformStatus = records]
    OBVIOUS
  <2>2. Save(c, modified) /\ Goto(c, Confirmed(command[c]))
    BY <1>3, <1>4, <2>1 DEF CompletePhase
  <2>3. Derived(copy[c], modified)
    BY <1>1, <2>1 DEF Derived, SameProgress, AccountDoc
  <2> QED
    BY <1>1, <2>2, <2>3, SaveBegins
<1>5. CASE EnterFundedReview(c)
  <2>1. PICK modified : modified = [copy[c] EXCEPT !.enabled = FALSE, !.status = "FUNDED_REVIEW",
                                                   !.platformStatus = records]
    OBVIOUS
  <2>2. Save(c, modified) /\ Goto(c, "clear")
    BY <1>3, <1>5, <2>1 DEF EnterFundedReview
  <2>3. Derived(copy[c], modified)
    BY <1>1, <2>1 DEF Derived, SameProgress, AccountDoc
  <2> QED
    BY <1>1, <2>2, <2>3, SaveBegins
<1> QED
  BY <1>2, <1>4, <1>5

LEMMA SavePhaseBegins ==
  ASSUME LifecycleInv, BeginsInv, NEW c \in CommandWorkers, SavePhase(c)
  PROVE  BeginsInv' /\ StaysInPhaseTwo(account, account')
<1>1. PICK saved : saved = WriteModified(account, base[c], copy[c])
  OBVIOUS
<1>2. PICK replaced : replaced = [saved EXCEPT !.platformStatus = copy[c].platformStatus]
  OBVIOUS
<1>3. /\ cpc[c] = "savePhase" /\ cpc' = [cpc EXCEPT ![c] = "commit"]
      /\ account' = saved \/ account' = replaced
      /\ base' = [base EXCEPT ![c] = copy[c]] /\ UNCHANGED <<copy, workerVars>>
  BY <1>2, <1>1 DEF SavePhase, At, Goto, EngineExceptAccount
<1>4. Keeps(account, saved)
  BY <1>1, <1>3, DerivedSaved DEF BeginsInv, CommandDerived
<1>5. Keeps(saved, replaced)
  BY <1>2, <1>1 DEF WriteModified, Keeps, Derived, SameProgress
<1>6. Keeps(account, replaced)
  BY <1>4, <1>5, DerivedTwice DEF Keeps
<1>7. Keeps(account, account')
  BY <1>3, <1>4, <1>6
<1>8. CommandDerived("commit", copy[c], copy[c]) /\ copy' = [copy EXCEPT ![c] = copy[c]]
  BY <1>3, DerivedSame, CommandFacts DEF CommandDerived
<1> QED
  BY <1>3, <1>8, <1>7, CommandStepBegins

(* The commit: an account that may be promoted is in its first phase, and  *)
(* every copy of its version was read PASSED.                              *)
LEMMA CommitPhaseTwoBegins ==
  ASSUME LifecycleInv, BeginsInv, NEW c \in CommandWorkers, CommitPhaseTwo(c)
  PROVE  BeginsInv' /\ StaysInPhaseTwo(account, account')
<1>1. cpc[c] \notin {"idle", "start"} /\ account \in AccountDoc /\ UNCHANGED workerVars
  BY CommandFacts DEF CommitPhaseTwo, At, EngineExceptAccount
<1>2. CASE /\ MayCommitPhaseTwo(account)
           /\ account' = PhaseTwoReset(account)
           /\ copy' = [copy EXCEPT ![c] = account']
           /\ base' = [base EXCEPT ![c] = account']
           /\ Goto(c, "activate")
  <2>1. account.currentPhase # 2 /\ account.status = "PASSED"
    BY <1>2 DEF BeginsInv, MayCommitPhaseTwo
  <2>2. StaysInPhaseTwo(account, account')
    BY <2>1 DEF StaysInPhaseTwo
  <2>3. PICK v : v = [level |-> "NORMAL", at |-> 0]
    OBVIOUS
  <2>4. account' = [account EXCEPT !.currentPhase = 2, !.status = "PHASE_2", !.enabled = FALSE,
                      !.commandPending = "CREATE_PHASE_2_ACCOUNT", !.valuation = v,
                      !.lastSnapshotAt = 0, !.lastSnapshotSequence = 0,
                      !.tradingDays = 0, !.totalTrades = 0, !.breach = None]
    BY <1>2, <2>3 DEF PhaseTwoReset
  <2>5. account'.status = "PHASE_2" /\ account'.version = account.version
    BY <1>1, <2>4 DEF AccountDoc
  <2>6. ASSUME NEW w \in Workers PROVE ReadBefore(w)'
    <3>1. ReadBefore(w) /\ pc' = pc /\ read' = read
      BY <1>1 DEF BeginsInv, workerVars
    <3> QED
      BY <2>1, <2>5, <3>1 DEF ReadBefore
  <2>7. CommandDerived("activate", account', account')
    BY DerivedSame DEF CommandDerived
  <2>8. \A d \in CommandWorkers : CommandDerived(cpc'[d], copy'[d], base'[d])
    BY <1>2, <2>7, CopiesStayDerived DEF Goto
  <2> QED
    BY <2>2, <2>5, <2>6, <2>8 DEF BeginsInv, MayCommitPhaseTwo
<1>3. CASE Goto(c, "superseded") /\ UNCHANGED <<account, copy, base>>
  BY <1>1, <1>3, OnwardBegins, DerivedSame
<1> QED
  BY <1>2, <1>3 DEF CommitPhaseTwo

(* The updates of the account in place.                                    *)
LEMMA UpdateBegins ==
  ASSUME LifecycleInv, BeginsInv, NEW c \in CommandWorkers,
         DisableLaunch(c) \/ OpenPhaseTwo(c) \/ Shut(c) \/ CompleteTrial(c) \/ ClearPending(c)
  PROVE  BeginsInv' /\ StaysInPhaseTwo(account, account')
<1>1. account \in AccountDoc /\ Keeps(account, account)
  BY CommandFacts, DerivedSame
<1>2. ASSUME NEW b \in BOOLEAN
      PROVE  Keeps(account, [account EXCEPT !.enabled = b])
  BY <1>1 DEF Keeps, Derived, SameProgress, AccountDoc
<1>3. CASE DisableLaunch(c)
  BY <1>2, <1>3, OnwardBegins DEF DisableLaunch, At, EngineExceptAccount
<1>4. CASE OpenPhaseTwo(c)
  <2>1. PICK records : records = [account.platformStatus EXCEPT ![copy[c].platformAccountId] = "ACTIVE"]
    OBVIOUS
  <2>2. PICK opened : opened = [account EXCEPT !.enabled = TRUE, !.platformStatus = records]
    OBVIOUS
  <2>3. Keeps(account, opened)
    BY <1>1, <2>2 DEF Keeps, Derived, SameProgress, AccountDoc
  <2>4. account' = opened \/ account' = account
    BY <1>4, <2>1, <2>2 DEF OpenPhaseTwo
  <2>5. PICK s : Goto(c, s) /\ UNCHANGED <<copy, base, workerVars>> /\ cpc[c] \notin {"idle", "start"}
    BY <1>4 DEF OpenPhaseTwo, At, EngineExceptAccount
  <2> QED
    BY <1>1, <2>3, <2>4, <2>5, OnwardBegins
<1>5. CASE Shut(c)
  BY <1>1, <1>2, <1>5, EndJobBegins DEF Shut, FailJob
<1>6. CASE CompleteTrial(c)
  <2>1. PICK shut : shut = [account EXCEPT !.enabled = FALSE]
    OBVIOUS
  <2>2. shut \in AccountDoc
    BY <1>1, <2>1 DEF AccountDoc
  <2>3. PICK ended : ended = EndTrial(shut, "PASSED")
    OBVIOUS
  <2>4. SameProgress(shut, ended) /\ SameCommand(shut, ended)
    BY <2>2, <2>3, EndTrialProgress, EndTrialDecides
  <2>5. Keeps(shut, ended)
    BY <2>4 DEF Keeps, Derived, SameCommand, SameIdentity
  <2>6. Keeps(account, ended)
    BY <1>2, <2>1, <2>5, DerivedTwice DEF Keeps
  <2>7. account' \in {account, ended}
    BY <1>6, <2>1, <2>3 DEF CompleteTrial
  <2> QED
    BY <1>1, <1>6, <2>6, <2>7, OnwardBegins DEF CompleteTrial, At, EngineExceptAccount
<1>7. CASE ClearPending(c)
  <2>1. Keeps(account, [account EXCEPT !.commandPending = None])
    BY <1>1 DEF Keeps, Derived, SameProgress, AccountDoc
  <2> QED
    BY <1>1, <1>7, <2>1, EndJobBegins DEF ClearPending, EngineExceptAccount
<1> QED
  BY <1>3, <1>4, <1>5, <1>6, <1>7

LEMMA FailureBegins ==
  ASSUME LifecycleInv, BeginsInv, NEW c \in CommandWorkers,
         Refused(c) \/ Outage(c) \/ CommandCrash(c)
  PROVE  BeginsInv' /\ StaysInPhaseTwo(account, account')
<1>1. /\ UNCHANGED <<account, workerVars>>
      /\ \/ FailJob(c)
         \/ At(c, "activate") /\ Goto(c, "unstage") /\ UNCHANGED <<copy, base>>
  BY DEF Refused, Outage, CommandCrash, CallFails
<1>2. CASE FailJob(c)
  BY <1>1, <1>2, EndJobBegins, DerivedSame DEF FailJob
<1>3. CASE At(c, "activate") /\ Goto(c, "unstage") /\ UNCHANGED <<copy, base>>
  BY <1>1, <1>3, OnwardBegins, DerivedSame DEF At
<1> QED
  BY <1>1, <1>2, <1>3

LEMMA BeginsInductive ==
  ASSUME LifecycleInv, MatchInv, BeginsInv, [LifecycleNext]_lifecycleVars
  PROVE  BeginsInv' /\ StaysInPhaseTwo(account, account')
<1>1. CASE UNCHANGED <<account, pc, read, commandVars>>
  <2>1. BeginsInv'
    BY <1>1 DEF BeginsInv, ReadBefore, commandVars
  <2>2. SameProgress(account, account')
    BY <1>1 DEF SameProgress
  <2> QED
    BY <2>1, <2>2, StaysWhereItIs
<1>2. ASSUME NEW c \in CommandWorkers, CommandStep(c) \/ Outage(c) \/ CommandCrash(c)
      PROVE  BeginsInv' /\ StaysInPhaseTwo(account, account')
  BY <1>2, QuietStepBegins, FetchRemoteBegins, ResumeBegins, ProvisionBegins, SaveStepsBegin,
     SavePhaseBegins, CommitPhaseTwoBegins, UpdateBegins, FailureBegins DEF CommandStep
<1>3. ASSUME NEW e \in Events, EventArrives(e)
      PROVE  BeginsInv' /\ StaysInPhaseTwo(account, account')
  BY <1>1, <1>3 DEF EventArrives, Arrive, workerVars
<1>4. ASSUME NEW p \in PlatformIds, TraderMoves(p)
      PROVE  BeginsInv' /\ StaysInPhaseTwo(account, account')
  BY <1>1, <1>4 DEF TraderMoves, engineVars, workerVars
<1>5. CASE UNCHANGED lifecycleVars
  BY <1>1, <1>5 DEF lifecycleVars, engineVars, workerVars
<1> QED
  BY <1>2, <1>3, <1>4, <1>5, EngineStepBegins DEF LifecycleNext

LEMMA BeginsStarts == LifecycleInit => BeginsInv
BY InitialPhaseAssumption
   DEF LifecycleInit, EngineInit, BeginsInv, MayCommitPhaseTwo, ReadBefore, Handling, CommandDerived

(* The second phase of an account begins once: neither a second replica or *)
(* a redelivered promotion, nor a stale copy that a command worker or the  *)
(* engine saves, takes it back to the first phase or resets the progress   *)
(* made in the second.                                                     *)
THEOREM PhaseTwoIsBegunOnce == LifecycleSpec => PhaseTwoBeginsOnce
<1>1. LifecycleInv /\ MatchInv /\ BeginsInv /\ [LifecycleNext]_lifecycleVars
        => BeginsInv' /\ [StaysInPhaseTwo(account, account')]_account
  BY BeginsInductive
<1> QED
  BY <1>1, BeginsStarts, MatchStarts, MatchInductive, LifecycleInductive, PTL
     DEF LifecycleSpec, PhaseTwoBeginsOnce
=============================================================================
