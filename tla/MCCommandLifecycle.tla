------------------------- MODULE MCCommandLifecycle -------------------------
(* A bounded instance of CommandLifecycle: accounts whose command is still  *)
(* to be carried out, and the events that can overtake it.                  *)
EXTENDS CommandLifecycle, TLC

MCEventIds == {"target1", "breach1", "trigger1", "breach2", "trigger2"}

Snap(id, p, level) ==
  [id |-> id, type |-> "SNAPSHOT", signed |-> TRUE, platformAccountId |-> p,
   at |-> 3, sequence |-> NoSequence, live |-> TRUE, metrics |-> FALSE,
   level |-> level, evidence |-> FALSE, status |-> "ACTIVE",
   opens |-> FALSE, closes |-> FALSE, day |-> 0]

Trigger(id, p) ==
  [Snap(id, p, "MAX") EXCEPT !.type = "CONTROL", !.metrics = TRUE,
                             !.evidence = TRUE, !.status = "BREACHED"]

MCEvents ==
  {Snap("target1", "phase1", "TARGET"), Snap("breach1", "phase1", "DAILY"),
   Snap("breach2", "phase2", "DAILY"),
   Trigger("trigger1", "phase1"), Trigger("trigger2", "phase2")}

MCPhaseAccount == [n \in {1, 2} |-> IF n = 1 THEN "phase1" ELSE "phase2"]

(* Two-step challenge whose first phase has just been passed.              *)
Passed ==
  [version |-> 1, status |-> "PASSED", enabled |-> FALSE,
   commandPending |-> "CREATE_PHASE_2_ACCOUNT",
   lifecycleOperation |-> None, accountMode |-> "CHALLENGE",
   challengeType |-> "TWO_STEP", currentPhase |-> 1,
   platformAccountId |-> "phase1",
   platformStatus |-> [p \in PlatformIds |->
                         IF p = "phase1" THEN "ACTIVE" ELSE None],
   valuation |-> [level |-> "TARGET", at |-> 2],
   lastSnapshotAt |-> 2, lastSnapshotSequence |-> 0,
   tradingDays |-> 1, totalTrades |-> 1, breach |-> None,
   lastProcessedEventId |-> None, activeTrialKey |-> FALSE,
   trialResult |-> None]

Trial ==
  [Passed EXCEPT !.commandPending = "COMPLETE_TRIAL", !.accountMode = "DEMO",
                 !.challengeType = "ONE_STEP", !.activeTrialKey = TRUE]

Review ==
  [Passed EXCEPT !.status = "FUNDED_REVIEW", !.challengeType = "ONE_STEP",
                 !.commandPending = "ENTER_FUNDED_REVIEW"]

MCInitialAccounts == {Passed, Trial, Review}

(* The instance with two command workers: only the promotion, which takes   *)
(* the most steps.                                                         *)
ReplicaAccounts == {Passed}

Symmetry == Permutations(CommandWorkers)
=============================================================================
