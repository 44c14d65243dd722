--------------------------- MODULE MCStateEngine ---------------------------
(* A bounded instance of StateEngine: a few events of each kind that can    *)
(* race, on accounts in the states an engine worker can find them in.       *)
EXTENDS StateEngine, TLC

MCEventIds == {"snapTarget", "snapBreach", "snapLate", "other",
               "deal1", "deal2", "ctlTrigger", "ctlPlain", "foreign"}

Symmetry == Permutations(Workers)

Blank ==
  [id |-> "foreign", type |-> "OTHER", signed |-> TRUE,
   platformAccountId |-> "phase1", at |-> 1, sequence |-> NoSequence,
   live |-> TRUE, metrics |-> FALSE, level |-> "NORMAL", evidence |-> FALSE,
   status |-> "ACTIVE", opens |-> FALSE, closes |-> FALSE, day |-> 0]

Snap(id, at, sequence, level) ==
  [Blank EXCEPT !.id = id, !.type = "SNAPSHOT", !.at = at,
                !.sequence = sequence, !.level = level]

MCEvents ==
  {Snap("snapTarget", 2, 1, "TARGET"),
   Snap("snapBreach", 2, 2, "BOTH"),
   Snap("snapLate", 3, NoSequence, "NORMAL"),
   [Blank EXCEPT !.id = "deal1", !.type = "DEAL", !.opens = TRUE,
                 !.closes = TRUE, !.day = 1],
   [Blank EXCEPT !.id = "deal2", !.type = "DEAL", !.closes = TRUE, !.day = 1],
   [Blank EXCEPT !.id = "ctlTrigger", !.type = "CONTROL", !.at = 2,
                 !.sequence = 2, !.metrics = TRUE, !.level = "MAX",
                 !.evidence = TRUE, !.status = "BREACHED"],
   [Blank EXCEPT !.id = "ctlPlain", !.type = "CONTROL", !.at = 3,
                 !.metrics = TRUE, !.level = "DAILY", !.status = "BREACHED"],
   [Blank EXCEPT !.signed = FALSE]}

Fresh ==
  [version |-> 0, status |-> "ACTIVE", enabled |-> TRUE, commandPending |-> None,
   lifecycleOperation |-> None, accountMode |-> "CHALLENGE",
   challengeType |-> "TWO_STEP", currentPhase |-> 1,
   platformAccountId |-> "phase1",
   platformStatus |-> [p \in PlatformIds |->
                         IF p = "phase1" THEN "ACTIVE" ELSE None],
   valuation |-> [level |-> "NORMAL", at |-> 0],
   lastSnapshotAt |-> 0, lastSnapshotSequence |-> 0,
   tradingDays |-> 0, totalTrades |-> 0, breach |-> None,
   lastProcessedEventId |-> None, activeTrialKey |-> FALSE,
   trialResult |-> None]

MCInitialAccounts ==
  {Fresh,
   [Fresh EXCEPT !.accountMode = "DEMO", !.challengeType = "ONE_STEP",
                 !.activeTrialKey = TRUE],
   [Fresh EXCEPT !.status = "FUNDED_REVIEW", !.challengeType = "ONE_STEP",
                 !.enabled = FALSE, !.lifecycleOperation = "approval",
                 !.platformStatus["phase1"] = "COMPLETED"]}

(* The instance on which liveness is checked: among the events, a snapshot *)
(* that is not live and one of another platform account.                   *)
LiveEvents ==
  {e \in MCEvents : e.id \in {"snapTarget", "snapBreach", "deal1", "ctlPlain"}}
    \cup {[Snap("snapLate", 3, 5, "DAILY") EXCEPT !.live = FALSE],
          [Snap("other", 2, 3, "MAX") EXCEPT !.platformAccountId = "phase2"]}

LiveAccounts ==
  {[Fresh EXCEPT !.tradingDays = 1], [Fresh EXCEPT !.status = "CLOSED", !.enabled = FALSE]}
=============================================================================
