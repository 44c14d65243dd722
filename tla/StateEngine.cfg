CONSTANTS
  None = None
  EventIds <- MCEventIds
  PlatformIds = {"phase1", "phase2"}
  Operations = {"approval"}
  MinimumTradingDays = 1
  Events <- MCEvents
  Workers = {w1, w2}
  InitialAccounts <- MCInitialAccounts
  BatchSize = 2
  RetryLimit = 1
  MaxEvents = 3
  MaxQueued = 1
  MaxFaults = 1
SPECIFICATION EngineSpec
INVARIANTS
  TypeOK
  BreachedAccountIsShut
  CommandMatchesStatus
  DealsAccountedFor
PROPERTIES
  StampedMetricsNeverRollBack
  BreachIsTerminal
  BreachEvidenceKept
  AppliesEventsInTurn
SYMMETRY Symmetry
CHECK_DEADLOCK FALSE
