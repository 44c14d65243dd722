CONSTANTS
  None = None
  EventIds <- MCEventIds
  PlatformIds = {"phase1", "phase2"}
  Operations = {"approval"}
  MinimumTradingDays = 1
  Events <- MCEvents
  Workers = {w1}
  InitialAccounts <- ReplicaAccounts
  BatchSize = 1
  RetryLimit = 1
  MaxEvents = 1
  MaxQueued = 1
  MaxFaults = 1
  CommandWorkers = {c1, c2}
  TradedLevels = {"NORMAL", "TARGET"}
  PhaseAccount <- MCPhaseAccount
SPECIFICATION LifecycleSpec
INVARIANTS
  LifecycleTypeOK
  OneLiveTraderAccount
  CompletedPhaseRejectsExposure
  CommandMatchesStatus
PROPERTIES
  PhaseTwoBeginsOnce
SYMMETRY Symmetry
CHECK_DEADLOCK FALSE
