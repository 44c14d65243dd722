CONSTANTS
  None = None
  EventIds <- MCEventIds
  PlatformIds = {"phase1", "phase2"}
  Operations = {"approval"}
  MinimumTradingDays = 1
  Events <- MCEvents
  Workers = {w1}
  InitialAccounts <- MCInitialAccounts
  BatchSize = 1
  RetryLimit = 1
  MaxEvents = 1
  MaxQueued = 1
  MaxFaults = 1
  CommandWorkers = {c1}
  TradedLevels = {"NORMAL", "TARGET", "DAILY"}
  PhaseAccount <- MCPhaseAccount
SPECIFICATION LifecycleSpec
PROPERTY
  BreachIsTerminal
CHECK_DEADLOCK FALSE
