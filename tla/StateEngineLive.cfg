CONSTANTS
  None = None
  EventIds <- MCEventIds
  PlatformIds = {"phase1", "phase2"}
  Operations = {"approval"}
  MinimumTradingDays = 1
  Events <- LiveEvents
  Workers = {w1, w2}
  InitialAccounts <- LiveAccounts
  BatchSize = 2
  RetryLimit = 1
  MaxEvents = 2
  MaxQueued = 1
  MaxFaults = 1
SPECIFICATION EngineSpec
PROPERTIES
  PendingCommandIsQueued
  SnapshotsLand
CHECK_DEADLOCK FALSE
