CONSTANTS
  None = None
  Payouts = {p1}
  Keys = {k1}
  Calls = {c1, c2}
  Entitlements = {1}
  LastCycle = 1
  OnDemand = TRUE
  AutomaticReady = TRUE
  MaxFaults = 1
SPECIFICATION PayoutSpec
INVARIANTS
  PayoutTypeOK
  SunpayWordIsTrue
PROPERTIES
  ImplementsLedger
  SettlementIsRecorded
CHECK_DEADLOCK FALSE
