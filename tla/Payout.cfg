CONSTANTS
  None = None
  Payouts = {p1, p2}
  Keys = {k1, k2}
  Calls = {c1, c2}
  Entitlements = {1, 2}
  LastCycle = 3
  OnDemand = FALSE
  AutomaticReady = FALSE
  MaxFaults = 0
SPECIFICATION PayoutSafetySpec
INVARIANTS
  NeverOvercommitted
PROPERTIES
  ImplementsLedger
SYMMETRY Symmetry
CHECK_DEADLOCK FALSE
