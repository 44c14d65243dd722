CONSTANTS
  None = None
  Kinds = {"CHALLENGE", "DEMO", "MASTER"}
  MaxCalls = 3
  MaxAtOnce = 2
  MaxFaults = 1
SPECIFICATION AccessSpec
INVARIANTS
  AccessTypeOK
  BlockedIsShut
  DisabledIsShut
  ReviewIsApprovable
PROPERTIES
  ApprovalEnds
  OrphansClosed
CHECK_DEADLOCK FALSE
