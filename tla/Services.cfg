CONSTANTS
  None = None
  Providers = {"nowpayments", "rupex", "sunpay"}
  Callers = {c1}
  Workers = {w1, w2}
  MaxJobs = 1
  MaxFaults = 1
  Nobody = Nobody
  MaxVaultCalls = 2
  Postmen = {p1, p2}
  MaxLapses = 1
  Mails = {m1}
  NoMail = NoMail
  Clerks = {h1, h2}
  MaxCases = 2
  MaxFailures = 1
  Unlocked = Unlocked
  Instances = {i1, i2}
  MaxSnapshots = 3
  MaxDeliveries = 3
  MaxUpsets = 2
  Deals <- DealsOfTwoDays
  Missing = Missing
  Untraced = Untraced
  Bookers = {j1}
  SyncAttempts = 2
  MaxHalts = 1
  Addresses = {a1, a2}
  NoAddress = NoAddress
  Goods = {g0}
  Legacy = {g0}
  Requests = {r1, r2}
  MaxCustomers = 2
  MaxMoves = 1
SPECIFICATION ServicesSpec
INVARIANTS
  ServicesTypeOK
  OnlyPaidIsActivated
  OneActivationAtATime
  MailsCounted
  VaultMatchesTrader
  MailedIsCurrent
  AckedIsRecorded
  NothingLeftBehind
  RepairStands
  BoughtIsReached
PROPERTIES
  PaidIsServed
  EscalationIsSticky
CHECK_DEADLOCK FALSE
