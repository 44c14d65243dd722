CONSTANTS
  None = None
  Providers = {"nowpayments"}
  Callers = {c1, c2}
  Workers = {w1}
  MaxJobs = 1
  MaxFaults = 0
SPECIFICATION PaymentSafetySpec
PROPERTIES
  PaidStaysPaid
CHECK_DEADLOCK FALSE
