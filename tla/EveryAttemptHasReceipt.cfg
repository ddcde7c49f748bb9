\* The instance of StageA.cfg.
CONSTANTS
  t1 = t1
  t2 = t2
  Tasks = {t1, t2}
  Baseline = "T0"
  Assisted = {"T1"}
  Order <- MCOrder
  Limit <- MCLimit
  Modes = {"v1_live", "v1_stub", "v2_stub"}
  Estimates = {1}
  Overrun = 0
  MaxRequests = 4
  MaxTotal = 3
  MaxRequest = 2
  Timeout = 1
SPECIFICATION Spec
INVARIANT EveryAttemptHasReceipt
CHECK_DEADLOCK FALSE
