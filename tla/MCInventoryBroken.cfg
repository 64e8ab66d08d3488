CONSTANTS
  d1 = d1
  d2 = d2
  u1 = u1
  u2 = u2
  u3 = u3
  Device = {d1, d2}
  Unit = {u1, u2, u3}
  DeviceOf <- MCDeviceOf
  Movement = {m1, m2, m3, m4}
  Loan = {}
  LoanItem = {}
  NoMovement = NoMovement
  NoLoan = NoLoan
  MaintenanceInCondition = {"UNSET", "BROKEN"}
  ExitCondition = {"GOOD", "POOR", "BROKEN"}
  RowOrderMatches = TRUE
SPECIFICATION Spec
SYMMETRY Symmetry
CHECK_DEADLOCK FALSE
INVARIANTS LedgerMatchesStock
