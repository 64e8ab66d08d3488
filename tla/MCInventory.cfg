CONSTANTS
  d1 = d1
  d2 = d2
  u1 = u1
  u2 = u2
  u3 = u3
  Device = {d1, d2}
  Unit = {u1, u2, u3}
  DeviceOf <- MCDeviceOf
  Movement = {m1, m2, m3, m4, m5}
  Loan = {l1, l2}
  LoanItem = {i1, i2}
  NoMovement = NoMovement
  NoLoan = NoLoan
  MaintenanceInCondition = {"UNSET", "POOR"}
  ExitCondition = {"GOOD", "POOR", "BROKEN"}
  RowOrderMatches = TRUE
SPECIFICATION Spec
SYMMETRY Symmetry
CHECK_DEADLOCK FALSE
INVARIANTS TypeOK LedgerMatchesStock LentUnitsHaveOneLoan BooksAgree
PROPERTIES StepsAreLegal
