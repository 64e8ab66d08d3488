SPECIFICATION Spec
CONSTANTS
  Emails = 2
  Cycle = {c1, c2}
  BatchSize = 2
  Concurrency = 2
  MaxAttempts = 2
  MaxCrashes = 1
  MaxAdmin = 1
  MaxFailures = 1
  Check = {"low", "over"}
  Problem <- MCProblem
  CheckOf <- MCCheckOf
  User = {"ana", "eva"}
  Language = {"es", "en"}
  MaxChanges = 3
  MaxAlertFaults = 1
INVARIANTS LogIsTrue
PROPERTIES Settles AlertsCatchUp
CHECK_DEADLOCK FALSE
