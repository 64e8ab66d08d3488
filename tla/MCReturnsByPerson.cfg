CONSTANTS
  x1 = x1
  x2 = x2
  u3 = u3
  y1 = y1
  y2 = y2
  z1 = z1
  z2 = z2
  Visitor = {z1, z2}
  Site = {"main"}
  EventKey = {x1, x2, u3}
  Scan = {y1, y2}
  GATE_DAY = 2
  DUPLICATE_WINDOW = 1
  LOOKBACK_DAYS = 1
  MaxGateTime = 3
  MaxAccessEvents = 3
  MaxOffice = 1
  FirstYear = 2028
  FirstDay = 1
  LastDay = 400
  FirstWeekday = 6
  OffsetBefore <- MCOffset
  Shift <- MCShift
  ChangeDay = {60, 366}
  WeekStart = {4}
  Schedule = {"first", "second"}
  Grid = {"day", "night"}
  Boss = {x1, x2}
  Selection <- MCSelection
  Plan <- MCPlan
  RestDay <- MCRest
  PunchTime = {5, 6, 9, 11, 14}
  DAY = 6
  WEST = 1
  DUPLICATE = 2
  MAX_WORKDAY = 3
  DEFAULT_WORKDAY = 2
  LOOKBACK_DAYS_CLOCK = 1
  LastLocalDay = 2
  MaxPunches = 4
  MaxPaper = 2
  MaxBusy = 6
  ReportUnit = {x1, x2, u3}
  NewUnit = {u3}
  DeviceOf <- MCDeviceOf
  TypeOf <- MCTypeOf
  Custodian = {z1, z2}
  Dept = {"it"}
  REPORT_DAY = 1
  LastInstant = 1
  MaxLoans = 2
  MaxReturns = 1
  MaxEdits = 1
  Area = {"none", "a", "b"}
  NoArea = "none"
  Payer = {x1, x2}
  MaxClerk = 4
  Serial = {1}
  Address = {"a"}
  NoAddress = "none"
  Person = {"p"}
  Watcher = {x1, x2}
  HOURS = 2
  DEVICE_READ_TTL = 1
  MaxTime = 2
  MaxStoredPunches = 2
  MaxEvents = 2
SPECIFICATION Spec
SYMMETRY Symmetry
CHECK_DEADLOCK FALSE
INVARIANTS DaysMatchTotals
