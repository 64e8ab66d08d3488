CONSTANTS
  Parts = {"access", "policies", "tickets", "accounts", "clocks", "records", "settings"}
  x1 = x1
  x2 = x2
  Roles = {"ADMIN", "CHEF"}
  SystemRoles = {"ADMIN"}
  Permissions = {"roles.manage", "tickets.view"}
  Manage = "roles.manage"
  Sensitive = {"roles.manage"}
  Users = {"ana", "eva"}
  Requests = {x1, x2}
  MaxOps = 2
  ScopeChoices <- MCScopeChoices
  CellScopes = {"NONE", "OWN", "ALL"}
  Batches <- MCBatches
  PolicyId = {1, 2, 3, 4}
  CustomRoles = {"CHEF"}
  Priorities = {5, 20, 40}
  Totals = {1, 5}
  MaxEdits = 2
  Ticket = {"t1"}
  Person = {"emp", "head", "boss", "adm"}
  Department = {"d1"}
  Category = {"c1"}
  RoleOf <- MCRoleOf
  DepartmentOf <- MCDepartmentOf
  Deactivated = {"boss"}
  Matrix <- MCMatrix
  TicketRequests = {x1, x2}
  MaxTicketWrites = 2
  MaxCrossedWrites = 2
  User = {"ana", "adm"}
  Admin = "adm"
  Column = {"TicketComment.author", "TicketHistory.author", "Loan.custodian", "PurchaseOrder.createdBy", "Notification.user", "HotelMovement.approvedBy"}
  Departments = {"d1"}
  SubareasOf <- MCSubareasOf
  Removals = {x1, x2}
  MaxRows = 2
  MaxAccountOps = 2
  Device = {"mock", "real"}
  Mock = {"mock"}
  Counting = {"mock", "real"}
  Worker = {"w1", "w2"}
  Card = {"k1"}
  Finger = {"f1"}
  Job = {x1, x2}
  MAX_FINGERS_PER_PERSON = 1
  MaxJobs = 3
  MaxLapses = 2
  Employee = {"ana", "leo"}
  DocType = {"ine"}
  CatalogValue = {"f"}
  ProfileField = {}
  Clerks = {x1, x2}
  MaxFiles = 2
  MaxRequests = 4
  Key = {"recipients"}
  Setting = {"x", " "}
  Absent = "absent"
  Accepted <- MCAccepted
  RECIPIENTS = "recipients"
  Blank = " "
  ENV_RECIPIENTS = "x"
  Client = {x1, x2}
  CACHE_TTL = 1
  REQUEST_TIME = 1
  MaxTime = 3
  Deployment <- MCDeployment
  MaxWrites = 2
SPECIFICATION Spec
SYMMETRY Symmetry
CHECK_DEADLOCK FALSE
INVARIANTS PermissionAnswersAgree DutiesStaySegregated ClockWritesAreSafe AnswersAreRecent
PROPERTIES RolesStayUsable TicketsAreConsistent RemovalsAreClean RecordsAreKept
