CONSTANTS
  Parts = {"supply", "import", "reconcile", "setup", "rooms"}
  x1 = x1
  x2 = x2
  y1 = y1
  y2 = y2
  q1 = q1
  q2 = q2
  SupplyItem = {"i1"}
  Order = {"o1"}
  KitchenUnit = {y1, y2}
  Cost = {1, 2}
  Factor = {1, 3}
  StockLimit = {1, 2}
  Updater = {x1, x2}
  MaxLots = 2
  MaxInvoices = 1
  MaxSupplyChanges = 2
  Type = {"generic", "t1"}
  Name = {"a"}
  Model = {"m", "missing"}
  Code = {1}
  Prefix = {1, 2}
  File <- MCFile
  RequestId = {x1, x2}
  MaxImportRows = 2
  MaxImportUnits = 2
  MaxRowQuantity = 2
  Importer = {y1, y2}
  MaxChanges = 3
  UNITS = 2
  Runner = {y1, y2}
  MaxRows = 5
  MaxRuns = 2
  MaxOps = 1
  Zone = {"b1", "f1", "z"}
  SetupRoom = {"r1"}
  RoomType = {"t1"}
  Kit = {"k1"}
  Product = {"p1"}
  MeasureUnit = {"pz", "kg"}
  Store = {"w1"}
  Supervisor = {"sue"}
  Editor = {x1, x2}
  MaxEdits = 3
  Focus <- MCFocus
  FirstBuilding = "b1"
  FirstFloor = "f1"
  FirstType = "t1"
  FirstKit = "k1"
  FirstUnit = "pz"
  Room = {r1}
  Task = {x1, x2}
  Request = {q1, q2}
  NoRoom = NoRoom
  MaxExtra = 1
SPECIFICATION Spec
SYMMETRY Symmetry
CHECK_DEADLOCK FALSE
INVARIANTS HotelFitsTogether
PROPERTIES SupplyIsSound LoadsAsPlanned RepairsAreExact RoomsAreServed
