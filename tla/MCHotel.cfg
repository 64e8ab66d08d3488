CONSTANTS
  w1 = w1
  Warehouse = {w1}
  Position = {p1, p2}
  WarehouseOf <- MCWarehouseOf
  HotelMovement = {m1, m2, m3}
  Count = {c1}
  PostType = {"INBOUND", "TRANSFER", "ROOM_CONSUMPTION", "ADJUST_IN"}
  NoPosition = NoPosition
  MaxPieces = 1
  MaxStock = 1
  Threshold = 0
SPECIFICATION HotelSpec
SYMMETRY Symmetry
CHECK_DEADLOCK FALSE
INVARIANTS HotelAddsUp
PROPERTIES ApprovedEqualsCount
