CONSTANTS
  Item = {milk, plate}
  Lot = {l1, l2}
  Movement = {m1, m2, m3}
  NoItem = NoItem
  NoLot = NoLot
  NoMovement = NoMovement
  Perishable = {milk}
  Durable = {plate}
  MaxQuantity = 2
  MaxLines = 2
  LastDay = 1
  ImportQuantity = {0, 2}
  Output = {o1, o2}
  Unit = {u1, u2}
  OutputRequest = {r1, r2}
  NoUnit = NoUnit
  Untouched = Untouched
  MaxInFlight = 2
SPECIFICATION Spec
SYMMETRY Symmetry
CHECK_DEADLOCK FALSE
INVARIANTS KitchenAddsUp
PROPERTIES QuantitiesAreExact OutputsDisposeOnce
