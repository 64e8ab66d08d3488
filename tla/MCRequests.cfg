CONSTANTS
  Parts = {"keys", "orders", "roster"}
  r1 = r1
  r2 = r2
  r3 = r3
  r4 = r4
  k1 = k1
  Request = {r1, r2, r3, r4}
  Key = {k1}
  NoKey = NoKey
  KeyOf <- MCKeyOf
  AuthorOf <- MCAuthorOf
  MaxPool = 2
  MaxTxAttempts = 2
  Line = {a, b}
  OrderRequest = {q1, q2, q3, q4}
  Keyed = {q1, q2}
  MaxQuantity = 1
  MaxInFlight = 2
  Repeats = 1
  Number = {"n1", "n2"}
  Staff = {"u1", "u2"}
  RosterClock = {"a", "b"}
  WordsOf <- MCWords
  NumberOf <- MCNumber
  FirstLinks <- MCFirst
  Punched = {"n2"}
  Removal = {"left"}
  ROSTER_GRACE_RUNS = 2
  ROSTER_GRACE = 2
  DropNum = 1
  DropDen = 2
  MaxMoves = 3
  MaxDesk = 2
SPECIFICATION Spec
CHECK_DEADLOCK FALSE
INVARIANTS RequestsAreSafe ReceiptsAddUp PendingIsGone
PROPERTIES RequestsAreAnswered OrdersMoveOn GoneIsNoticed
