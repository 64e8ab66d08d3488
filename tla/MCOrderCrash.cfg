CONSTANTS
  Parts = {"orders"}
  r1 = r1
  r2 = r2
  r3 = r3
  r4 = r4
  k1 = k1
  Request = {r1, r2, r3, r4}
  Key = {k1}
  NoKey = NoKey
  KeyOf <- MCKeyOf
  AuthorOf <- MCAuthorOf
  MaxPool = 2
  MaxTxAttempts = 2
  Line = {a}
  OrderRequest = {q1, q2, q3}
  Keyed = {q1, q2}
  MaxQuantity = 2
  MaxInFlight = 1
  Repeats = 1
  Number = {"n1", "n2"}
  Staff = {"u1", "u2"}
  RosterClock = {"a", "b"}
  WordsOf <- MCWords
  NumberOf <- MCNumber
  FirstLinks <- MCFirst
  Punched = {"n2"}
  Removal = {"left"}
  ROSTER_GRACE_RUNS = 2
  ROSTER_GRACE = 2
  DropNum = 1
  DropDen = 2
  MaxMoves = 3
  MaxDesk = 2
SPECIFICATION SafetySpec
CHECK_DEADLOCK FALSE
INVARIANTS ReplayedReceiptsAreCounted
