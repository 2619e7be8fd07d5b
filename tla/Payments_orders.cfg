CONSTANTS
  Purchases = {p1, p2}
  Chats = {c1, c2}
  Amounts = {1}
  OrderAmounts = {0, 1}
  DailyLimit = 1
  MaxDay = 1
SPECIFICATION Spec
INVARIANTS
  TypeOK ChargesCount WithinDailyLimit NeverBoughtTwice
CHECK_DEADLOCK FALSE
SYMMETRY Alike
