CONSTANTS
  c0 = c0
  c1 = c1
  t1 = t1
  NoMsg = NoMsg
  Proc = {p1, p2}
  Chan = {c0, c1}
  Task = {t1}
  Capacity <- MCCapacity
  Forms <- EarlyAfterForms
  Closable = {}
  MaxSelects = 1
SPECIFICATION Spec
CHECK_DEADLOCK FALSE
INVARIANTS TakenIsDelivered
