CONSTANTS
  t1 = t1  p = p  q = q  a = a  b = b
  v1 = v1  v2 = v2  v3 = v3  c1 = c1  c2 = c2  None = None
  Tasks = {t1}
  Impus = {p, q}
  Impis = {a, b}
  Profiles = {v1, v2, v3}
  Charging = {c1, c2}
  Requests <- AllRequests
  Caches <- MCCaches
  MaxBusy = 1
  Upsets = {"cacheFails"}
  MaxUpsets = 0
SPECIFICATION Spec
INVARIANTS AllSetsTerminated
CHECK_DEADLOCK FALSE
