CONSTANTS
  d1 = d1  a1 = a1  d2 = d2  p1 = p1  p2 = p2
  s1 = s1  s2 = s2  w1 = w1  w2 = w2  w3 = w3
  full = full  short = short  barring = barring  other = other
  NoImpu = NoImpu  NoProfile = NoProfile  NoStore = NoStore
  NoCharging = NoCharging
  Impus = {d1}
  Impis = {p1}
  Profiles = {short}
  Charging = {NoCharging}
  PublicIdentities <- MCPublicIdentities
  Stores = {s1, s2}
  Workers = {w1, w2, w3}
  Sites <- TwoSites
  Requests <- RegisterCallPush
  MaxOps = 3
  OneAtATime = FALSE
  Upsets = {}
  MaxUpsets = 0
SPECIFICATION Spec
PROPERTIES NeverDowngraded
CHECK_DEADLOCK FALSE
