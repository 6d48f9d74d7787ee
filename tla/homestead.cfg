CONSTANTS
  d1 = d1  d2 = d2  h1 = h1  p = p  q = q  a = a  b = b  c1 = c1  c2 = c2
  None = None
  Tasks = {d1, d2}
  HttpTasks = {h1}
  Impus = {p, q}
  Impis = {a, b}
  Profiles <- MCProfiles
  Charging = {c1, c2}
  Requests <- MCRequests
  HttpRequests <- MCHttpRequests
  Caches <- MCCaches
  Subscriptions <- MCSubscriptions
  HssData <- MCHssData
  MaxBusy = 2
  Upsets = {"cacheFails"}
  HttpUpsets = {"cacheFails", "answerLost", "ages", "expires"}
  MaxUpsets = 1
  HttpRejections = {"SERVER_UNAVAILABLE", "NOT_FOUND"}
SPECIFICATION MCSpec
INVARIANTS HomesteadTypeOK AllAgree OneAnswer
PROPERTIES SproutComesFirst EveryRequestEnds
CHECK_DEADLOCK FALSE
