CONSTANTS
  t1 = t1  t2 = t2  p = p  w = w  v = v  a = a  b = b
  None = None
  Tasks = {t1, t2}
  PublicIds = {p, w, v}
  PrivateIds = {a, b}
  HttpRequests <- MCRequests
  Documents <- MCDocuments
  Charging <- MCCharging
  Rows <- MCRows
  Caches <- MCCaches
  HssWildcards <- MCWildcards
  MaxBusy = 2
  Upsets = {"cacheFails", "answerLost", "ages", "expires"}
  MaxUpsets = 1
SPECIFICATION MCSpec
INVARIANTS TypeOK OneReply CacheMatchesHss
PROPERTIES CacheFollowsHss AnswerHolds EveryTaskEnds
CHECK_DEADLOCK FALSE
