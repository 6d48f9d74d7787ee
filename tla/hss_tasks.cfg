CONSTANTS
  t1 = t1  t2 = t2
  Tasks = {t1, t2}
  Questions <- MCQuestions
  Answers <- MCAnswers
  Facts <- MCFacts
  Rows <- MCRows
  DestHost = "host"
SPECIFICATION FairSpec
INVARIANTS TypeOK ReplyTellsFate MonitorsAreTold HssHearsQuestion SproutHearsAnswer
PROPERTIES EveryTaskReplies
CHECK_DEADLOCK FALSE
