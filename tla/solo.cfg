SPECIFICATION FairSpec
CONSTANTS
  q1 = q1
  q2 = q2
  q3 = q3
  b1 = b1
  b2 = b2
  Students = {s1, s2, s3}
  Questions = {q1, q2}
  Banks = {b1}
  InitialBank <- TwoQuestions
  NoQuestion = NoQuestion
  Modes = {"race"}
  HostReqs = {h1}
  Tabs = {t1}
  Endpoints = {"start", "join", "my_answer"}
  MaxRestarts = 0
  Fallible = {"insert", "advance"}
INVARIANTS
  AnswersMatchProgress
PROPERTIES
  ClosesWhenAllDone
