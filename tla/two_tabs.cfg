SPECIFICATION Spec
CONSTANTS
  q1 = q1
  q2 = q2
  q3 = q3
  b1 = b1
  b2 = b2
  Students = {s1}
  Questions = {q1, q2, q3}
  Banks = {b1}
  InitialBank <- TwoQuestions
  NoQuestion = NoQuestion
  Modes = {"timer", "race"}
  HostReqs = {h1}
  Tabs = {t1, t2}
  Endpoints = {"start", "append", "finish", "restart", "join", "my_answer"}
  MaxRestarts = 1
  Fallible <- Statements
SYMMETRY Symmetry
PROPERTIES
  FinishedForGood
