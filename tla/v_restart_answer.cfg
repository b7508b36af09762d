SPECIFICATION Spec
CONSTANTS
  q1 = q1
  q2 = q2
  q3 = q3
  b1 = b1
  b2 = b2
  Students = {s1}
  Questions = {q1}
  Banks = {b1}
  InitialBank <- OneQuestion
  NoQuestion = NoQuestion
  Modes = {"timer"}
  HostReqs = {h1}
  Tabs = {t1}
  Endpoints = {"start", "finish", "restart", "join", "my_answer"}
  MaxRestarts = 1
  Fallible = {}
INVARIANTS
  NewRoundIsClean
