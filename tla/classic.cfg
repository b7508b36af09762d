SPECIFICATION Spec
CONSTANTS
  q1 = q1
  q2 = q2
  q3 = q3
  b1 = b1
  b2 = b2
  Students = {s1}
  Questions = {q1, q2, q3}
  Banks = {b1}
  InitialBank <- TwoQuestions
  NoQuestion = NoQuestion
  Modes = {"classic"}
  HostReqs = {h1, h2}
  Tabs = {t1}
  Endpoints = {"start", "next", "review", "finish", "append", "join", "leave", "answer", "admin_finish", "delete_answer"}
  MaxRestarts = 0
  Fallible <- Statements
SYMMETRY Symmetry
INVARIANTS
  TypeOK
  AskedOnce
  AskedInOrder
