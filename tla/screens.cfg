SPECIFICATION Spec
CONSTANTS
  q1 = q1
  q2 = q2
  Students = {s1}
  Questions = {q1, q2}
  Banks = {b1}
  InitialBank <- TwoQuestions
  NoQuestion = NoQuestion
  Modes = {"classic"}
  HostReqs = {h1}
  Tabs = {t1}
  Endpoints = {"start", "next", "review", "finish", "answer"}
  MaxRestarts = 0
  Fallible = {"answer", "activate", "review", "finish"}
  Mishaps = {"student_reopens", "student_unanswered"}
  MaxCuts = 1
  Hasty = FALSE
SYMMETRY Symmetry
CHECK_DEADLOCK FALSE
INVARIANTS TypeOK AnsweredIsOnRecord NoAnswerAfterReveal ExplainedStaysClosed ReviewsWhatIsShown 
