SPECIFICATION Spec
CONSTANTS
  Requests = {r1, r2}
  Rooms = {m1}
  RoomMode <- AllRace
  Questions = {q1, q2}
  Checkable = {q1}
  Difficulty <- Hardest
  Timings <- QuickOrLate
  Verdicts = {"correct", "wrong", "unchecked"}
  LevelBadges = {1}
  StreakBadges = {2}
  XPBadges = {100}
  NoCard = NoCard
  Endpoints = {"answer", "restart", "review"}
  Fallible = {"list_progress", "add_xp", "count_room"}
  MaxDay = 2
  MaxSent = 3
SYMMETRY RequestSymmetry
INVARIANTS LevelNeverAhead StreakIsEarned  TypeOK CardsAreShaped RepetitionsAreEarned
CHECK_DEADLOCK FALSE
