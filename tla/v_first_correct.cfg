SPECIFICATION Spec
CONSTANTS
  Requests = {r1, r2}
  Rooms = {m1}
  RoomMode <- AllTimer
  Questions = {q1, q2}
  Checkable = {q1, q2}
  Difficulty <- Hardest
  Timings <- Quickly
  Verdicts = {"correct", "wrong"}
  LevelBadges = {1}
  StreakBadges = {2}
  XPBadges = {100}
  NoCard = NoCard
  Endpoints = {"answer"}
  Fallible = {}
  MaxDay = 1
  MaxSent = 2
INVARIANTS FirstCorrectIsRewarded
CHECK_DEADLOCK FALSE
