SPECIFICATION Spec
CONSTANTS
  Requests = {r1}
  Rooms = {m1}
  RoomMode <- AllTimer
  Questions = {q1}
  Checkable = {q1}
  Difficulty <- Hardest
  Timings <- InstantOnly
  Verdicts = {"correct"}
  LevelBadges = {}
  StreakBadges = {}
  XPBadges = {}
  NoCard = NoCard
  Endpoints = {"answer", "review"}
  Fallible = {}
  MaxDay = 1
  MaxSent = 12
INVARIANTS DueAfterReview
CHECK_DEADLOCK FALSE
