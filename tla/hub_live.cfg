SPECIFICATION FairSpec
CONSTANTS
  c1 = c1
  c2 = c2
  everyone = everyone
  user1 = user1
  Clients = {c1, c2}
  Targets = {everyone}
  Listens <- SameUser
  SendCap = 1
  RegisterCap = 1
  UnregisterCap = 1
  BroadcastCap = 1
  MaxEvents = 2
CHECK_DEADLOCK FALSE
PROPERTIES
  EvictedIsClosed
  PumpsEnd
