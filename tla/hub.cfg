SPECIFICATION Spec
CONSTANTS
  c1 = c1
  c2 = c2
  everyone = everyone
  user1 = user1
  Clients = {c1, c2}
  Targets = {everyone, user1}
  Listens <- TwoClients
  SendCap = 1
  RegisterCap = 2
  UnregisterCap = 1
  BroadcastCap = 2
  MaxEvents = 3
CHECK_DEADLOCK FALSE
INVARIANTS
  TypeOK
  NoPanic
  CountsRegistered
  NoGaps
PROPERTIES
  ImplementsFeed
