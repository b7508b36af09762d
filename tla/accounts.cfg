SPECIFICATION Spec
CONSTANTS
  Requests = {r1, r2}
  Links = {l1,l2,l3}
  NoLink = NoLink
  Passwords = {p1,weak}
  Weak = {weak}
  Emails = {e1,e2}
  Known = e1
  IP = ip
  Burst <- SmallBuckets
  MaxRefills = 1
  MaxLapses = 1
  Fallible = {"update"}
SYMMETRY Symmetry
CHECK_DEADLOCK FALSE
INVARIANTS TypeOK LinkUsedOnce FewLinksLive GuessesAreLimited
