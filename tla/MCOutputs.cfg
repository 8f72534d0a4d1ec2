\* One id, two objects, three loops, two requests at once, two events besides
\* the start at boot.  The program idles when it has no request.
CONSTANTS
  i1 = i1
  Ids = {i1}
  Objs = {o1, o2}
  IdOf <- MCIdOf
  Loops = {k1, k2, k3}
  Clients = {c1, c2}
  None = None
  Torn = Torn
  MaxEvents = 2
SPECIFICATION FairSpec
INVARIANTS
  TypeOK
  BootRestores
  OneProcess
  Supervised
PROPERTIES
  SelfHeals
  StopsForGood
CHECK_DEADLOCK FALSE
