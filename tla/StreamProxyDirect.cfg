\* Two requests for one or two urls; the requests end, hence no deadlock check.
CONSTANTS
  Clients = {c1, c2}
  Urls = {u1, u2}
  Entry = {e1, e2}
  CACHE_MAX_BYTES = 4
  Length = 3
  FirstCapacity = 2
  None = None
SPECIFICATION Spec
INVARIANT DirectWhenDisabled
CHECK_DEADLOCK FALSE
