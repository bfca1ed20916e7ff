\* Two requests for one or two urls; the requests end, hence no deadlock check.
CONSTANTS
  Clients = {c1, c2}
  Urls = {u1, u2}
  Entry = {e1, e2}
  CACHE_MAX_BYTES = 2
  Length = 2
  FirstCapacity = 1
  Pending = Pending
  Refused = Refused
  None = None
SPECIFICATION FairSpec
INVARIANTS TypeOK UsedWithinLimit UsedIsAccounted ServedWhole OwnEntryStays FetcherKeepsEntry
PROPERTIES AnswersAreShared EveryRequestEnds
CHECK_DEADLOCK FALSE
