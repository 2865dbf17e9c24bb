\* A push of content that fills its frames exactly; encrypted, it needs one
\* frame more.  Nothing goes wrong.
SPECIFICATION Spec
CONSTANTS
  Main = "main"
  Workers = {"w1"}
  Conns = {"main", "w1"}
  Files = {"a"}
  Sizes = {2}
  chunkSize = 2
  Overhead = 1
  Faults = {}
  MaxUid = 2
  NumJobs = 1
  maxRetries = 3
  TripAfter = 3
  MaxRequests = 1
  Troubles = {}
  MaxCalls = 1
  MaxMixed = 0
  MaxTimeouts = 0
INVARIANTS
  PushedWhole
CHECK_DEADLOCK FALSE
