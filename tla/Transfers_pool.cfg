\* Two workers download two files of two frames; or a plan of up to two calls
\* on the main connection runs beside another device.  Requests are refused,
\* connections break, dials and writes fail, the sync is cancelled.  After two
\* failed dials of the three that a worker makes the breaker opens, once.
SPECIFICATION Spec
CONSTANTS
  Main = "main"
  Workers = {"w1", "w2"}
  Conns = {"main", "w1", "w2"}
  Files = {"a"}
  Sizes = {0, 3}
  chunkSize = 2
  Overhead = 1
  Faults = {"refused", "broken"}
  MaxUid = 3
  NumJobs = 2
  maxRetries = 3
  TripAfter = 2
  MaxRequests = 1
  Troubles = {"dialFails", "writeFails", "cancel"}
  MaxCalls = 2
  MaxMixed = 0
  MaxTimeouts = 1
INVARIANTS
  ProbesBounded
  PullsAsRecorded
  PushedWhole
  InStep
  NewsKept
PROPERTY PoolKeepsPromise
CHECK_DEADLOCK FALSE
