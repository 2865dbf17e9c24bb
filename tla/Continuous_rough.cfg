\* Everything goes wrong, and whatever can go on goes on.
SPECIFICATION FairSpec
CONSTANTS
  p = p
  c1 = c1
  c2 = c2
  Paths = {p}
  Calls = {c1, c2}
  Listing = "newer"
  Faults = {"newsInCycle", "callInTail", "connectionLost", "silence", "stop", "stopInCycle", "cycleFails"}
  MaxChanges = 2
  MaxLosses = 2
INVARIANTS TypeOK OneCycleAtATime ForgottenOnlyByLapse
PROPERTIES ServedOrMarked CatchesUp
CHECK_DEADLOCK FALSE
