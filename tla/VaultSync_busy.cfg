\* User and devices edit during cycles; removals, downloads and echoes go wrong.
SPECIFICATION Spec
CONSTANTS
  None = None
  Paths = {doc, img}
  TextPaths = {}
  JsonPaths = {}
  Faults = {"userInCycle", "deviceInCycle", "downloadFails", "removeFails", "lateEcho"}
  MaxEdits = 3
  MaxAborts = 1
PROPERTY FirstSyncDeletesNothing
