\* The user edits a file, deletes it after a sync, moves another one to its path
\* and deletes that too.
SPECIFICATION Spec
CONSTANTS
  None = None
  TextPaths = {}
  JsonPaths = {}
  a = a
  b = b
  Paths = {a, b}
  Races = {"replaced"}
  MaxOps = 4
  MaxFails = 0
PROPERTY NoResurrection
CHECK_DEADLOCK FALSE
