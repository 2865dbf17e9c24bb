\* Renames on both sides that keep out of each other's way: up to four edits,
\* moves or deletions by anybody of two files, in any order, and one cycle that
\* fails, or a restart.  The watcher may miss a rename.
SPECIFICATION Spec
CONSTANTS
  None = None
  TextPaths = {}
  JsonPaths = {}
  a = a
  b = b
  Paths = {a, b}
  Races = {"unpaired"}
  MaxOps = 4
  MaxFails = 1
PROPERTIES
  LocalEditsKept
  ServerEditsKept
  NoResurrection
  Converges
CHECK_DEADLOCK FALSE
