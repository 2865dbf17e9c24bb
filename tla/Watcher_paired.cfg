\* Files come, go, move and change beside rescans, a directory that arrives
\* and leaves, renames by other devices, and a stop.
SPECIFICATION Spec
CONSTANTS
  a = a
  x = x
  c = c
  d = d
  none = none
  Files = {a, x, c}
  Dir = d
  Inside = {c}
  Excluded = {x}
  Inodes = {1, 2, 3}
  None = none
  Races = {"recreate", "rescan", "remoteRename", "directory", "stop"}
  OutCap = 1
  MaxOps = 3
INVARIANTS HeldInv ReportsTrue
PROPERTY AllNoticed
CHECK_DEADLOCK FALSE
