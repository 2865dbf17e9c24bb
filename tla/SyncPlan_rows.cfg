\* One path of each kind, without renames: every row of records of one path.
SPECIFICATION Spec
CONSTANTS
  None = None
  Paths = {note, conf, img}
  TextPaths = {note}
  JsonPaths = {conf}
  Focus = {{note}, {conf}, {img}}
  Hashes = {h1, h2, h3}
  Times = {1, 2, 3}
  Renames <- NoRenames
INVARIANTS DeletionsNeedConsent NoActionOnlyWhenSettled ReplanAfterCrashIsEmpty
CHECK_DEADLOCK FALSE
