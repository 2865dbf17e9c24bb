\* Edits of all kinds of files between cycles, a cycle that stops anywhere;
\* merges fail and pushes are rejected.
SPECIFICATION FairSpec
CONSTANTS
  None = None
  Paths = {note, conf, img}
  TextPaths = {note}
  JsonPaths = {conf}
  Faults = {"mergeFails", "pushRejected"}
  MaxEdits = 4
  MaxAborts = 1
INVARIANTS TypeOK BaselineAgrees NoSilentDivergence
PROPERTIES EditsOnlyLostByRule NoResurrection ServerNeverGoesBack Converges SettledFilesUntouched
