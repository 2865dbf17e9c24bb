\* Three processes, crashes, takeovers that overlap, and cycles longer than 24 hours.
SPECIFICATION FairSpec
CONSTANTS
  Procs = {p1, p2, p3}
  NoFile = NoFile
  Ageing = "any"
  MaxCrashes = 3
INVARIANTS TypeOK ExclusiveUnlessRobbed
PROPERTIES RobbedByTakeover OrphanRecovered
