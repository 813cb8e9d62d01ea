\* Jobs nobody has claimed are taken, while edges come and go.
SPECIFICATION FairSpec
CONSTANTS
  MaxJobs = 2
  Edges = {a, b}
  Workers = {w1}
  PageSize = 1
  Ops = {"reenqueue"}
  MaxCrashes = 0
  MaxEdits = 1
  NoEdge = NoEdge
INVARIANT TypeOK
PROPERTY NewJobsTaken
CHECK_DEADLOCK FALSE
