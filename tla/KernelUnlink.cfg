SPECIFICATION FairSpec
CONSTANTS
  MaxPid = 4
  Programs = {"sleep", "busy", "orphanify"}
INVARIANTS WaitReturns
