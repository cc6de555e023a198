SPECIFICATION Spec
CONSTANTS
  p2 = p2  p3 = p3  p4 = p4  p5 = p5
  Shell = p2
  Pid = {p2, p3, p4, p5}
  InitProc = init
  Garbage = {0, 2}
  SpawnNice <- EveryLevel
  ReniceTo = {}
  ArmedReaps = 0
SYMMETRY Symmetric
INVARIANTS TypeOK OneNode NoneLost QueuedHavePcb SomethingToSchedule
