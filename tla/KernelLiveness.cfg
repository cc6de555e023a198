SPECIFICATION AnsweredJobs
CONSTANTS
  MaxPid = 4
  Programs = {"sleep", "orphanify", "ps"}
PROPERTIES ChildReaped HangEnds ImplementsLife DeadJobsLeave
