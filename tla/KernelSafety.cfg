SPECIFICATION JobSpec
CONSTANTS
  MaxPid = 5
  Programs = {"zombify", "orphanify", "io"}
INVARIANTS JobsTypeOK ZombieReportable ShellSurvives FamilyInTable EveryChildListed TimerPaused JobsAreChildren JobsShowStatus
