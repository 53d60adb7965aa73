SPECIFICATION Spec
CONSTANTS
    Null = Null
    DayLen = 2
    BackupHour = 0
    RetentionDays = 1
    MinKeep = 1
    MaxRun = 1
    MaxRuns = 2
    MaxClock = 5
INVARIANTS
    ServiceInv
    VerifiedBackupKept
PROPERTIES
    VerdictIsFinal
    RetentionKeepsYoung
    RunsWhenDue
    NextRunIsTomorrow
