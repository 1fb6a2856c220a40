SPECIFICATION FilesOnDisk
CONSTANTS
  NULL = NULL
  w1 = w1
  o1 = o1
  o2 = o2
  Works = {w1}
  Operations = {o1, o2}
  Kinds = {"EDIT", "SUPPRESS", "RESTORE"}
  MaxVersion = 3
  StageAttempts = 2
  JobAttempts = 2
  MaxFaults = 1
  Absent = Absent
  Versions = {v1, v2}
  MaxCommands = 3
  MaxEdits = 1
  MaxThrows = 2
  MaxDeaths = 1
SYMMETRY Symmetry
INVARIANTS PublishedOnce CompletedIsPublished ListedIsNotSuppressed
           NothingDangles AllOrNothing UserEditsKept
PROPERTIES VersionsImmutable
CHECK_DEADLOCK FALSE
