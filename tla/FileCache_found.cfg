SPECIFICATION FilesSpec
CONSTANTS
  Launchers = {l1, l2}
  Absent = Absent
CHECK_DEADLOCK FALSE
INVARIANT FoundRuns
