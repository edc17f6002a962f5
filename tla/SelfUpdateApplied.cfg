SPECIFICATION UpdateSpec
CONSTANTS
  Task = {t1}
  MaxRelease = 2
  HashMayFail = FALSE
PROPERTY StagedIsApplied
