CONSTANTS
  N <- MCN
  MaxSeq <- MCMaxSeq
  Absent = Absent
  NULL = NULL
  WriteCanFail = FALSE
  LockRunning = TRUE
SPECIFICATION Spec
PROPERTIES
  CheckpointStarts
