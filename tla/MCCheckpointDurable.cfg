CONSTANTS
  N <- MCN
  MaxSeq <- MCMaxSeq
  Absent = Absent
  NULL = NULL
  WriteCanFail = FALSE
  LockRunning = FALSE
SPECIFICATION Spec
INVARIANT
  CheckpointOnlyDurable
