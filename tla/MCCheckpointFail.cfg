CONSTANTS
  N <- MCN
  MaxSeq <- MCMaxSeq
  Absent = Absent
  NULL = NULL
  WriteCanFail = TRUE
  LockRunning = FALSE
SPECIFICATION Spec
INVARIANT
  RecoveryMatchesLog
