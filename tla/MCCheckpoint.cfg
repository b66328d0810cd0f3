CONSTANTS
  N <- MCN
  MaxSeq <- MCMaxSeq
  Absent = Absent
  NULL = NULL
  WriteCanFail = FALSE
  LockRunning = FALSE
SPECIFICATION Spec
INVARIANTS
  TypeOK
  RecoveryMatchesLog
  CheckpointHasStartSnapshot
PROPERTIES
  CheckpointStarts
