CONSTANTS
  NR <- MCNR
  ReqKind <- MCReqKind
  ReqOff <- MCReqOff
  Offsets <- MCOffsets
  MaxInc <- MCMaxInc
  None = None
  PlacementCanFail = TRUE
  RpcWithinLease = TRUE
SPECIFICATION Spec
INVARIANT SuspendedIsResumable
CHECK_DEADLOCK FALSE
