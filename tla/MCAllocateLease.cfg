CONSTANTS
  NR <- MCNR
  ReqKind <- MCReqKind
  ReqOff <- MCReqOff
  Offsets <- MCOffsets
  MaxInc <- MCMaxInc
  None = None
  PlacementCanFail = FALSE
  RpcWithinLease = FALSE
SPECIFICATION Spec
INVARIANT NoVersionReuse
CHECK_DEADLOCK FALSE
