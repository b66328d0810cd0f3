CONSTANTS
  NR <- MCNR
  ReqKind <- MCReqKind
  ReqOff <- MCReqOff
  Offsets <- MCOffsets
  MaxInc <- MCMaxInc
  None = None
  PlacementCanFail = TRUE
  RpcWithinLease = TRUE
SPECIFICATION Spec
INVARIANTS TypeOK NoVersionReuse
PROPERTIES AllocationsAnswered
CHECK_DEADLOCK FALSE
