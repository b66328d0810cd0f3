CONSTANTS
  Names = {a, b}
  FhVals <- MCFhVals
  RepVals <- MCRepVals
  OwVals <- MCOwVals
  MaxFid <- MCMaxFid
  MaxLog <- MCMaxLog
  OffVals <- MCOffVals
  MaxChunk <- MCMaxChunk
  MaxSusp <- MCMaxSusp
  Absent = Absent
SPECIFICATION Spec
INVARIANTS ReplicasInRange
