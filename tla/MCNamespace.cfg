CONSTANTS
  Names = {a, b}
  FhVals <- MCFhVals
  RepVals <- MCRepValsNamespace
  OwVals <- MCOwVals
  MaxFid <- MCMaxFid
  MaxLog <- MCMaxLog
  OffVals <- MCOffVals
  MaxChunk <- MCMaxChunk
  MaxSusp <- MCMaxSusp
  Absent = Absent
SPECIFICATION Spec
SYMMETRY NameSymmetry
INVARIANTS TypeOK ReplayReproduces ReaddirListsChildren AllocateReplyMatchesTree
PROPERTIES AbsSpec
