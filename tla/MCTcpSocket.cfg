CONSTANTS
  MaxFds <- MCMaxFds
  PeerBytes <- MCPeerBytes
  BufLens <- MCBufLens
  DiscardBufSize <- MCDiscardBufSize
  SndBuf <- MCSndBuf
  MaxTmo <- MCMaxTmo
  SelectUpdatesTimeout = TRUE
SPECIFICATION Spec
INVARIANTS TypeOK CounterMatchesOpenFds
PROPERTIES RecvTerminates SendTerminates
