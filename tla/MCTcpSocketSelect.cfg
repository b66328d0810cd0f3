CONSTANTS
  MaxFds <- MCMaxFds
  PeerBytes <- MCPeerBytes
  BufLens <- MCBufLens
  DiscardBufSize <- MCDiscardBufSize
  SndBuf <- MCSndBuf
  MaxTmo <- MCMaxTmo
  SelectUpdatesTimeout = FALSE
SPECIFICATION Spec
PROPERTIES RecvTerminates
