---------------------------- MODULE MCTcpSocket -----------------------------
EXTENDS TcpSocket

\* Two descriptors, so a leaked or an accepted fd exhausts the table; a
\* peer with 3 bytes against a buffer of 3 and a discard buffer of 2,
\* so reads are partial and a discard takes several DoSynchRecv calls.
MCMaxFds == 2
MCPeerBytes == 3
MCBufLens == {3}
MCDiscardBufSize == 2
MCSndBuf == 2
MCMaxTmo == 2
=============================================================================
