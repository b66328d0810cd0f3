------------------------------ MODULE TcpSocket -----------------------------
(***************************************************************************)
(* One KFS::TcpSocket (src/cc/libkfsIO/TcpSocket.cc) used by one thread,   *)
(* and the TCP peer at the other end.                                      *)
(*                                                                         *)
(* Lifecycle: Listen, Accept, Connect (by address or by ServerLocation),   *)
(* Close, with the process-wide ctrOpenNetFds counter and the kernel's     *)
(* descriptor table (fds 1..MaxFds; socket() fails when it is full).       *)
(*                                                                         *)
(* Synchronous I/O on a connected socket, which SetupSocket made           *)
(* non-blocking: DoSynchSend, DoSynchRecv, DoSynchDiscard, DoSynchPeek and *)
(* IsGood, one action per step of their loops.  The peer sends up to       *)
(* PeerBytes bytes, reads what it is sent, and may close (FIN) or reset    *)
(* (RST) the connection at any time.  A timeval is a count of ticks.       *)
(***************************************************************************)
EXTENDS Integers, FiniteSets

CONSTANTS
  MaxFds,               \* size of the descriptor table
  PeerBytes,            \* bytes the peer has to send on a connection
  BufLens,              \* buffer lengths callers pass
  DiscardBufSize,       \* bufSize of DoSynchDiscard (4096 in the code)
  SndBuf,               \* the kernel's send buffer, in bytes
  MaxTmo,               \* the timeout callers pass, in ticks
  SelectUpdatesTimeout  \* select() writes the time left back (Linux)

ASSUME /\ MaxFds \in Nat \ {0} /\ PeerBytes \in Nat
       /\ BufLens \subseteq Nat \ {0} /\ DiscardBufSize \in Nat \ {0}
       /\ SndBuf \in Nat \ {0} /\ MaxTmo \in Nat
       /\ SelectUpdatesTimeout \in BOOLEAN

Fds == 1..MaxFds
ETIMEDOUT == -110
ERR == -1                       \* -1 from send/recv with errno # EAGAIN

VARIABLES
  sockFd,      \* mSockFd: -1 or an fd
  kfds,        \* fds open in the kernel
  accepted,    \* fds owned by TcpSockets that Accept returned
  ctrOpenNetFds,
  conn,        \* what sockFd is: "none", "listen" or "connected"
  op,          \* the call in progress: "idle", "send", "recv", "discard", "peek"
  pc,          \* where in it
  n,           \* numSent / numRecd of the running loop
  len,         \* its bufLen
  dn, dlen,    \* DoSynchDiscard's numRecd and nbytes
  tmo,         \* the caller's struct timeval, in ticks
  nfds,        \* what select() returned
  res,         \* the value the last call returned
  inq,         \* bytes received by the kernel, not yet read
  peerLeft,    \* bytes the peer still has to send
  peer,        \* "open", "closed" (FIN seen) or "reset" (RST pending)
  space        \* free space in the kernel send buffer

vars == <<sockFd, kfds, accepted, ctrOpenNetFds, conn, op, pc, n, len, dn,
          dlen, tmo, nfds, res, inq, peerLeft, peer, space>>
ioVars == <<op, pc, n, len, dn, dlen, tmo, nfds, res>>
peerVars == <<inq, peerLeft, peer, space>>
lifeVars == <<sockFd, kfds, accepted, ctrOpenNetFds, conn>>

Init ==
  /\ sockFd = -1 /\ kfds = {} /\ accepted = {} /\ ctrOpenNetFds = 0
  /\ conn = "none"
  /\ op = "idle" /\ pc = "none" /\ n = 0 /\ len = 0 /\ dn = 0 /\ dlen = 0
  /\ tmo = 0 /\ nfds = 0 /\ res = 0
  /\ inq = 0 /\ peerLeft = 0 /\ peer = "open" /\ space = SndBuf

FreeFds == Fds \ kfds

-----------------------------------------------------------------------------
(* Lifecycle                                                               *)

\* Close: close mSockFd if it is open, set it to -1, ctrOpenNetFds - 1.
Close ==
  /\ op = "idle" /\ sockFd >= 0
  /\ kfds' = kfds \ {sockFd}
  /\ sockFd' = -1
  /\ ctrOpenNetFds' = ctrOpenNetFds - 1
  /\ conn' = "none"
  /\ UNCHANGED <<accepted>>
  /\ UNCHANGED ioVars /\ UNCHANGED peerVars

(* Listen: mSockFd = socket(); SO_REUSEADDR; bind, whose failure closes    *)
(* the fd and sets mSockFd to -1; listen, whose failure is only printed.   *)
(* A socket that was already open is not closed first.                     *)
Listen ==
  /\ op = "idle"
  /\ \/ /\ FreeFds = {}                       \* socket() == -1
        /\ sockFd' = -1 /\ conn' = "none"
        /\ UNCHANGED <<kfds, ctrOpenNetFds>>
     \/ \E f \in FreeFds :
          \/ /\ sockFd' = -1 /\ conn' = "none"  \* bind fails
             /\ UNCHANGED <<kfds, ctrOpenNetFds>>
          \/ /\ sockFd' = f /\ conn' = "listen"
             /\ kfds' = kfds \cup {f}
             /\ ctrOpenNetFds' = ctrOpenNetFds + 1
  /\ UNCHANGED accepted
  /\ UNCHANGED ioVars /\ UNCHANGED peerVars

(* Accept: a new TcpSocket for the accepted fd, SetupSocket, counter + 1;  *)
(* accept() failing returns NULL.                                          *)
Accept ==
  /\ op = "idle" /\ conn = "listen"
  /\ \E f \in FreeFds :
       /\ kfds' = kfds \cup {f}
       /\ accepted' = accepted \cup {f}
       /\ ctrOpenNetFds' = ctrOpenNetFds + 1
  /\ UNCHANGED <<sockFd, conn>>
  /\ UNCHANGED ioVars /\ UNCHANGED peerVars

\* The owner of an accepted TcpSocket deletes it: ~TcpSocket calls Close.
CloseAccepted(f) ==
  /\ f \in accepted
  /\ kfds' = kfds \ {f}
  /\ accepted' = accepted \ {f}
  /\ ctrOpenNetFds' = ctrOpenNetFds - 1
  /\ UNCHANGED <<sockFd, conn>>
  /\ UNCHANGED ioVars /\ UNCHANGED peerVars

\* Mutant: a failed connect() that does not close the new fd.
Connect_leakOnFail(byLocation) ==
  /\ op = "idle"
  /\ LET k1 == IF sockFd >= 0 THEN kfds \ {sockFd} ELSE kfds
         c1 == IF sockFd >= 0 THEN ctrOpenNetFds - 1 ELSE ctrOpenNetFds
     IN \E f \in Fds \ k1 :
          /\ kfds' = k1 \cup {f} /\ ctrOpenNetFds' = c1
          /\ sockFd' = -1 /\ conn' = "none"
  /\ UNCHANGED accepted /\ UNCHANGED ioVars /\ UNCHANGED peerVars

(* Connect(remoteAddr) and Connect(ServerLocation): Close(); socket();     *)
(* connect(), whose failure closes the fd and leaves mSockFd -1; on        *)
(* success SetupSocket and counter + 1.  The ServerLocation form first     *)
(* resolves the name and returns -1 before Close() when gethostbyname      *)
(* fails.  A new connection meets a fresh peer.                            *)
Connect(byLocation) ==
  /\ op = "idle"
  /\ \/ /\ byLocation                          \* gethostbyname fails
        /\ UNCHANGED <<sockFd, kfds, ctrOpenNetFds, conn>>
        /\ UNCHANGED peerVars
     \/ LET k1 == IF sockFd >= 0 THEN kfds \ {sockFd} ELSE kfds
            c1 == IF sockFd >= 0 THEN ctrOpenNetFds - 1 ELSE ctrOpenNetFds
        IN \/ /\ Fds \subseteq k1                      \* socket() == -1
              /\ kfds' = k1 /\ ctrOpenNetFds' = c1
              /\ sockFd' = -1 /\ conn' = "none"
              /\ UNCHANGED peerVars
           \/ \E f \in Fds \ k1 :
                \/ /\ kfds' = k1 /\ ctrOpenNetFds' = c1   \* connect fails
                   /\ sockFd' = -1 /\ conn' = "none"
                   /\ UNCHANGED peerVars
                \/ /\ kfds' = k1 \cup {f}
                   /\ ctrOpenNetFds' = c1 + 1
                   /\ sockFd' = f /\ conn' = "connected"
                   /\ inq' = 0 /\ peerLeft' = PeerBytes
                   /\ peer' = "open" /\ space' = SndBuf
  /\ UNCHANGED accepted
  /\ UNCHANGED ioVars

-----------------------------------------------------------------------------
(* The peer, on the connection sockFd holds                                *)

PeerActive == conn = "connected" /\ peer = "open"

\* The peer sends bytes, which the kernel queues for recv().
PeerSend ==
  /\ PeerActive /\ peerLeft > 0
  /\ \E k \in 1..peerLeft : inq' = inq + k /\ peerLeft' = peerLeft - k
  /\ UNCHANGED <<peer, space>> /\ UNCHANGED lifeVars /\ UNCHANGED ioVars

\* The peer reads what was sent to it, freeing the send buffer.
PeerRead ==
  /\ conn = "connected" /\ space < SndBuf
  /\ space' = SndBuf
  /\ UNCHANGED <<inq, peerLeft, peer>> /\ UNCHANGED lifeVars /\ UNCHANGED ioVars

\* The peer closes (FIN) or dies and its kernel resets the connection (RST).
PeerClose ==
  /\ PeerActive
  /\ peer' \in {"closed", "reset"}
  /\ UNCHANGED <<inq, peerLeft, space>> /\ UNCHANGED lifeVars /\ UNCHANGED ioVars

-----------------------------------------------------------------------------
(* Synchronous I/O.  The callers (KfsClient, the chunk server's metaserver *)
(* and replication clients) call these on a connected socket, one call at  *)
(* a time, with a fresh timeval.                                           *)

StartCall(o, l) ==
  /\ op = "idle" /\ conn = "connected"
  /\ op' = o /\ n' = 0 /\ len' = l /\ res' = res /\ nfds' = nfds
  /\ pc' = IF o = "send" THEN "loop" ELSE "sel"
  /\ tmo' = MaxTmo
  /\ UNCHANGED <<dn, dlen>> /\ UNCHANGED lifeVars /\ UNCHANGED peerVars

DoSynchSend_call == \E l \in BufLens : StartCall("send", l)
DoSynchRecv_call == \E l \in BufLens : StartCall("recv", l)
DoSynchPeek_call == \E l \in BufLens : StartCall("peek", l)

DoSynchDiscard_call ==
  /\ op = "idle" /\ conn = "connected"
  /\ \E l \in BufLens : dlen' = l
  /\ op' = "discard" /\ pc' = "dloop" /\ dn' = 0 /\ tmo' = MaxTmo
  /\ UNCHANGED <<n, len, nfds, res>> /\ UNCHANGED lifeVars /\ UNCHANGED peerVars

(* A loop returns v: to its caller, or, for the DoSynchRecv inside         *)
(* DoSynchDiscard, to the discard loop.  The locals of a finished call are *)
(* dead, and are reset so that states differ only in live data.           *)
Finish(v) ==
  /\ res' = v /\ op' = "idle" /\ pc' = "none"
  /\ n' = 0 /\ len' = 0 /\ dn' = 0 /\ dlen' = 0 /\ tmo' = 0 /\ nfds' = 0

Return(v) ==
  IF op = "discard"
    THEN /\ res' = v /\ pc' = "dret"
         /\ UNCHANGED <<op, n, len, dn, dlen, tmo, nfds>>
    ELSE Finish(v)

\* The loop goes on at pc with numRecd / numSent m and select's result s.
Continue(p, m, s) ==
  /\ pc' = p /\ n' = m /\ nfds' = s
  /\ UNCHANGED <<op, len, dn, dlen, res>>

\* Mutant: a send loop that assumes send() writes everything it is given.
DoSynchSend_assumeFull ==
  /\ op = "send" /\ pc = "loop"
  /\ \/ /\ n >= len /\ Return(n) /\ UNCHANGED space
     \/ /\ n < len /\ space > 0
        /\ Continue("loop", len, nfds) /\ space' = space - (len - n)
        /\ UNCHANGED tmo
  /\ UNCHANGED <<inq, peerLeft, peer>> /\ UNCHANGED lifeVars

\* Mutant: numSent = res, the count of the last partial send only.
DoSynchSend_overwriteCount ==
  /\ op = "send" /\ pc = "loop"
  /\ \/ /\ n >= len
        /\ Return(n) /\ UNCHANGED space
     \/ /\ n < len /\ peer = "reset"
        /\ Return(n) /\ UNCHANGED space
     \/ /\ n < len /\ peer # "reset" /\ space > 0
        /\ LET k == IF space < len - n THEN space ELSE len - n
           IN Continue("loop", k, nfds) /\ space' = space - k
        /\ UNCHANGED tmo
  /\ UNCHANGED <<inq, peerLeft, peer>> /\ UNCHANGED lifeVars

(* One iteration of DoSynchSend: send(buf + numSent, bufLen - numSent)     *)
(* into the non-blocking socket.  EAGAIN while the send buffer is full     *)
(* changes nothing and the loop spins; an error (a reset peer) breaks out  *)
(* and returns numSent.                                                    *)
DoSynchSend ==
  /\ op = "send" /\ pc = "loop"
  /\ \/ /\ n >= len
        /\ Return(n) /\ UNCHANGED space
     \/ /\ n < len /\ peer = "reset"
        /\ Return(n) /\ UNCHANGED space
     \/ /\ n < len /\ peer # "reset" /\ space > 0
        /\ LET k == IF space < len - n THEN space ELSE len - n
           IN Continue("loop", n + k, nfds) /\ space' = space - k
        /\ UNCHANGED tmo
  /\ UNCHANGED <<inq, peerLeft, peer>> /\ UNCHANGED lifeVars

\* What select() reports readable: queued bytes, a FIN or a pending RST.
Readable == inq > 0 \/ peer \in {"closed", "reset"}

\* Mutant: a loop without the nfds == 0 && timeout == 0 test.
Select_noTimeoutTest ==
  /\ op \in {"recv", "discard", "peek"} /\ pc = "sel"
  /\ Continue("io", n, IF Readable THEN 1 ELSE 0)
  /\ tmo' \in IF SelectUpdatesTimeout THEN 0..tmo ELSE {tmo}
  /\ UNCHANGED lifeVars /\ UNCHANGED peerVars

(* The select() of DoSynchRecv and DoSynchPeek.  When nothing is readable  *)
(* it waits out the timeval.  Linux writes the time left back into it, so  *)
(* the test nfds == 0 && timeout == 0 sees a timeout; where select leaves  *)
(* the timeval alone the loop goes on to recv(), which fails with EAGAIN.  *)
(* DoSynchRecv returns numRecd > 0 ? numRecd : -ETIMEDOUT on a timeout,    *)
(* DoSynchPeek -ETIMEDOUT.  A signal interrupts the wait after some time   *)
(* has passed: select returns -1 (EINTR), which the loop does not test,    *)
(* and recv() follows.                                                     *)
Select ==
  /\ op \in {"recv", "discard", "peek"} /\ pc = "sel"
  /\ \/ /\ ~Readable /\ tmo > 0
        /\ Continue("io", n, -1)
        /\ tmo' \in IF SelectUpdatesTimeout THEN 0..(tmo - 1) ELSE {tmo}
     \/ /\ Readable
        /\ Continue("io", n, 1)
        /\ tmo' \in IF SelectUpdatesTimeout THEN 0..tmo ELSE {tmo}
     \/ /\ ~Readable
        /\ LET t == IF SelectUpdatesTimeout THEN 0 ELSE tmo
           IN IF t = 0
                THEN Return(IF op # "peek" /\ n > 0 THEN n ELSE ETIMEDOUT)
                ELSE Continue("io", n, 0) /\ tmo' = t
  /\ UNCHANGED lifeVars /\ UNCHANGED peerVars

(* The recv() after the select of DoSynchRecv: res == 0 (EOF) returns 0,   *)
(* EAGAIN goes back to select, an error (the RST, which the kernel then    *)
(* clears) breaks out and returns numRecd, otherwise numRecd += res and    *)
(* the loop goes on while numRecd < bufLen.                                *)
DoSynchRecv ==
  /\ op \in {"recv", "discard"} /\ pc = "io"
  /\ \/ /\ inq > 0
        /\ LET k == IF inq < len - n THEN inq ELSE len - n
           IN /\ inq' = inq - k
              /\ IF n + k >= len THEN Return(n + k)
                                 ELSE Continue("sel", n + k, nfds) /\ UNCHANGED tmo
        /\ UNCHANGED peer
     \/ /\ inq = 0 /\ peer = "closed"
        /\ Return(0) /\ UNCHANGED <<inq, peer>>
     \/ /\ inq = 0 /\ peer = "reset"
        /\ Return(n) /\ peer' = "closed" /\ UNCHANGED inq
     \/ /\ inq = 0 /\ peer = "open"
        /\ Continue("sel", n, nfds) /\ UNCHANGED <<tmo, inq, peer>>
  /\ UNCHANGED <<peerLeft, space>> /\ UNCHANGED lifeVars

(* The recv(MSG_PEEK) of DoSynchPeek: the data stays queued; the first     *)
(* bytes end the loop.                                                     *)
DoSynchPeek ==
  /\ op = "peek" /\ pc = "io"
  /\ \/ /\ inq > 0
        /\ Return(n + (IF inq < len - n THEN inq ELSE len - n))
        /\ UNCHANGED peer
     \/ /\ inq = 0 /\ peer = "closed"
        /\ Return(0) /\ UNCHANGED peer
     \/ /\ inq = 0 /\ peer = "reset"
        /\ Return(n) /\ peer' = "closed"
     \/ /\ inq = 0 /\ peer = "open"
        /\ Continue("sel", n, nfds) /\ UNCHANGED <<tmo, peer>>
  /\ UNCHANGED <<inq, peerLeft, space>> /\ UNCHANGED lifeVars

(* One iteration of DoSynchDiscard: while numRecd < nbytes, DoSynchRecv    *)
(* of min(nbytes - numRecd, bufSize) bytes with the caller's timeval;      *)
(* -ETIMEDOUT returns numRecd, any other result is added to numRecd.       *)
DoSynchDiscard ==
  /\ op = "discard"
  /\ \/ /\ pc = "dloop" /\ dn < dlen
        /\ n' = 0
        /\ len' = IF dlen - dn < DiscardBufSize THEN dlen - dn ELSE DiscardBufSize
        /\ pc' = "sel" /\ UNCHANGED <<op, dn, dlen, res, tmo, nfds>>
     \/ /\ pc = "dloop" /\ dn >= dlen
        /\ Finish(dn)
     \/ /\ pc = "dret" /\ res = ETIMEDOUT
        /\ Finish(dn)
     \/ /\ pc = "dret" /\ res # ETIMEDOUT
        /\ dn' = dn + res /\ pc' = "dloop"
        /\ UNCHANGED <<op, n, len, dlen, res, tmo, nfds>>
  /\ UNCHANGED lifeVars /\ UNCHANGED peerVars

(* IsGood: false when mSockFd < 0 or when a one-byte Peek returns 0 (the   *)
(* peer closed and nothing is queued); a queued RST makes Peek fail, which *)
(* IsGood reports as good, and clears it.                                  *)
IsGood ==
  /\ op = "idle"
  /\ res' = IF sockFd < 0 \/ (conn = "connected" /\ inq = 0 /\ peer = "closed")
              THEN 0 ELSE 1
  /\ peer' = IF conn = "connected" /\ inq = 0 /\ peer = "reset"
               THEN "closed" ELSE peer
  /\ UNCHANGED <<op, pc, n, len, dn, dlen, tmo, nfds>>
  /\ UNCHANGED <<inq, peerLeft, space>> /\ UNCHANGED lifeVars

-----------------------------------------------------------------------------
Thread ==
  \/ Close \/ Listen \/ Accept \/ \E f \in Fds : CloseAccepted(f)
  \/ Connect(FALSE) \/ Connect(TRUE)
  \/ DoSynchSend_call \/ DoSynchRecv_call \/ DoSynchPeek_call
  \/ DoSynchDiscard_call \/ IsGood

InCall == DoSynchSend \/ Select \/ DoSynchRecv \/ DoSynchPeek \/ DoSynchDiscard

Peer == PeerSend \/ PeerRead \/ PeerClose

Next == Thread \/ InCall \/ Peer

(* The calling thread runs each loop to its end (weak fairness of its      *)
(* steps); the peer and the caller's choice of the next call get none.     *)
Spec == Init /\ [][Next]_vars /\ WF_vars(InCall)

-----------------------------------------------------------------------------
(* Properties                                                              *)

Ops == {"idle", "send", "recv", "discard", "peek"}
Pcs == {"none", "loop", "sel", "io", "dloop", "dret"}

TypeOK ==
  /\ sockFd \in Fds \cup {-1} /\ kfds \subseteq Fds /\ accepted \subseteq Fds
  /\ ctrOpenNetFds \in Int /\ conn \in {"none", "listen", "connected"}
  /\ op \in Ops /\ pc \in Pcs
  /\ n \in Nat /\ len \in Nat /\ dn \in Nat /\ dlen \in Nat
  /\ tmo \in 0..MaxTmo /\ nfds \in {-1, 0, 1} /\ res \in Int
  /\ inq \in 0..PeerBytes /\ peerLeft \in 0..PeerBytes
  /\ peer \in {"open", "closed", "reset"} /\ space \in 0..SndBuf

(* The process-wide ctrOpenNetFds counter, which Listen, Accept, Connect   *)
(* and Close update on their success and failure paths, always equals the *)
(* number of sockets open in the kernel.                                   *)
CounterMatchesOpenFds == ctrOpenNetFds = Cardinality(kfds)

(* DoSynchSend has no timeout: on EAGAIN it calls send() again at once,  *)
(* so it can only return once the peer drains the send buffer.  If the    *)
(* peer keeps reading, every DoSynchSend returns, after as many partial    *)
(* sends as the buffer forces.                                             *)
SendTerminates == WF_vars(PeerRead) => (op = "send" ~> op = "idle")

(* "Receive data within a certain amount of time.  If the server is too    *)
(* slow in responding, bail": every DoSynchRecv and DoSynchPeek returns,   *)
(* whatever the peer does.                                                 *)
RecvTerminates == \A o \in {"recv", "peek"} : op = o ~> op = "idle"

(* "Receive data within a certain amount of time and discard them.  If     *)
(* the server is too slow in responding, bail": every DoSynchDiscard       *)
(* returns, whatever the peer does.                                        *)
DiscardTerminates == op = "discard" ~> op = "idle"

=============================================================================
