------------------------------ MODULE Allocate ------------------------------
(***************************************************************************)
(* The metaserver's request loop for chunk allocation                      *)
(* (src/cc/meta/request.cc): process_request, handle_allocate with its     *)
(* suspension on chunkserver RPCs, handle_truncate which runs a            *)
(* synthesised allocation inline, ChangeIncarnationNumber and the          *)
(* chunk-version-increment request it queues.                              *)
(*                                                                         *)
(* The collaborators outside src/ are modelled from the spec: the tree's   *)
(* allocateChunkId/assignChunkId/truncate (4.1), the layout manager's      *)
(* AllocateChunk/GetChunkWriteLease (4.4), the chunkservers' replies and   *)
(* the logger that retires a request once logged (4.7).                    *)
(*                                                                         *)
(* One file; client request r \in 1..NR has kind ReqKind[r] and chunk      *)
(* offset ReqOff[r]; the allocation a truncate synthesises gets id NR + r. *)
(***************************************************************************)
EXTENDS Naturals, Sequences, SequencesExt

CONSTANTS
  NR,              \* number of client requests
  ReqKind,         \* [1..NR -> {"allocate", "truncate"}]
  ReqOff,          \* [1..NR -> Offsets]
  Offsets,         \* chunk offsets of the file (chunk indices)
  None,            \* model value: no chunk at an offset
  PlacementCanFail,\* AllocateChunk/GetChunkWriteLease may find no servers
  RpcWithinLease,  \* a chunkserver answers before the write lease expires
  MaxInc           \* bound on chunkVersionInc (allocation failures + 1)

ASSUME /\ NR \in Nat \ {0}
       /\ ReqKind \in [1..NR -> {"allocate", "truncate"}]
       /\ ReqOff \in [1..NR -> Offsets]
       /\ PlacementCanFail \in BOOLEAN /\ RpcWithinLease \in BOOLEAN
       /\ MaxInc \in Nat \ {0}

Reqs   == 1..NR
Ids    == 1..2 * NR
Parent(i) == IF i > NR THEN i - NR ELSE 0
Child(r)  == NR + r
Kind(i)   == IF i > NR THEN "allocate" ELSE ReqKind[i]
Off(i)    == IF i > NR THEN ReqOff[i - NR] ELSE ReqOff[i]

\* Request states: not yet sent, in requestList or resumable, suspended,
\* retired (logged and answered), dropped (the handler's object is lost).
States   == {"init", "queued", "susp", "done", "dropped"}
Statuses == {"ok", "ENOSPC", "ENOLEASE", "cserr", "EALLOCFAILED", "EEXIST"}

VARIABLES
  queue,            \* requestList: <<"req", i>> or <<"cvi", i>> entries
  st,               \* Ids -> States
  layoutDone,       \* MetaAllocate::layoutDone
  status,           \* MetaRequest::status
  cid,              \* MetaAllocate::chunkId
  ver,              \* MetaAllocate::chunkVersion
  tree,             \* Offsets -> [id, ver] or None: the file's chunk infos
  chunkIdSeed,      \* chunkID seed of the tree
  chunkVersionInc,  \* the global chunk version increment
  lease,            \* chunk id -> TRUE when a write lease is valid
  inflight,         \* requests waiting for chunkserver replies
  log,              \* records handed to the logger, in order
  attempts          \* history: <<chunk id, version>> of every version
                    \* sent to chunkservers for a new chunk or a new lease

vars == <<queue, st, layoutDone, status, cid, ver, tree, chunkIdSeed,
          chunkVersionInc, lease, inflight, log, attempts>>

ChunkIds == 1..2 * NR

Init ==
  /\ queue = <<>>
  /\ st = [i \in Ids |-> "init"]
  /\ layoutDone = [i \in Ids |-> FALSE]
  /\ status = [i \in Ids |-> "ok"]
  /\ cid = [i \in Ids |-> 0]
  /\ ver = [i \in Ids |-> 0]
  /\ tree = [o \in Offsets |-> None]
  /\ chunkIdSeed = 0
  /\ chunkVersionInc = 1
  /\ lease = [c \in ChunkIds |-> FALSE]
  /\ inflight = {}
  /\ log = <<>>
  /\ attempts = <<>>

-----------------------------------------------------------------------------
(* Collaborators modelled from the spec                                    *)

(* The first pass of handle_allocate (layoutDone false) as an outcome:     *)
(* allocateChunkId either hands out a fresh id with version                *)
(* chunkVersionInc, then AllocateChunk places it (RPC sent, suspend) or    *)
(* fails (-ENOSPC); or it finds the chunk (-EEXIST), then                  *)
(* GetChunkWriteLease finds a valid lease (done, no new lease), bumps the  *)
(* version by chunkVersionInc for a new lease (RPCs sent, suspend) or      *)
(* fails.  `placed` is whether the layout manager finds servers.           *)
AllocOutcome(i, placed) ==
  LET c == tree[Off(i)] IN
  IF c = None
  THEN [susp |-> placed, st |-> IF placed THEN "ok" ELSE "ENOSPC",
        cid |-> chunkIdSeed + 1, ver |-> chunkVersionInc,
        seed |-> chunkIdSeed + 1, attempt |-> placed]
  ELSE IF lease[c.id]
  THEN [susp |-> FALSE, st |-> "ok", cid |-> c.id, ver |-> c.ver,
        seed |-> chunkIdSeed, attempt |-> FALSE]
  ELSE [susp |-> placed, st |-> IF placed THEN "ok" ELSE "ENOLEASE",
        cid |-> c.id, ver |-> c.ver + chunkVersionInc,
        seed |-> chunkIdSeed, attempt |-> placed]

\* Whether the layout manager can fail to find servers in this step.
Placements == IF PlacementCanFail THEN BOOLEAN ELSE {TRUE}

\* Apply an outcome of the first pass to request i.
ApplyOutcome(i, o) ==
  /\ status' = [status EXCEPT ![i] = o.st]
  /\ cid' = [cid EXCEPT ![i] = o.cid]
  /\ ver' = [ver EXCEPT ![i] = o.ver]
  /\ chunkIdSeed' = o.seed
  /\ inflight' = IF o.susp THEN inflight \cup {i} ELSE inflight
  /\ lease' = IF o.attempt THEN [lease EXCEPT ![o.cid] = TRUE] ELSE lease
  /\ attempts' = IF o.attempt THEN Append(attempts, <<o.cid, o.ver>>)
                 ELSE attempts

\* The record MetaAllocate::log / MetaTruncate::log write.
LogRecord(i) ==
  IF Kind(i) = "allocate"
  THEN [op |-> "allocate", off |-> Off(i), cid |-> cid'[i], ver |-> ver'[i]]
  ELSE [op |-> "truncate", off |-> Off(i), cid |-> 0, ver |-> 0]

(* The logger's completion of request i (4.7): the client is answered    *)
(* and, for an allocation a truncate is waiting for, the truncate is put   *)
(* back at the front of requestList to re-run its handler.                 *)
Release(i, st0, q0) ==
  IF Parent(i) # 0
  THEN /\ st' = [st0 EXCEPT ![i] = "done", ![Parent(i)] = "queued"]
       /\ queue' = <<<<"req", Parent(i)>>>> \o q0
  ELSE /\ st' = [st0 EXCEPT ![i] = "done"]
       /\ queue' = q0

(* process_request's tail for a request left not suspended: add_pending   *)
(* hands it to the logger, which writes the record of a successful         *)
(* mutation and then releases it.                                          *)
AddPending(i, st0, q0) ==
  /\ log' = IF status'[i] = "ok" THEN Append(log, LogRecord(i)) ELSE log
  /\ Release(i, st0, q0)

(* tree.assign_chunk_id (4.1): record the chunk at the offset, or update   *)
(* its version; another chunk already at the offset is -EEXIST.            *)
AssignChunkId(o, id, v) ==
  IF tree[o] = None \/ tree[o].id = id
  THEN [ok |-> TRUE, tree |-> [tree EXCEPT ![o] = [id |-> id, ver |-> v]]]
  ELSE [ok |-> FALSE, tree |-> tree]

\* getChunkVersion answering -1 for a chunk the file does not have.
GetChunkVersion_minusOne(id) ==
  LET os == {o \in Offsets : tree[o] # None /\ tree[o].id = id}
  IN IF os = {} THEN -1 ELSE tree[CHOOSE o \in os : TRUE].ver

\* metatree.getChunkVersion: the file's version of the chunk, 0 if absent.
GetChunkVersion(id) ==
  LET os == {o \in Offsets : tree[o] # None /\ tree[o].id = id}
  IN IF os = {} THEN 0 ELSE tree[CHOOSE o \in os : TRUE].ver

-----------------------------------------------------------------------------
(* Client submission and the chunkserver replies                           *)

\* A client request arrives and is queued by submit_request.
submit_request(r) ==
  /\ st[r] = "init"
  /\ st' = [st EXCEPT ![r] = "queued"]
  /\ queue' = Append(queue, <<"req", r>>)
  /\ UNCHANGED <<layoutDone, status, cid, ver, tree, chunkIdSeed,
                 chunkVersionInc, lease, inflight, log, attempts>>

\* Failed allocations whose chunkVersionInc bump is still to come.
FailedNotBumped == {j \in Ids : layoutDone[j] /\ status[j] = "cserr"}

(* The chunkservers answer the RPCs of suspended allocation i: success,    *)
(* or a failure (a server went down).  The request is resumed with         *)
(* layoutDone set, at the front of requestList.  MaxInc bounds the         *)
(* failures, each of which bumps chunkVersionInc.                           *)
ChunkserverReply(i) ==
  /\ i \in inflight
  /\ \E res \in IF chunkVersionInc + Cardinality(FailedNotBumped) < MaxInc
                THEN {"ok", "cserr"} ELSE {"ok"} :
       status' = [status EXCEPT ![i] = res]
  /\ inflight' = inflight \ {i}
  /\ layoutDone' = [layoutDone EXCEPT ![i] = TRUE]
  /\ st' = [st EXCEPT ![i] = "queued"]
  /\ queue' = <<<<"req", i>>>> \o queue
  /\ UNCHANGED <<cid, ver, tree, chunkIdSeed, chunkVersionInc, lease, log,
                 attempts>>

(* A write lease runs out after LEASE_INTERVAL_SECS.  Under RpcWithinLease *)
(* no chunkserver RPC of the lease's chunk is still outstanding then.      *)
LeaseExpire(c) ==
  /\ lease[c]
  /\ RpcWithinLease => \A i \in inflight : cid[i] # c
  /\ lease' = [lease EXCEPT ![c] = FALSE]
  /\ UNCHANGED <<queue, st, layoutDone, status, cid, ver, tree, chunkIdSeed,
                 chunkVersionInc, inflight, log, attempts>>

-----------------------------------------------------------------------------
(* The dispatcher: process_request runs the handler of the head request    *)

HeadReq == queue[1]

(* handle_allocate, first pass (layoutDone false): allocateChunkId, then   *)
(* AllocateChunk or GetChunkWriteLease; suspend while RPCs are out, else   *)
(* add_pending.                                                            *)
handle_allocate_layout ==
  /\ queue # <<>> /\ HeadReq[1] = "req"
  /\ LET i == HeadReq[2] IN
     /\ Kind(i) = "allocate" /\ ~layoutDone[i]
     /\ \E placed \in Placements :
          LET o == AllocOutcome(i, placed) IN
          /\ ApplyOutcome(i, o)
          /\ IF o.susp
             THEN /\ st' = [st EXCEPT ![i] = "susp"]
                  /\ queue' = Tail(queue)
                  /\ log' = log
             ELSE AddPending(i, st, Tail(queue))
  /\ UNCHANGED <<layoutDone, tree, chunkVersionInc>>

\* The increment request built with the old value and no bump.
ChangeIncarnationNumber_noBump(i, q0) ==
  /\ chunkVersionInc' = chunkVersionInc
  /\ queue' = Append(q0, <<"cvi", i, chunkVersionInc>>)

\* The increment is bumped but the request carrying i is never submitted.
ChangeIncarnationNumber_notSubmitted(i, q0) ==
  /\ chunkVersionInc' = chunkVersionInc + 1
  /\ queue' = q0

(* ChangeIncarnationNumber: bump chunkVersionInc in memory and queue a     *)
(* MetaChangeChunkVersionInc carrying the new value and request i.         *)
ChangeIncarnationNumber(i, q0) ==
  /\ chunkVersionInc' = chunkVersionInc + 1
  /\ queue' = Append(q0, <<"cvi", i, chunkVersionInc + 1>>)

(* handle_allocate, resumed after a chunkserver failure: EALLOCFAILED, the *)
(* version is read back from the tree (the version reset / mapping        *)
(* removal goes to the chunkservers), the request stays suspended and      *)
(* ChangeIncarnationNumber queues the increment.                           *)
handle_allocate_failed ==
  /\ queue # <<>> /\ HeadReq[1] = "req"
  /\ LET i == HeadReq[2] IN
     /\ Kind(i) = "allocate" /\ layoutDone[i] /\ status[i] # "ok"
     /\ status' = [status EXCEPT ![i] = "EALLOCFAILED"]
     /\ ver' = [ver EXCEPT ![i] = GetChunkVersion(cid[i])]
     /\ st' = [st EXCEPT ![i] = "susp"]
     /\ ChangeIncarnationNumber(i, Tail(queue))
  /\ UNCHANGED <<layoutDone, cid, tree, chunkIdSeed, lease, inflight, log,
                 attempts>>

(* handle_allocate, resumed after success: assignChunkId records the      *)
(* chunk and its version in the tree, then add_pending.                    *)
handle_allocate_assign ==
  /\ queue # <<>> /\ HeadReq[1] = "req"
  /\ UNCHANGED <<layoutDone, cid, ver, chunkIdSeed, chunkVersionInc, lease,
                 inflight, attempts>>
  /\ LET i == HeadReq[2]
         a == AssignChunkId(Off(i), cid[i], ver[i]) IN
     /\ Kind(i) = "allocate" /\ layoutDone[i] /\ status[i] = "ok"
     /\ tree' = a.tree
     /\ status' = [status EXCEPT ![i] = IF a.ok THEN "ok" ELSE "EEXIST"]
     /\ AddPending(i, st, Tail(queue))

(* handle_truncate: tree.truncate; when the offset lies past the last      *)
(* chunk, synthesise a MetaAllocate (alloc->req = r), suspend r and call   *)
(* handle_allocate(alloc) directly.  Nothing looks at alloc afterwards.    *)
handle_truncate ==
  /\ queue # <<>> /\ HeadReq[1] = "req"
  /\ LET r == HeadReq[2]
         c == Child(r) IN
     /\ Kind(r) = "truncate"
     /\ IF tree[Off(r)] # None
        THEN /\ UNCHANGED <<layoutDone, cid, ver, chunkIdSeed, inflight,
                            lease, attempts>>
             /\ status' = [status EXCEPT ![r] = "ok"]
             /\ AddPending(r, st, Tail(queue))
        ELSE \E placed \in Placements :
               LET o == AllocOutcome(c, placed) IN
               /\ ApplyOutcome(c, o)
               /\ layoutDone' = [layoutDone EXCEPT ![c] = FALSE]
               /\ st' = [st EXCEPT ![r] = "susp",
                                   ![c] = IF o.susp THEN "susp" ELSE "dropped"]
               /\ queue' = Tail(queue)
               /\ log' = log
  /\ UNCHANGED <<tree, chunkVersionInc>>

(* handle_change_chunkVersionInc sets status 0; add_pending logs the       *)
(* chunkVersionInc record, after which the logger releases the failed      *)
(* allocation it carries with EALLOCFAILED.                                *)
handle_change_chunkVersionInc ==
  /\ queue # <<>> /\ HeadReq[1] = "cvi"
  /\ LET i == HeadReq[2] IN
     /\ log' = Append(log, [op |-> "chunkVersionInc", off |-> 0, cid |-> 0,
                             ver |-> HeadReq[3]])
     /\ Release(i, st, Tail(queue))
  /\ UNCHANGED <<layoutDone, status, cid, ver, tree, chunkIdSeed,
                 chunkVersionInc, lease, inflight, attempts>>

Next ==
  \/ \E r \in Reqs : submit_request(r)
  \/ \E i \in Ids : ChunkserverReply(i)
  \/ \E c \in ChunkIds : LeaseExpire(c)
  \/ handle_allocate_layout
  \/ handle_allocate_failed
  \/ handle_allocate_assign
  \/ handle_truncate
  \/ handle_change_chunkVersionInc

(* The dispatcher thread runs while requestList is non-empty and the       *)
(* chunkservers eventually answer or drop the connection.                  *)
Fairness ==
  /\ WF_vars(handle_allocate_layout) /\ WF_vars(handle_allocate_failed)
  /\ WF_vars(handle_allocate_assign) /\ WF_vars(handle_truncate)
  /\ WF_vars(handle_change_chunkVersionInc)
  /\ \A i \in Ids : WF_vars(ChunkserverReply(i))

Spec == Init /\ [][Next]_vars /\ Fairness

-----------------------------------------------------------------------------
(* Properties                                                              *)

QueueEntries == ({"req"} \X Ids) \cup ({"cvi"} \X Ids \X (1..MaxInc))
Chunk == [id : ChunkIds, ver : Nat]

TypeOK ==
  /\ queue \in Seq(QueueEntries)
  /\ st \in [Ids -> States]
  /\ layoutDone \in [Ids -> BOOLEAN]
  /\ status \in [Ids -> Statuses]
  /\ cid \in [Ids -> 0..2 * NR] /\ ver \in [Ids -> Nat]
  /\ tree \in [Offsets -> Chunk \cup {None}]
  /\ chunkIdSeed \in 0..2 * NR
  /\ chunkVersionInc \in 1..MaxInc
  /\ lease \in [ChunkIds -> BOOLEAN]
  /\ inflight \subseteq Ids

(* Every version the metaserver sends to chunkservers for a chunk, for a   *)
(* new chunk (AllocateChunk) or a new write lease (GetChunkWriteLease), is *)
(* one it never sent for that chunk before: chunkVersionInc, bumped by     *)
(* ChangeIncarnationNumber on every failed allocation, keeps a version a   *)
(* failed attempt left on some replica from being handed out again.       *)
NoVersionReuse ==
  \A j, k \in 1..Len(attempts) : j < k => attempts[j] # attempts[k]

\* Request i is in requestList (itself or its increment request) or has
\* chunkserver RPCs outstanding that will put it back there.
Awaiting(i) ==
  \/ i \in inflight
  \/ \E k \in 1..Len(queue) : queue[k][2] = i

(* A suspended request is always resumable: handle_allocate suspends only  *)
(* with RPCs out or a MetaChangeChunkVersionInc queued, and handle_truncate *)
(* suspends until the MetaAllocate it synthesised completes (spec 4.7:     *)
(* suspended handlers are resumed exactly once).                           *)
SuspendedIsResumable ==
  \A i \in Ids :
    st[i] = "susp" =>
      \/ Awaiting(i)
      \/ Kind(i) = "truncate" /\ Awaiting(Child(i))

(* Every queued ALLOCATE is eventually answered, through the chunkserver   *)
(* round trip, the failure path and its increment request.                 *)
AllocationsAnswered ==
  \A r \in Reqs :
    ReqKind[r] = "allocate" => (st[r] = "queued" ~> st[r] = "done")

=============================================================================
