# TLA+ models of the KFS metaserver core

This directory holds TLA+ models of parts of the Kosmos File System in `src/`. TLC
checks them. The models are written from the C++ source. Where a part that source
calls is not under `src/` (the metadata tree `kfstree`, the `LayoutManager`, the
log writer, recovery), it is modelled from `spec.md`, and `PROJECT.json` marks
those definitions `spec_modelled`.

## The system and its parts

The metaserver is a single process with several threads (spec 5):

| Part | Code | State | Operations |
|---|---|---|---|
| Request dispatcher | `meta/request.cc` `process_request`, `submit_request`, `handle_*` | `requestList`; per request `status`, `suspended`, `layoutDone` | dequeue one request, run its handler, `add_pending` it unless it suspended |
| Allocation state machine | `handle_allocate`, `handle_truncate`, `ChangeIncarnationNumber` | `chunkVersionInc`; the chunk id and version of the request | `allocateChunkId`; then `AllocateChunk` or `GetChunkWriteLease`; suspend on chunkserver RPCs; on resume either `assignChunkId` or EALLOCFAILED plus a version-increment request |
| Checkpointer | `meta/checkpoint.cc` | `running`, `mutations`, `nostart`, `startblocked`, `activeNode`, `cpcount`, `zombie` queue | `start_CP`, `isCPNeeded`, `lock_running`/`unlock_running`, `wait_if_active`, `save_active`, `do_CP` (`write_leaves`, `write_zombies`, `link_latest`), `cptimer` |
| Operation log | `MetaX::log`, `MetaCheckpoint::log` -> `finishLog` (logger not under src/) | pending and durable records, `checkpointed` seq | add_pending; flush in order; rotate on a checkpoint request |
| Metadata tree, dumpster, recovery | not under src/ | leaves, chunk infos, seeds | spec 4.1, 4.9 |
| Layout manager, leases | not under src/; one-line handlers in request.cc | chunk -> servers, leases | spec 4.4, 4.5 |
| Wire codec | `ParseCommand`, `parseHandler*`, `Meta*::response`, `MetaChunk*::request` | none | parse header maps; format replies and chunkserver RPCs |
| libkfsIO | `TcpSocket.cc`, `NetManager.cc`, `TelemetryClient.cc` | socket fd, connection list | sync send/recv loops with timeouts; select loop |

How they interact:
- Network threads parse requests and `submit_request` them. The dispatcher runs one
  handler at a time.
- A handler that waits for chunkservers sets `suspended`. The reply puts the request
  back at the front of `requestList`.
- Requests that do not suspend go to the log writer. It writes them in order and then
  answers the client.
- The timer thread submits `MetaCheckpoint`. Its log record rotates the log and calls
  `start_CP`, which wakes the checkpoint thread.
- The checkpoint thread walks the tree leaf by leaf while the dispatcher keeps
  changing it. Two mechanisms keep the walk consistent:
  - a single "active node" handshake (`save_active` / `wait_if_active`);
  - a zombie queue for entries removed before the walk reaches them.

What is hard here, and what the properties are about:
- **Checkpoint threads.** Three threads share `running`, `activeNode` and the tree:
  the dispatcher, the checkpoint thread and the timer.
- **Writes.** `link_latest` runs after a write error.
- **Ordering.** The tree is changed before its log record is queued.
- **Handler re-entry.** A suspended handler re-enters from the front of the queue.
  `handle_truncate` runs an allocation inline. Chunkserver failures bump
  `chunkVersionInc` through a request that goes to the back of the queue. Write leases
  expire on wall-clock time.

## Modules

### `Checkpoint.tla` (with `MCCheckpoint.tla`): the checkpointer, dispatcher, log writer and timer

State:
- `tree` is a function from leaf nodes `1..N` to a value, or `Absent`.
- `pending` and `durable` are the log writer's queue and the written log.
- `running`, `mutations`, `nostart`, `startblocked`, `activeNode` and `cpcount` are the
  `Checkpoint` fields.
- `cpPc`, `cpPos`, `cpLeaves`, `cpZombies`, `cpStatus` and `cpHighest` are the
  checkpoint thread's position in `do_CP`.
- `latest` is the file that `LASTCP` links to.
- `dPc`, `dNode`, `dKind` are the dispatcher's position; `tPc` and `cpReq` are the
  timer's.
- `snap` is a history variable: the tree when `start_CP` set `running`.

Actions, one per step of the code:

| Thread | Actions |
|---|---|
| Dispatcher | `DequeueMutation`, `wait_if_active`, `process_request` (handler change plus `add_pending`), `handle_checkpoint`, `lock_running`, `unlock_running` |
| Log writer | `log_write` (a mutation record, or `MetaCheckpoint::log` -> `finishLog` + `start_CP`) |
| Checkpoint thread | `do_CP_open`, `write_leaf` (one iteration of `write_leaves` including `save_active`), `write_zombie`, `zombies_done`, `do_CP_close` (`file.close`, `link_latest`, `running=false`, `++cpcount`) |
| Timer | `cptimer_submit`, `cptimer_skip` |

Two pieces are modelled from the spec:
- Removing an entry the walk has not yet passed, while a checkpoint runs, enqueues a
  zombie (`NotYetCaptured`, `Zombify`, spec 9).
- Recovery loads the leaves, then the zombies, then replays the log records above the
  checkpoint's seq (`Recover`, spec 4.9).

Constants:
- `N` is the number of leaves.
- `MaxSeq` bounds the number of mutations.
- `WriteCanFail` lets the `file.fail()` paths happen.
- `LockRunning` enables the `lock_running` section of a handler. No caller under
  `src/` declares such a section; spec 4.3 (start-blocking) describes its use, and
  the section is modelled from `lock_running`/`unlock_running` themselves.

### `Allocate.tla` (with `MCAllocate.tla`): allocation, truncation and the chunk-version increment

State:
- `queue` is `requestList`. It holds request ids and `MetaChangeChunkVersionInc`
  entries.
- Per request: `st` (not sent, queued, suspended, done, dropped), `layoutDone`,
  `status`, `cid`, `ver`.
- `tree` maps a chunk offset to a chunk id and version.
- `chunkIdSeed`, `chunkVersionInc`, and `lease` (whether a chunk has a valid write
  lease).
- `inflight` holds the requests waiting on chunkserver RPCs.
- `log` holds the records handed to the logger.
- `attempts` is a history of every version sent to chunkservers for a new chunk or a
  new lease.

Actions:
- `submit_request`.
- `handle_allocate_layout`: the first pass of `handle_allocate`, including
  `add_pending` when it does not suspend.
- `handle_allocate_failed`: EALLOCFAILED, `getChunkVersion`, `ChangeIncarnationNumber`.
- `handle_allocate_assign`: `assignChunkId` and `add_pending`.
- `handle_truncate`: `tree.truncate`, then the synthesised `MetaAllocate` is run
  inline by the same `AllocOutcome` as `handle_allocate`.
- `handle_change_chunkVersionInc`: logs the record and releases the failed
  allocation.
- The environment: `ChunkserverReply` (success or failure; the request is re-queued
  at the front) and `LeaseExpire`.

Request ids: client requests are `1..NR`. The allocation that truncate `r`
synthesises is `NR + r`.

Constants:
- `PlacementCanFail` lets the layout manager find no servers (ENOSPC / no lease).
- `RpcWithinLease` says chunkservers answer before a write lease expires.
- `MaxInc` bounds `chunkVersionInc`, which bounds the number of chunkserver failures.

### `TcpSocket.tla` (with `MCTcpSocket.tla`): one `TcpSocket` and its peer

State:
- `sockFd` is `mSockFd`. `conn` says whether it is listening or connected.
- `kfds` is the kernel's descriptor table (`1..MaxFds`). `accepted` holds the
  descriptors of the `TcpSocket`s that `Accept` returned.
- `ctrOpenNetFds` is the global counter.
- `op`, `pc`, `n`, `len`, `dn`, `dlen`, `tmo`, `nfds`, `res` are the running call's
  locals: `numSent`/`numRecd`, `bufLen`, the discard's `numRecd`/`nbytes`, the
  caller's `timeval`, `select`'s result and the returned value. They are reset when
  the call returns.
- `inq`, `peerLeft`, `peer`, `space` are the kernel and the peer: bytes queued for
  `recv`, bytes the peer has yet to send, open/closed (FIN)/reset (RST), and free
  space in the send buffer.

Actions:
- Lifecycle: `Listen`, `Accept`, `Connect(byLocation)`, `Close`, and `CloseAccepted`
  (the destructor of an accepted socket). Each failure path of `socket`, `bind`,
  `connect` and `gethostbyname` is a disjunct.
- Each call has an entry action (`DoSynch*_call`). Each loop iteration is one
  action:
  - `DoSynchSend` does one `send`;
  - `Select` is the `select` of the receive and peek loops, with its timeout test
    and the EINTR return;
  - `DoSynchRecv` does one `recv`;
  - `DoSynchPeek` does one `recv(MSG_PEEK)`;
  - `DoSynchDiscard` covers the discard loop around `DoSynchRecv`.
- `IsGood`.
- The peer: `PeerSend`, `PeerRead`, `PeerClose` (FIN or RST).

Constants:
- `SelectUpdatesTimeout` chooses the platform's `select` semantics.
- `DiscardBufSize` stands for the 4096-byte buffer. `PeerBytes`, `BufLens`,
  `SndBuf` and `MaxTmo` bound the data and the time.

### `Namespace.tla` (with `MCNamespace.tla`): the namespace requests from wire to reply

This module follows each namespace request from its header to its reply: LOOKUP,
LOOKUP_PATH, CREATE, MKDIR, REMOVE, RMDIR, READDIR, RENAME, GETALLOC and GETLAYOUT.
For each one it takes:
- `ParseCommand` and the `parseHandler*` function;
- the `handle_*` handler;
- `add_pending` and the log record in `process_request`;
- `Meta*::response`.

It also models ALLOCATE as two steps. `handle_allocate`'s first pass suspends the
request on the chunkservers; the request resumes when they answer. Any other
request can run in between. HELLO and BYE model chunkservers that come and go.
LEASE_ACQUIRE and LEASE_RENEW model clients that take and renew read leases.
LEASE_CLEANUP models the expiry of leases.

State:
- `dentry` and `fattr` are the metatree: `(parent, name, fid)` triples and the type and
  `num_replicas` of each fid. `fidSeed` is the fid allocator.
- `log` is the sequence of records that `add_pending` queued.
- `chunks` holds the chunk infos `(fid, off, id, ver)`. `cseed` is the chunk id
  allocator.
- `mapped` holds the chunk ids that the layout manager maps to at least one server.
- `susp` holds the ALLOCATEs that are suspended on chunkserver RPCs.
- `lease` holds the chunk ids that have a live write lease. `rlease` holds those on
  which a client holds a live read lease. Both come from spec 4.5: the lease sets
  live in the LayoutManager, which is not under `src/`.
- `reply` is the last reply: command, status, handle, the entries of a READDIR, and
  the chunk or layout of GETALLOC, GETLAYOUT and ALLOCATE.

Actions:
- Each request kind is one action. Its header fields are drawn from small sets:
  - `Parent File-handle` values include a negative one;
  - `Num-replicas` is 3 in the `namespace` run. In the `namespace_replicas` run it
    is absent or a value that narrows to -1 in `int16_t`. A value above the cap of
    3, which is clamped, is left out to keep the runs short;
  - `Overwrite` is absent or 1 (any other value parses like absent);
  - a missing name is among the choices.
- The parse handler either rejects the header, which gives the EINVAL reply, or builds
  the request.
- `handle_allocate` either suspends the request or answers it:
  - a fresh chunk is placed, mapped and its primary given the write lease, or
    fails with ENOSPC;
  - an existing chunk with a live write lease is answered at once (spec 4.4). BYE
    drops a chunk's servers but not its lease, so such an answer can name a chunk
    with no server, which `MetaAllocate::response` asserts against (a hazard). One
    without a lease gets a new lease with its version bumped (suspend) when it has servers and
    no client holds a read lease on it (`CanGrantWriteLease`). Otherwise it gets
    ENOLEASE.
- `LEASE_ACQUIRE` (`parseHandlerLeaseAcquire`, `handle_lease_acquire`) grants a
  read lease when the chunk exists and has a server. It grants one even while a
  write lease is live, as spec 4.5 allows. A `Chunk-handle` that is absent parses
  to -1 and is refused.
- `LEASE_RENEW` answers 0 when the chunk, the `Lease-id` and the `Lease-type` name
  a live lease, and LEASE_EXPIRED otherwise. Any `Lease-type` other than
  WRITE_LEASE is a read lease. A lease id is abstracted to the id issued with the
  lease, or -1. Renewal only moves an expiry time, which is not modelled.
- `LEASE_CLEANUP` (`handle_lease_cleanup`) drops some read and write leases. A write lease whose
  version change is still outstanding does not expire: spec 5 has chunkservers
  answer or drop, and the Allocate model's `MCAllocateLease.cfg` shows what breaks
  when they answer after the lease.
- `PING` and `STATS` (`handle_ping`, `handle_stats`, `MetaPing::response`,
  `MetaStats::response`) answer 0 and change nothing the handlers own. The server
  list and the counter text are left out.
- `ChunkserverReply` resumes a suspended ALLOCATE:
  - on success, `assignChunkId` runs and the result is logged and answered;
  - on failure, the reply is EALLOCFAILED, the mapping of a fresh chunk is removed,
    and a chunkVersionInc record is logged.
- For the other requests, `Handle` applies the tree operation. `AddPending` logs the record when
  the operation is a successful mutation. `Response` builds the reply.

The tree operations and their error codes are not under `src/` and come from spec 3
and 4.1. `Replay` folds the log records over the empty tree, as restore does.

### `NamespaceSpec.tla`: what the namespace promises, and the refinement

`NamespaceSpec` is the abstract namespace: the variables `dentry`, `fattr` and
`chunks` and four actions, with no requests, log, seeds, leases or servers.
- `Make` adds an entry for an unused fid under an existing directory, with a free name.
- `Unlink` removes a file, or an empty directory, and forgets its chunks.
- `Move` moves an entry under a directory that is not in its own subtree
  (`InSubtreeOf`, the transitive closure of the parent relation, from the community
  `Relation` module); it may replace a file of the same name, whose chunks go.
- `PutChunk` puts a chunk of an existing file at an offset. A chunk already at that
  offset can only be replaced by the same chunk id at a higher version, and an id
  names one chunk.

`MCNamespace` defines `Abs == INSTANCE NamespaceSpec`; the refinement mapping is the
identity on the three tree variables, and everything else of `Namespace` is hidden.
The `namespace` run checks `AbsSpec == Abs!Spec` as a property. This is where the
races meet: a REMOVE or RENAME between an ALLOCATE's suspension and its resumption,
two ALLOCATEs of one offset, and a new write lease while another ALLOCATE of the chunk
waits. In every interleaving, the tree only moves by abstract steps.

## Runs

| Run | cfg | Expect | What it shows |
|---|---|---|---|
| checkpoint | MCCheckpoint.cfg | pass | Recovery from `latest` plus the log equals the tree (`RecoveryMatchesLog`). A finished checkpoint holds every entry present at `start_CP` (`CheckpointHasStartSnapshot`). A needed checkpoint starts (`CheckpointStarts`). |
| checkpoint_lock | MCCheckpointLock.cfg | pass | A `start_CP` that `lock_running` defers is still run: `unlock_running` starts the checkpoint it put off (`CheckpointStarts`). |
| checkpoint_rotation | MCCheckpointRotation.cfg | violation | With a deferred start, a second rotation advances `checkpointed` before `do_CP` reads it. Recovery resurrects a removed entry. |
| checkpoint_torn_read | MCCheckpointRace.cfg | violation | The checkpoint thread writes a leaf the dispatcher is in the middle of changing. |
| checkpoint_phantom | MCCheckpointDurable.cfg | violation | A checkpoint contains a change whose log record is not yet durable. |
| checkpoint_partial | MCCheckpointFail.cfg | violation | A checkpoint whose write failed is linked as latest; recovery loses entries. |
| allocate_nospace | MCAllocateNoSpace.cfg | pass | With placement failures, chunkserver failures and lease renewals, no version is sent twice for a chunk (`NoVersionReuse`) and every ALLOCATE is answered (`AllocationsAnswered`). |
| allocate_truncate_hang | MCAllocateTruncate.cfg | violation | A truncate whose inline allocation fails synchronously is suspended with nothing to resume it. |
| tcp | MCTcpSocket.cfg | pass | `ctrOpenNetFds` equals the number of open descriptors through every success and failure path of Listen/Accept/Connect/Close (`CounterMatchesOpenFds`). With Linux `select`, which writes back the time left, `DoSynchRecv` and `DoSynchPeek` always return whatever the peer does (`RecvTerminates`). `DoSynchSend`, which has no timeout, returns whenever the peer keeps reading, after as many partial sends as the buffer forces (`SendTerminates`). |
| tcp_discard_spin | MCTcpSocketDiscard.cfg | violation | The peer closes during `DoSynchDiscard`. `DoSynchRecv` then returns 0 on every call, and the discard loop never ends. |
| namespace | MCNamespace.cfg | pass | After any sequence of namespace and chunk requests, malformed headers included, replaying the log reproduces the tree and its chunk infos (`ReplayReproduces`). Every READDIR reply lists exactly the directory's entries, without the root's own "/" entry (`ReaddirListsChildren`). A successful ALLOCATE names a chunk the file holds, even when the file was removed or the offset was allocated while the request was suspended (`AllocateReplyMatchesTree`). Every step refines `NamespaceSpec` (`AbsSpec`). |
| namespace_replicas | MCNamespaceReplicas.cfg | violation | A CREATE with `Num-replicas: 65535` narrows to -1 in `int16_t`, passes both checks in `parseHandlerCreate`, and creates a file with `num_replicas = -1`. |

Two more configurations are kept on disk and listed in the hazards of `PROJECT.json`.
They are not among the runs above:
- `MCAllocateLease.cfg`: a lease that expires during its version change lets a second
  allocation reuse the version.
- `MCTcpSocketSelect.cfg`: where `select` leaves the timeval unchanged (BSD, Mac OS X),
  an idle peer makes `DoSynchRecv` loop on EAGAIN forever.

Bounds and why they are enough:
- **Checkpoint.** `N = 2` leaves and `MaxSeq = 3` mutations. That is enough for:
  - a remove before and after the walk position;
  - two log rotations;
  - a mutation during a checkpoint.

  Every reported trace needs at most 3 mutations.
- **Allocate.** Three client requests on one chunk offset: two ALLOCATEs and an
  extending TRUNCATE. `MaxInc = 3` allows two chunkserver failures. That is enough
  for each of these to occur in one behaviour:
  - creating the chunk;
  - a later new-lease version bump;
  - a failure and its increment;
  - the truncate's synthesised allocation racing a client allocation for the same
    offset (two fresh chunk ids, the second `assignChunkId` fails with EEXIST).

- **TcpSocket.** Two descriptors, so that a leak or an accepted socket fills the
  table and `socket()` fails. The peer has 3 bytes. Buffers are 3 bytes, the discard
  buffer 2 bytes, the send buffer 2 bytes, and the timeout 2 ticks. That is enough
  for each of these to occur:
  - partial sends and receives;
  - a discard that takes two `DoSynchRecv` calls;
  - a timeout after partial data;
  - EOF or RST in the middle of each loop.
- **Namespace.** Two names, fids 2..5 (the root plus three files or directories) and
  at most 3 log records. There is one chunk offset (plus an absent one), two chunk
  ids, and up to two ALLOCATEs suspended at a time. The names are model values and
  the run uses symmetry over them: the handlers and the properties compare names
  only for equality. `Num-replicas` is always 3 here: it differs from the default
  of 1, so a record that dropped it would fail replay. The run reaches about
  128 000 distinct states (up to symmetry) in about 90 seconds. That is enough for each of these to occur:
  - a REMOVE of a file while its ALLOCATE is suspended;
  - two ALLOCATEs racing for the same offset;
  - a GETLAYOUT after a BYE;
  - an ALLOCATE answered under a live lease while another waits on its version
    bump, and a new lease after LEASE_CLEANUP;
  - a read lease taken and dropped around ALLOCATEs of the same chunk;
  - a nested directory;
  - a rename onto an existing file;
  - a rename of a directory into its own subtree;
  - a non-empty RMDIR;
  - a READDIR of the root.

## Fairness

- **Checkpoint.** Each thread loops forever in the code (`cp_main`, `cptimer`, the
  logger, the dispatcher), so their steps are weakly fair. The exceptions are the
  arrival of client mutations, `lock_running` and the timer's idle tick.
  - `handle_checkpoint` is strongly fair. The timer's `MetaCheckpoint` sits in the
    FIFO `requestList`. The dispatcher reaches it after the finitely many requests
    ahead of it, even when `lock_running` sections keep disabling it in between.
- **Allocate.** The dispatcher handlers are weakly fair. `ChunkserverReply` is weakly
  fair for each request: spec 5 says a chunkserver either answers or its connection
  drops, and either way the suspended request is resumed.
  - Client submissions and lease expiry get no fairness.
  - `CHECK_DEADLOCK FALSE`: the model has a finite set of client requests. Once all
    are answered the server waits for input, which is a legitimate final state.

- **TcpSocket.** The calling thread's loop steps (`InCall`) are weakly fair: a thread
  inside `DoSynchRecv` keeps running it. Nothing about the peer is fair: it may never
  send, read or close, which is exactly what a timeout must cope with.
  - A signal's EINTR costs at least one tick. Without that, an endless stream of
    signals could keep any timed wait from ending.
  - `DoSynchSend` has no timeout, and its termination needs a peer that reads.
    `SendTerminates` therefore takes weak fairness of `PeerRead` as its
    hypothesis instead of assuming it in `Spec`: the code does not guarantee it.
- **Namespace.** The runs check safety (invariants and the refinement, which is a
  safety property), so no fairness is assumed.

## What is not modelled, and why

- The metadata tree's B+-tree structure. `Namespace` models the tree as a set of
  directory entries. The checkpoint properties only need leaves as a function.
- The replication check and done. They forward to the LayoutManager, which is
  not under `src/`, and change no state that the handlers own.
  In `Namespace`, a chunk's servers are abstracted to whether it has any. Replication
  only adds servers to a chunk that already has one. Chunk versions are abstracted to
  1 plus one per new lease.
- Chunkserver placement and lease expiry times. They live in the LayoutManager.
  Only the lease behaviour that the request handlers see is modelled.
- Crashes in the Allocate model. The checkpoint model expresses crash recovery as
  `Recover(latest, durable)`. The allocation path's crash window (the in-memory
  `chunkVersionInc` before its record is logged) is listed as a hazard.
- Text formatting of log records and replies. Records are TLA+ records.
- A first start without a checkpoint. `Checkpoint`'s `Init` is the state after
  `initial_CP` found the file of the highest checkpointed seq and returned; the
  branch that submits a first `MetaCheckpoint` and waits for it is left out.
- `NetManager`. Its main loop selects over `NetConnection`s, whose class is not
  in the repository, and nothing under `src/` creates a `NetManager`. The fd-0 test
  is listed as a hazard.
- `TelemetryClient`. The specification puts telemetry out of scope. Its code is a
  multicast socket, fire-and-forget sends and a receive that replaces the slow-node
  list. Its defects (a socket leaked when `bind` fails, an uninitialized address
  length passed to `recvfrom`) are single calls; they are listed as hazards. `DiskConnection` and `KfsClient` are declarations only. The
  rebalance planner is a command line that calls code not under `src/`.
