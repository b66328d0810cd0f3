----------------------------- MODULE Checkpoint -----------------------------
(***************************************************************************)
(* The metaserver's checkpoint protocol (src/cc/meta/checkpoint.cc) and    *)
(* the parts of the request loop (src/cc/meta/request.cc) it interlocks    *)
(* with.  Four threads share the state:                                    *)
(*   - the dispatcher, which runs handlers (process_request): a mutation   *)
(*     first waits until the checkpoint thread no longer holds the leaf    *)
(*     (wait_if_active), changes the tree, then queues its log record      *)
(*     (add_pending); it also retires MetaCheckpoint requests and may      *)
(*     open a lock_running/unlock_running critical section;                *)
(*   - the log writer, which writes queued records in order; writing the   *)
(*     MetaCheckpoint record rotates the log (finishLog) and calls         *)
(*     start_CP;                                                           *)
(*   - the checkpoint thread (cp_main/do_CP): header, leaves in key order  *)
(*     with the active-node handshake, zombies, close, link "latest";      *)
(*   - the timer thread (cptimer), which submits MetaCheckpoint when       *)
(*     isCPNeeded and waits for the log rotation.                          *)
(* The tree is abstracted to one entry per leaf node; an entry's value is  *)
(* the sequence number of the mutation that last wrote it, or Absent.      *)
(***************************************************************************)
EXTENDS Naturals, Sequences, SequencesExt

CONSTANTS
  N,            \* number of leaf nodes, in key order 1..N
  MaxSeq,       \* bound on the number of logged mutations
  Absent,       \* model value: no entry in the leaf
  NULL,         \* model value: activeNode when the checkpoint holds no node
  WriteCanFail, \* whether opening or writing the checkpoint file may fail
  LockRunning   \* whether handlers open lock_running critical sections

ASSUME /\ N \in Nat \ {0} /\ MaxSeq \in Nat \ {0}
       /\ WriteCanFail \in BOOLEAN /\ LockRunning \in BOOLEAN

Nodes == 1..N
Val   == (0..MaxSeq) \cup {Absent}
Kinds == {"put", "del"}

VARIABLES
  tree,          \* Nodes -> Val: the in-memory metadata tree
  seq,           \* sequence number of the last mutation handed to the log
  pending,       \* records queued by add_pending, not yet written
  durable,       \* records written to the log files, in order
  checkpointed,  \* oplog.checkpointed(): last seq of the last closed log
  mutations,     \* Checkpoint::mutations
  running,       \* Checkpoint::running
  nostart,       \* Checkpoint::nostart
  startblocked,  \* Checkpoint::startblocked
  activeNode,    \* Checkpoint::activeNode
  cpcount,       \* Checkpoint::cpcount
  cpPc,          \* checkpoint thread: "idle", "leaves", "zombies", "close"
  cpHighest,     \* the seq do_CP read from oplog.checkpointed()
  cpPos,         \* next leaf node the LeafIter will write
  cpLeaves,      \* leaf records written so far to the open file
  cpZombies,     \* zombie records written so far to the open file
  cpStatus,      \* "ok" or "err": status of the file writes
  latest,        \* the checkpoint file LASTCP links to
  zombie,        \* the zombie queue: <<node, value>> pairs
  dPc,           \* dispatcher: "idle", "wait", "modify", "locked"
  dNode,         \* node the current mutation is on
  dKind,         \* "put" or "del"
  cpReq,         \* a MetaCheckpoint sits in the request queue
  tPc,           \* timer thread: "sleep" or "wait" (in wait_for_cp)
  snap           \* history: the tree when the running checkpoint started

vars == <<tree, seq, pending, durable, checkpointed, mutations, running,
          nostart, startblocked, activeNode, cpcount, cpPc, cpHighest, cpPos,
          cpLeaves, cpZombies, cpStatus, latest, zombie, dPc, dNode, dKind,
          cpReq, tPc, snap>>

Record == [kind : {"mut"}, seq : 1..MaxSeq, node : Nodes, val : Val]
          \cup [kind : {"cp"}]
CPFile == [highest : 0..MaxSeq, leaves : [Nodes -> Val],
           zombies : Seq(Nodes \X Val)]

EmptyTree == [n \in Nodes |-> 0]

-----------------------------------------------------------------------------
(* Recovery (spec 4.9): load the leaves, then the zombie lines, then replay *)
(* the log records whose seq is above the checkpoint's.                    *)

ApplyRecord(t, r) ==
  IF r.kind = "mut" THEN [t EXCEPT ![r.node] = r.val] ELSE t

LoadZombie(t, z) == [t EXCEPT ![z[1]] = z[2]]

Recover(cp, log) ==
  FoldLeft(ApplyRecord,
           FoldLeft(LoadZombie, cp.leaves, cp.zombies),
           SelectSeq(log, LAMBDA r : r.kind = "mut" /\ r.seq > cp.highest))

\* The seq of the last mutation record in a log, 0 if there is none.
LastSeq(log) ==
  LET muts == SelectSeq(log, LAMBDA r : r.kind = "mut")
  IN  IF muts = <<>> THEN 0 ELSE Last(muts).seq

-----------------------------------------------------------------------------
Init ==
  /\ tree = EmptyTree
  /\ seq = 0
  /\ pending = <<>>
  /\ durable = <<>>
  /\ checkpointed = 0
  /\ mutations = 0
  /\ running = FALSE
  /\ nostart = FALSE
  /\ startblocked = FALSE
  /\ activeNode = NULL
  /\ cpcount = 0
  /\ cpPc = "idle"
  /\ cpHighest = 0
  /\ cpPos = 1
  /\ cpLeaves = [n \in Nodes |-> Absent]
  /\ cpZombies = <<>>
  /\ cpStatus = "ok"
  \* initial_CP found the file for the highest checkpointed seq
  /\ latest = [highest |-> 0, leaves |-> EmptyTree, zombies |-> <<>>]
  /\ zombie = <<>>
  /\ dPc = "idle"
  /\ dNode = 1
  /\ dKind = "put"
  /\ cpReq = FALSE
  /\ tPc = "sleep"
  /\ snap = EmptyTree

-----------------------------------------------------------------------------
(* Checkpoint::start_CP, called with the writer lock held, when nostart  *)
(* is ns; sb is what startblocked keeps when start_CP leaves it alone.     *)
start_CP(ns, sb) ==
  IF ~running /\ mutations # 0
  THEN IF ns
       THEN /\ startblocked' = TRUE
            /\ UNCHANGED <<running, mutations, snap>>
       ELSE /\ running' = TRUE
            /\ mutations' = 0          \* reset for next CP
            /\ snap' = tree
            /\ startblocked' = sb
  ELSE /\ startblocked' = sb
       /\ UNCHANGED <<running, mutations, snap>>

\* Fault variant: a checkpoint is needed only after more than one mutation.
isCPNeeded_oneTooMany == ~running /\ mutations > 1

\* Checkpoint::isCPNeeded
isCPNeeded == ~running /\ mutations # 0

\* The tree code keeps an entry the checkpoint has not reached yet as a
\* zombie when it is removed while a checkpoint runs (spec 9).
\* Fault variant: only removes during the leaf walk are kept as zombies,
\* not those between start_CP and the checkpoint thread waking up.
NotYetCaptured_walkOnly(n) == running /\ cpPc = "leaves" /\ n >= cpPos

NotYetCaptured(n) ==
  running /\ (cpPc = "idle" \/ (cpPc = "leaves" /\ n >= cpPos))

Zombify(n) ==
  IF dKind = "del" /\ NotYetCaptured(n) /\ tree[n] # Absent
  THEN zombie' = Append(zombie, <<n, tree[n]>>)
  ELSE UNCHANGED zombie

-----------------------------------------------------------------------------
(* Dispatcher                                                              *)

\* A mutating request (create/mkdir/remove/... on one leaf) is dequeued.
DequeueMutation(n, k) ==
  /\ dPc = "idle"
  /\ seq < MaxSeq
  /\ dPc' = "wait"
  /\ dNode' = n
  /\ dKind' = k
  /\ UNCHANGED <<tree, seq, pending, durable, checkpointed, mutations,
                 running, nostart, startblocked, activeNode, cpcount, cpPc,
                 cpHighest, cpPos, cpLeaves, cpZombies, cpStatus, latest,
                 zombie, cpReq, tPc, snap>>

\* Checkpoint::wait_if_active returns once the node is not the active one;
\* the lock is released before the handler goes on to modify the node.
wait_if_active ==
  /\ dPc = "wait"
  /\ activeNode # dNode
  /\ dPc' = "modify"
  /\ UNCHANGED <<tree, seq, pending, durable, checkpointed, mutations,
                 running, nostart, startblocked, activeNode, cpcount, cpPc,
                 cpHighest, cpPos, cpLeaves, cpZombies, cpStatus, latest,
                 zombie, dNode, dKind, cpReq, tPc, snap>>

\* The handler's tree change, then process_request's add_pending.
process_request ==
  /\ dPc = "modify"
  /\ tree' = [tree EXCEPT ![dNode] = IF dKind = "put" THEN seq + 1 ELSE Absent]
  /\ Zombify(dNode)
  /\ seq' = seq + 1
  /\ pending' = Append(pending, [kind |-> "mut", seq |-> seq + 1,
                                 node |-> dNode, val |-> tree'[dNode]])
  /\ dPc' = "idle"
  /\ UNCHANGED <<durable, checkpointed, mutations, running, nostart,
                 startblocked, activeNode, cpcount, cpPc, cpHighest, cpPos,
                 cpLeaves, cpZombies, cpStatus, latest, dNode, dKind, cpReq,
                 tPc, snap>>

\* handle_checkpoint: status 0, then add_pending of the MetaCheckpoint.
handle_checkpoint ==
  /\ dPc = "idle"
  /\ cpReq
  /\ cpReq' = FALSE
  /\ pending' = Append(pending, [kind |-> "cp"])
  /\ UNCHANGED <<tree, seq, durable, checkpointed, mutations, running,
                 nostart, startblocked, activeNode, cpcount, cpPc, cpHighest,
                 cpPos, cpLeaves, cpZombies, cpStatus, latest, zombie, dPc,
                 dNode, dKind, tPc, snap>>

\* Checkpoint::lock_running: a handler enters a section no checkpoint may
\* start in.
lock_running ==
  /\ LockRunning
  /\ dPc = "idle"
  /\ nostart' = TRUE
  /\ dPc' = "locked"
  /\ UNCHANGED <<tree, seq, pending, durable, checkpointed, mutations,
                 running, startblocked, activeNode, cpcount, cpPc, cpHighest,
                 cpPos, cpLeaves, cpZombies, cpStatus, latest, zombie, dNode,
                 dKind, cpReq, tPc, snap>>

\* Fault variant: unlock_running clears startblocked but drops the deferred
\* start_CP.
unlock_running_noStart ==
  /\ dPc = "locked"
  /\ dPc' = "idle"
  /\ nostart' = FALSE
  /\ startblocked' = FALSE
  /\ UNCHANGED <<tree, seq, pending, durable, checkpointed, activeNode,
                 cpcount, cpPc, cpHighest, cpPos, cpLeaves, cpZombies,
                 cpStatus, latest, zombie, dNode, dKind, cpReq, tPc, running,
                 mutations, snap>>

\* Checkpoint::unlock_running: clear nostart and run a deferred start_CP.
unlock_running ==
  /\ dPc = "locked"
  /\ dPc' = "idle"
  /\ nostart' = FALSE
  /\ IF startblocked
     THEN start_CP(FALSE, FALSE)
     ELSE UNCHANGED <<running, mutations, startblocked, snap>>
  /\ UNCHANGED <<tree, seq, pending, durable, checkpointed, activeNode,
                 cpcount, cpPc, cpHighest, cpPos, cpLeaves, cpZombies,
                 cpStatus, latest, zombie, dNode, dKind, cpReq, tPc>>

(* Log writer                                                              *)

\* The logger writes the oldest queued record.  A mutation record is
\* counted as a mutation for the next checkpoint; the MetaCheckpoint record
\* (MetaCheckpoint::log) closes the log (finishLog), then start_CP runs and
\* the timer's wait_for_cp returns.
log_write ==
  /\ pending # <<>>
  /\ pending' = Tail(pending)
  /\ LET r == Head(pending) IN
     IF r.kind = "mut"
     THEN /\ durable' = Append(durable, r)
          /\ mutations' = mutations + 1
          /\ UNCHANGED <<checkpointed, running, startblocked, snap, tPc>>
     ELSE /\ checkpointed' = LastSeq(durable)
          /\ start_CP(nostart, startblocked)
          /\ tPc' = "sleep"
          /\ UNCHANGED durable
  /\ UNCHANGED <<tree, seq, nostart, activeNode, cpcount, cpPc, cpHighest,
                 cpPos, cpLeaves, cpZombies, cpStatus, latest, zombie, dPc,
                 dNode, dKind, cpReq>>

-----------------------------------------------------------------------------
(* Checkpoint thread (Checkpoint::do_CP)                                   *)

\* Woken by start_CP: read the highest checkpointed seq, open the file,
\* write the header and save the first leaf as the active node.  If the
\* open fails, running is cleared and cpcount bumped without a new file.
do_CP_open ==
  /\ cpPc = "idle"
  /\ running
  /\ \/ /\ cpHighest' = checkpointed
        /\ cpLeaves' = [n \in Nodes |-> Absent]
        /\ cpZombies' = <<>>
        /\ cpStatus' = "ok"
        /\ cpPos' = 1
        /\ activeNode' = 1
        /\ cpPc' = "leaves"
        /\ UNCHANGED <<running, cpcount>>
     \/ /\ WriteCanFail
        /\ running' = FALSE
        /\ cpcount' = cpcount + 1
        /\ UNCHANGED <<cpHighest, cpLeaves, cpZombies, cpStatus, cpPos,
                       activeNode, cpPc>>
  /\ UNCHANGED <<tree, seq, pending, durable, checkpointed, mutations,
                 nostart, startblocked, latest, zombie, dPc, dNode, dKind,
                 cpReq, tPc, snap>>

\* Fault variants of write_leaf: the end-of-leaves test one node late (the
\* iterator saves a node past the last leaf as active) and one node early
\* (the last leaf is never written).
write_leaf_pastEnd ==
  /\ cpPc = "leaves"
  /\ cpLeaves' = [cpLeaves EXCEPT ![cpPos] = tree[cpPos]]
  /\ cpPos' = cpPos + 1
  /\ IF cpPos > N
     THEN activeNode' = NULL /\ cpPc' = "zombies"
     ELSE activeNode' = cpPos + 1 /\ UNCHANGED cpPc
  /\ UNCHANGED <<tree, seq, pending, durable, checkpointed, mutations,
                 running, nostart, startblocked, cpcount, cpHighest,
                 cpZombies, cpStatus, latest, zombie, dPc, dNode, dKind,
                 cpReq, tPc, snap>>

write_leaf_stopEarly ==
  /\ cpPc = "leaves"
  /\ cpLeaves' = [cpLeaves EXCEPT ![cpPos] = tree[cpPos]]
  /\ cpPos' = cpPos + 1
  /\ IF cpPos + 1 >= N
     THEN activeNode' = NULL /\ cpPc' = "zombies"
     ELSE activeNode' = cpPos + 1 /\ UNCHANGED cpPc
  /\ UNCHANGED <<tree, seq, pending, durable, checkpointed, mutations,
                 running, nostart, startblocked, cpcount, cpHighest,
                 cpZombies, cpStatus, latest, zombie, dPc, dNode, dKind,
                 cpReq, tPc, snap>>

\* One iteration of write_leaves: checkpoint the current leaf, advance the
\* LeafIter and save the next node as active (NULL after the last one).
\* A write error ends the loop; write_zombies is then skipped.
write_leaf ==
  /\ cpPc = "leaves"
  /\ \/ /\ cpLeaves' = [cpLeaves EXCEPT ![cpPos] = tree[cpPos]]
        /\ cpPos' = cpPos + 1
        /\ IF cpPos = N
           THEN activeNode' = NULL /\ cpPc' = "zombies"
           ELSE activeNode' = cpPos + 1 /\ UNCHANGED cpPc
        /\ UNCHANGED cpStatus
     \/ /\ WriteCanFail
        /\ cpStatus' = "err"
        /\ activeNode' = NULL
        /\ cpPc' = "close"
        /\ UNCHANGED <<cpLeaves, cpPos>>
  /\ UNCHANGED <<tree, seq, pending, durable, checkpointed, mutations,
                 running, nostart, startblocked, cpcount, cpHighest,
                 cpZombies, latest, zombie, dPc, dNode, dKind, cpReq, tPc,
                 snap>>

\* One iteration of write_zombies: dequeue a zombie, write it, delete it.
write_zombie ==
  /\ cpPc = "zombies"
  /\ zombie # <<>>
  /\ zombie' = Tail(zombie)
  /\ \/ /\ cpZombies' = Append(cpZombies, Head(zombie))
        /\ UNCHANGED cpStatus
     \/ /\ WriteCanFail
        /\ cpStatus' = "err"
        /\ UNCHANGED cpZombies
  /\ UNCHANGED <<tree, seq, pending, durable, checkpointed, mutations,
                 running, nostart, startblocked, activeNode, cpcount, cpPc,
                 cpHighest, cpPos, cpLeaves, latest, dPc, dNode, dKind,
                 cpReq, tPc, snap>>

zombies_done ==
  /\ cpPc = "zombies"
  /\ zombie = <<>>
  /\ cpPc' = "close"
  /\ UNCHANGED <<tree, seq, pending, durable, checkpointed, mutations,
                 running, nostart, startblocked, activeNode, cpcount,
                 cpHighest, cpPos, cpLeaves, cpZombies, cpStatus, latest,
                 zombie, dPc, dNode, dKind, cpReq, tPc, snap>>

\* file.close(); link_latest(cpname, LASTCP), whatever the write status;
\* then running = false and ++cpcount under the writer lock.
do_CP_close ==
  /\ cpPc = "close"
  /\ latest' = [highest |-> cpHighest, leaves |-> cpLeaves,
                zombies |-> cpZombies]
  /\ running' = FALSE
  /\ cpcount' = cpcount + 1
  /\ cpPc' = "idle"
  /\ UNCHANGED <<tree, seq, pending, durable, checkpointed, mutations,
                 nostart, startblocked, activeNode, cpHighest, cpPos,
                 cpLeaves, cpZombies, cpStatus, zombie, dPc, dNode, dKind,
                 cpReq, tPc, snap>>

-----------------------------------------------------------------------------
(* Timer thread (cptimer)                                                  *)

\* SIGALRM: when isCPNeeded, submit a MetaCheckpoint and wait_for_cp.
cptimer_submit ==
  /\ tPc = "sleep"
  /\ isCPNeeded
  /\ cpReq' = TRUE
  /\ tPc' = "wait"
  /\ UNCHANGED <<tree, seq, pending, durable, checkpointed, mutations,
                 running, nostart, startblocked, activeNode, cpcount, cpPc,
                 cpHighest, cpPos, cpLeaves, cpZombies, cpStatus, latest,
                 zombie, dPc, dNode, dKind, snap>>

\* SIGALRM when no checkpoint is needed: re-arm the alarm and continue.
cptimer_skip ==
  /\ tPc = "sleep"
  /\ ~isCPNeeded
  /\ UNCHANGED vars

-----------------------------------------------------------------------------
Next ==
  \/ \E n \in Nodes, k \in Kinds : DequeueMutation(n, k)
  \/ wait_if_active
  \/ process_request
  \/ handle_checkpoint
  \/ lock_running
  \/ unlock_running
  \/ log_write
  \/ do_CP_open
  \/ write_leaf
  \/ write_zombie
  \/ zombies_done
  \/ do_CP_close
  \/ cptimer_submit
  \/ cptimer_skip

\* Every thread but the clients' request stream makes progress: the
\* dispatcher finishes a handler it started, critical sections end, the
\* logger drains its queue, the checkpoint thread runs once woken and the
\* alarm keeps firing.  requestList is FIFO, so a queued MetaCheckpoint is
\* retired after the finitely many requests ahead of it: strong fairness,
\* as the dispatcher is busy with other handlers between chances.
Fairness ==
  /\ WF_vars(wait_if_active) /\ WF_vars(process_request)
  /\ SF_vars(handle_checkpoint) /\ WF_vars(unlock_running)
  /\ WF_vars(log_write)
  /\ WF_vars(do_CP_open) /\ WF_vars(write_leaf) /\ WF_vars(write_zombie)
  /\ WF_vars(zombies_done) /\ WF_vars(do_CP_close)
  /\ WF_vars(cptimer_submit)

Spec == Init /\ [][Next]_vars /\ Fairness

-----------------------------------------------------------------------------
(* Properties                                                              *)

TypeOK ==
  /\ tree \in [Nodes -> Val]
  /\ seq \in 0..MaxSeq
  /\ pending \in Seq(Record) /\ durable \in Seq(Record)
  /\ checkpointed \in 0..MaxSeq /\ mutations \in 0..MaxSeq
  /\ running \in BOOLEAN /\ nostart \in BOOLEAN /\ startblocked \in BOOLEAN
  /\ activeNode \in Nodes \cup {NULL}
  /\ cpcount \in Nat
  /\ cpPc \in {"idle", "leaves", "zombies", "close"}
  /\ cpHighest \in 0..MaxSeq /\ cpPos \in 1..N + 1
  /\ cpLeaves \in [Nodes -> Val] /\ cpZombies \in Seq(Nodes \X Val)
  /\ cpStatus \in {"ok", "err"}
  /\ latest \in CPFile
  /\ zombie \in Seq(Nodes \X Val)
  /\ dPc \in {"idle", "wait", "modify", "locked"}
  /\ dNode \in Nodes /\ dKind \in Kinds
  /\ cpReq \in BOOLEAN /\ tPc \in {"sleep", "wait"}
  /\ snap \in [Nodes -> Val]

\* Recovery from the file "latest" links to, replaying every record the
\* dispatcher has handed to the logger after the checkpoint's seq, rebuilds
\* exactly the in-memory tree: the leaf walk of do_CP, racing the
\* dispatcher's mutations, loses nothing the log does not restore.
RecoveryMatchesLog == Recover(latest, durable \o pending) = tree

\* Every entry present when start_CP set running appears in the finished
\* checkpoint, as a leaf or as a zombie: a remove during the walk of an
\* entry not yet written must go through the zombie queue (write_zombies).
CheckpointHasStartSnapshot ==
  (cpPc = "close" /\ cpStatus = "ok") =>
    \A n \in Nodes :
      snap[n] # Absent =>
        \/ cpLeaves[n] # Absent
        \/ \E i \in DOMAIN cpZombies : cpZombies[i][1] = n

\* Once mutations are counted and no checkpoint runs, a checkpoint starts:
\* the timer submits MetaCheckpoint, the logger's finishLog calls start_CP,
\* and a start deferred by lock_running is run by unlock_running.
CheckpointStarts == (~running /\ mutations # 0) ~> running

\* The checkpoint thread never holds as active the leaf the dispatcher is
\* in the middle of modifying (the handshake of save_active/wait_if_active).
NoTornLeafRead == ~(cpPc = "leaves" /\ dPc = "modify" /\ dNode = activeNode)

\* The checkpoint "latest" links to contains only mutations whose log
\* records are durable (spec 3, invariant 6): recovery from it and the
\* durable log gives the state the durable log alone describes.
CheckpointOnlyDurable ==
  Recover(latest, durable) = FoldLeft(ApplyRecord, EmptyTree, durable)

=============================================================================
