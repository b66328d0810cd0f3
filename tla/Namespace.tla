------------------------------ MODULE Namespace ------------------------------
(***************************************************************************)
(* The namespace requests of the metaserver (src/cc/meta/request.cc):      *)
(* LOOKUP, LOOKUP_PATH, CREATE, MKDIR, REMOVE, RMDIR, READDIR, RENAME,     *)
(* GETALLOC and GETLAYOUT, with ALLOCATE's suspension on the chunkservers  *)
(* and the chunkserver HELLO and BYE that change where chunks live, and   *)
(* the lease requests LEASE_ACQUIRE, LEASE_RENEW and LEASE_CLEANUP, and    *)
(* the monitoring requests PING and STATS.                                 *)
(*                                                                         *)
(* One action per request type carries a request from the wire to its      *)
(* reply: ParseCommand and the command's parse handler (header defaults,   *)
(* validation, the int16 narrowing of Num-replicas), the handler, then     *)
(* process_request's add_pending, which logs the request's record when it  *)
(* succeeded, and the response.  The dispatcher runs one request at a time *)
(* (spec 4.7), so these requests do not interleave with one another.       *)
(*                                                                         *)
(* The metadata tree (metatree.create, mkdir, remove, rmdir, rename,       *)
(* lookup, lookupPath, readdir) is not under src/; it is modelled from     *)
(* spec 3 as dentries and file attributes.  Replay of the log (spec 4.9)   *)
(* applies the logged records to an empty tree with the same operations.  *)
(* Header values are abstracted: a name is one of Names, a path a          *)
(* sequence of names, a file handle one of FhVals (-1 is also what an      *)
(* absent handle parses to).  Cseq is echoed unchanged and is left out.    *)
(* Chunk versions start at 1 and a new write lease adds 1: chunkVersionInc *)
(* and the chunkserver failure path it serves are detailed in Allocate.    *)
(* The layout manager's chunk -> servers map is abstracted to the set of   *)
(* chunk ids that have at least one server.                                *)
(***************************************************************************)
EXTENDS Integers, Sequences, FiniteSets

CONSTANTS
  Names,        \* file names clients use
  FhVals,       \* file handles clients send
  RepVals,      \* Num-replicas values clients send
  OwVals,       \* Overwrite values clients send
  MaxFid,       \* bound on the fids the tree hands out
  MaxLog,       \* bound on the number of mutation requests
  OffVals,      \* Chunk-offset values clients send (chunk indices)
  MaxChunk,     \* bound on the chunk ids the tree hands out
  MaxSusp,      \* bound on the ALLOCATEs suspended at one time
  Absent        \* a header the request does not carry

ROOTFID == 2                            \* common/kfstypes.h
NUM_REPLICAS_PER_FILE == 3              \* common/kfstypes.h
Fids == ROOTFID..MaxFid

\* New-path values: a name in the root or in a directory of the root.
Paths == {<<a>> : a \in Names} \cup {<<a, b>> : a, b \in Names}

VARIABLES
  dentry,    \* set of [parent, name, fid]; the root has the entry (2, "/", 2)
  fattr,     \* fid -> [type, nrep], or NoAttr
  fidSeed,   \* the last fid handed out
  log,       \* the records add_pending handed to the log writer
  chunks,    \* set of [fid, off, id, ver]: the chunk infos
  cseed,     \* the last chunk id handed out
  mapped,    \* chunk ids the layout manager maps to at least one server
  susp,      \* suspended ALLOCATEs: [req, chunk, fresh]
  lease,     \* chunk ids with a live write lease
  rlease,    \* chunk ids with a live read lease held by a client
  reply      \* the response to the last request

vars == <<dentry, fattr, fidSeed, log, chunks, cseed, mapped, susp, lease, rlease, reply>>

Offsets == {o \in OffVals : o # Absent /\ o >= 0}
ChunkIds == 1..MaxChunk
NoChunk == [fid |-> 0, off |-> 0, id |-> 0, ver |-> 0]

NoAttr == [type |-> "none", nrep |-> 0]

NoReply == [cmd |-> "none", dir |-> 0, status |-> "ok", fh |-> 0,
            type |-> "none", entries |-> {}, n |-> 0, off |-> 0,
            chunk |-> NoChunk, layout |-> {}]

(* The root directory is bootstrapped at init (spec 3).                    *)
EmptyTree ==
  [dentry |-> {[parent |-> ROOTFID, name |-> "/", fid |-> ROOTFID]},
   fattr |-> [f \in Fids |-> IF f = ROOTFID THEN [type |-> "dir", nrep |-> 1]
                                            ELSE NoAttr],
   seed |-> ROOTFID, chunks |-> {}, cseed |-> 0]

Init ==
  /\ dentry = EmptyTree.dentry
  /\ fattr = EmptyTree.fattr
  /\ fidSeed = EmptyTree.seed
  /\ log = <<>>
  /\ chunks = EmptyTree.chunks
  /\ cseed = EmptyTree.cseed
  /\ mapped = {}
  /\ susp = {}
  /\ lease = {}
  /\ rlease = {}
  /\ reply = NoReply

-----------------------------------------------------------------------------
(* The metadata tree, from spec 3.  A tree is a record t with fields       *)
(* dentry, fattr, seed, chunks, cseed; each operation returns             *)
(* [status, fid, t].                                                       *)

Exists(t, f) == f \in Fids /\ t.fattr[f] # NoAttr
IsDir(t, f) == Exists(t, f) /\ t.fattr[f].type = "dir"
Child(t, d, nm) == {e \in t.dentry : e.parent = d /\ e.name = nm /\ e.fid # d}
Children(t, d) == {e \in t.dentry : e.parent = d /\ e.fid # d}

RECURSIVE Resolve(_, _, _)
\* The fid a path names, starting at directory d, or 0.
Resolve(t, d, p) ==
  IF p = <<>> THEN d
  ELSE IF ~IsDir(t, d) \/ Child(t, d, Head(p)) = {} THEN 0
  ELSE Resolve(t, (CHOOSE e \in Child(t, d, Head(p)) : TRUE).fid, Tail(p))

\* Directory f is d or lies below it.
InSubtree(t, f, d) ==
  f = d \/ (LET RECURSIVE Up(_, _)
                Up(x, k) == k > 0 /\ \E e \in t.dentry :
                              e.fid = x /\ e.parent # x /\ (e.parent = d \/ Up(e.parent, k - 1))
            IN Up(f, MaxFid))

Result(st, f, t) == [status |-> st, fid |-> f, t |-> t]

AddEntry(t, d, nm, f, a) ==
  [t EXCEPT !.dentry = @ \cup {[parent |-> d, name |-> nm, fid |-> f]},
            !.fattr[f] = a,
            !.seed = IF f > @ THEN f ELSE @]

\* Dropping a file moves its chunks to the dumpster (spec 4.1).
DropEntry(t, e) ==
  [t EXCEPT !.dentry = @ \ {e}, !.fattr[e.fid] = NoAttr,
            !.chunks = {c \in @ : c.fid # e.fid}]

\* metatree.create / mkdir; replay passes the logged fid, a request 0.
MakeEntry(t, d, nm, typ, nrep, id) ==
  CASE ~Exists(t, d)        -> Result("ENOENT", 0, t)
    [] ~IsDir(t, d)         -> Result("ENOTDIR", 0, t)
    [] Child(t, d, nm) # {} -> Result("EEXIST", 0, t)
    [] OTHER -> LET f == IF id = 0 THEN t.seed + 1 ELSE id
                IN Result("ok", f, AddEntry(t, d, nm, f, [type |-> typ, nrep |-> nrep]))

\* metatree.remove (files) and metatree.rmdir (empty directories).
RemoveEntry(t, d, nm, typ) ==
  LET e == CHOOSE x \in Child(t, d, nm) : TRUE
  IN CASE Child(t, d, nm) = {}                          -> Result("ENOENT", 0, t)
       [] typ = "file" /\ IsDir(t, e.fid)               -> Result("EISDIR", 0, t)
       [] typ = "dir" /\ ~IsDir(t, e.fid)               -> Result("ENOTDIR", 0, t)
       [] typ = "dir" /\ Children(t, e.fid) # {}        -> Result("ENOTEMPTY", 0, t)
       [] OTHER                                         -> Result("ok", 0, DropEntry(t, e))

(* metatree.rename(dir, oldname, newpath, overwrite): the target's parent  *)
(* must exist; an existing target is replaced only with overwrite and only *)
(* if it is a file; a directory may not move into its own subtree.         *)
RenameEntry(t, d, old, np, ow) ==
  LET src == Child(t, d, old)
      e   == CHOOSE x \in src : TRUE
      nd  == Resolve(t, ROOTFID, SubSeq(np, 1, Len(np) - 1))
      nn  == np[Len(np)]
      tgt == IF nd = 0 THEN {} ELSE Child(t, nd, nn)
      old1 == CHOOSE x \in tgt : TRUE
      t1  == IF tgt = {} THEN t ELSE DropEntry(t, old1)
  IN CASE src = {} \/ nd = 0 \/ ~IsDir(t, nd)          -> Result("ENOENT", 0, t)
       [] tgt = {e}                                     -> Result("ok", 0, t)
       [] tgt # {} /\ ~ow                               -> Result("EEXIST", 0, t)
       [] tgt # {} /\ IsDir(t, old1.fid)                -> Result("EISDIR", 0, t)
       [] IsDir(t, e.fid) /\ InSubtree(t, nd, e.fid)    -> Result("EINVAL", 0, t)
       [] OTHER -> Result("ok", 0, [t1 EXCEPT !.dentry =
                     (@ \ {e}) \cup {[parent |-> nd, name |-> nn, fid |-> e.fid]}])

\* metatree.readdir: every dentry of the directory, the root's "/" included.
ReadDir(t, d) == {e \in t.dentry : e.parent = d}

\* metatree.lookup / lookupPath: the attributes' fid, or 0 for NULL.
LookupFid(t, d, nm) == IF Child(t, d, nm) = {} THEN 0
                       ELSE (CHOOSE e \in Child(t, d, nm) : TRUE).fid

\* The chunk infos of file f at offset o (at most one, spec 3).
ChunkAt(t, f, o) == {c \in t.chunks : c.fid = f /\ c.off = o}

(* metatree.allocateChunkId: a fresh chunk id with the first version, or   *)
(* -EEXIST with the chunk already at the offset.                           *)
AllocateChunkId(t, f, o) ==
  CASE ~Exists(t, f)          -> [status |-> "ENOENT", chunk |-> NoChunk, t |-> t]
    [] IsDir(t, f)            -> [status |-> "EISDIR", chunk |-> NoChunk, t |-> t]
    [] ChunkAt(t, f, o) # {}  -> [status |-> "EEXIST", t |-> t,
                                  chunk |-> CHOOSE c \in ChunkAt(t, f, o) : TRUE]
    [] OTHER -> [status |-> "ok", t |-> [t EXCEPT !.cseed = @ + 1],
                 chunk |-> [fid |-> f, off |-> o, id |-> t.cseed + 1, ver |-> 1]]

\* Mutant: assignChunkId does not look the file up again.
AssignChunkId_noFileCheck(t, c) ==
  LET at == ChunkAt(t, c.fid, c.off) IN
  IF \E x \in at : x.id # c.id THEN Result("EEXIST", 0, t)
  ELSE Result("ok", 0, [t EXCEPT !.chunks = (@ \ at) \cup {c}])

(* metatree.assignChunkId: record the chunk at its offset or update its    *)
(* version; the file must still exist and hold no other chunk there.       *)
AssignChunkId(t, c) ==
  LET at == ChunkAt(t, c.fid, c.off) IN
  CASE ~Exists(t, c.fid)                -> Result("ENOENT", 0, t)
    [] \E x \in at : x.id # c.id        -> Result("EEXIST", 0, t)
    [] OTHER -> Result("ok", 0, [t EXCEPT !.chunks = (@ \ at) \cup {c}])

-----------------------------------------------------------------------------
(* Parsing: Properties::getValue with its default, and the int16_t that    *)
(* parseHandlerCreate narrows Num-replicas to.                             *)

GetValue(v, default) == IF v = Absent THEN default ELSE v

Int16(v) == LET m == v % 65536 IN IF m >= 32768 THEN m - 65536 ELSE m

Rejected == [op |-> "rejected"]

\* The request record a parse handler builds; the fields not set are unused.
Req(op, dir, name, nrep, path, ow) ==
  [op |-> op, dir |-> dir, name |-> name, nrep |-> nrep, path |-> path, ow |-> ow,
   off |-> 0]

\* Mutant: a parse handler that does not check that the name is present.
parseHandlerDirName_noNameCheck(op, fh, nm) ==
  IF GetValue(fh, -1) < 0 THEN Rejected ELSE Req(op, fh, nm, 0, <<>>, FALSE)

\* parseHandlerLookup, parseHandlerRemove, parseHandlerMkdir, parseHandlerRmdir:
\* a negative parent handle or a missing name rejects the request.
parseHandlerDirName(op, fh, nm) ==
  IF GetValue(fh, -1) < 0 \/ nm = Absent THEN Rejected
  ELSE Req(op, fh, nm, 0, <<>>, FALSE)

\* parseHandlerLookupPath: Root File-handle and Pathname.
parseHandlerLookupPath(fh, path) ==
  IF GetValue(fh, -1) < 0 \/ path = Absent THEN Rejected
  ELSE Req("lookup_path", fh, "", 0, path, FALSE)

(* parseHandlerCreate: Num-replicas defaults to 1 and is stored in an      *)
(* int16_t; 0 rejects the request, more than NUM_REPLICAS_PER_FILE is      *)
(* capped.                                                                 *)
parseHandlerCreate(fh, nm, rep) ==
  LET n == Int16(GetValue(rep, 1))
  IN IF GetValue(fh, -1) < 0 \/ nm = Absent \/ n = 0 THEN Rejected
     ELSE Req("create", fh, nm,
              IF n > NUM_REPLICAS_PER_FILE THEN NUM_REPLICAS_PER_FILE ELSE n,
              <<>>, FALSE)

\* parseHandlerReaddir: Directory File-handle.
parseHandlerReaddir(fh) ==
  IF GetValue(fh, -1) < 0 THEN Rejected ELSE Req("readdir", fh, "", 0, <<>>, FALSE)

\* parseHandlerRename: Overwrite is true only when it is 1.
parseHandlerRename(fh, old, np, ow) ==
  IF GetValue(fh, -1) < 0 \/ old = Absent \/ np = Absent THEN Rejected
  ELSE Req("rename", fh, old, 0, np, GetValue(ow, 0) = 1)

(* parseHandlerGetalloc, parseHandlerAllocate: File-handle and           *)
(* Chunk-offset, both defaulting to -1; a negative one rejects.            *)
parseHandlerChunkOffset(op, fh, off) ==
  IF GetValue(fh, -1) < 0 \/ GetValue(off, -1) < 0 THEN Rejected
  ELSE [Req(op, fh, "", 0, <<>>, FALSE) EXCEPT !.off = off]

\* parseHandlerGetlayout: File-handle only.
parseHandlerGetlayout(fh) ==
  IF GetValue(fh, -1) < 0 THEN Rejected ELSE Req("getlayout", fh, "", 0, <<>>, FALSE)

-----------------------------------------------------------------------------
(* The handlers: the tree operation each one calls, and its result.        *)

Tree == [dentry |-> dentry, fattr |-> fattr, seed |-> fidSeed,
         chunks |-> chunks, cseed |-> cseed]

SetTree(t) ==
  /\ dentry' = t.dentry /\ fattr' = t.fattr /\ fidSeed' = t.seed
  /\ chunks' = t.chunks /\ cseed' = t.cseed

(* handle_getalloc: file_exists, metatree.getalloc(fid, offset), then the  *)
(* layout manager's servers for the chunk; none is -ENOENT.                *)
handle_getalloc(t, m, r) ==
  LET at == ChunkAt(t, r.dir, r.off)
      c  == CHOOSE x \in at : TRUE
  IN CASE ~Exists(t, r.dir) \/ at = {} \/ c.id \notin m -> [status |-> "ENOENT", chunk |-> NoChunk]
       [] OTHER                                          -> [status |-> "ok", chunk |-> c]

(* handle_getlayout: file_exists, metatree.getalloc(fid, chunks), then     *)
(* each chunk's servers; a chunk with none ends it with -EHOSTUNREACH.     *)
handle_getlayout(t, m, r) ==
  LET cs == {c \in t.chunks : c.fid = r.dir}
  IN CASE ~Exists(t, r.dir)         -> [status |-> "ENOENT", layout |-> {}]
       [] \E c \in cs : c.id \notin m -> [status |-> "EHOSTUNREACH", layout |-> {}]
       [] OTHER                     -> [status |-> "ok", layout |-> cs]

\* handle_readdir: file_exists and is_dir checks, then metatree.readdir.
handle_readdir(t, r) ==
  CASE ~Exists(t, r.dir) -> [status |-> "ENOENT", ents |-> {}]
    [] ~IsDir(t, r.dir)  -> [status |-> "ENOTDIR", ents |-> {}]
    [] OTHER             -> [status |-> "ok", ents |-> ReadDir(t, r.dir)]

\* handler[r->op](r): the status, the fid it reports and the new tree.
Handle(t, r) ==
  CASE r.op = "lookup"      -> LET f == LookupFid(t, r.dir, r.name)
                               IN Result(IF f = 0 THEN "ENOENT" ELSE "ok", f, t)
    [] r.op = "lookup_path" -> LET f == Resolve(t, r.dir, r.path)
                               IN Result(IF Exists(t, f) THEN "ok" ELSE "ENOENT", f, t)
    [] r.op = "create"      -> MakeEntry(t, r.dir, r.name, "file", r.nrep, 0)
    [] r.op = "mkdir"       -> MakeEntry(t, r.dir, r.name, "dir", 1, 0)
    [] r.op = "remove"      -> RemoveEntry(t, r.dir, r.name, "file")
    [] r.op = "rmdir"       -> RemoveEntry(t, r.dir, r.name, "dir")
    [] r.op = "rename"      -> RenameEntry(t, r.dir, r.name, r.path, r.ow)
    [] r.op = "readdir"     -> Result(handle_readdir(t, r).status, 0, t)

-----------------------------------------------------------------------------
(* Log records (MetaX::log) and the response (MetaX::response).            *)

\* Mutant: a create record without numReplicas, which replay reads as 1.
MetaCreate_log_noReplicas(r, res) ==
  [op |-> "create", dir |-> r.dir, name |-> r.name, id |-> res.fid,
   nrep |-> 1, path |-> <<>>]

\* MetaCreate::log: create/dir/D/name/N/id/F/numReplicas/R.
MetaCreate_log(r, res) ==
  [op |-> "create", dir |-> r.dir, name |-> r.name, id |-> res.fid,
   nrep |-> r.nrep, path |-> <<>>]

\* MetaRename::log: rename/dir/D/old/O/new/P; the Overwrite flag is not
\* written.
MetaRename_log(r) ==
  [op |-> "rename", dir |-> r.dir, name |-> r.name, id |-> 0, nrep |-> 0,
   path |-> r.path]

\* MetaChangeChunkVersionInc::log: chunkVersionInc/N (the value of N is
\* followed in Allocate).
MetaChangeChunkVersionInc_log == [op |-> "chunkVersionInc"]

\* The record of a mutation; lookups and readdir log nothing (nop log methods).
LogRecord(r, res) ==
  CASE r.op = "create" -> MetaCreate_log(r, res)
    [] r.op = "mkdir"  -> [op |-> "mkdir", dir |-> r.dir, name |-> r.name,
                           id |-> res.fid, nrep |-> 0, path |-> <<>>]
    [] r.op \in {"remove", "rmdir"} ->
                          [op |-> r.op, dir |-> r.dir, name |-> r.name,
                           id |-> 0, nrep |-> 0, path |-> <<>>]
    [] r.op = "rename" -> MetaRename_log(r)

Mutating == {"create", "mkdir", "remove", "rmdir", "rename"}

(* add_pending: the log writer writes the records of requests that         *)
(* succeeded (spec 7: validation errors are not logged).                   *)
AddPending(r, res) ==
  log' = IF r.op \in Mutating /\ res.status = "ok"
           THEN Append(log, LogRecord(r, res)) ELSE log

\* Mutant: a readdir response that does not skip the root's "/".
MetaReaddir_response_noSkip(r, ents) ==
  LET names == {e.name : e \in ents}
  IN [entries |-> names, n |-> Cardinality(names)]

\* MetaReaddir::response: one name per line, "/" skipped in the root.
MetaReaddir_response(r, ents) ==
  LET names == {e.name : e \in {x \in ents : ~(r.dir = ROOTFID /\ x.name = "/")}}
  IN [entries |-> names, n |-> Cardinality(names)]

(* MetaX::response: Status, then the command's headers when status >= 0:  *)
(* File-handle and Type for the lookups, File-handle for create and mkdir, *)
(* the names for readdir.                                                  *)
Response(t, r, res) ==
  LET ok == res.status = "ok"
      rd == MetaReaddir_response(r, handle_readdir(t, r).ents)
  IN [cmd |-> r.op, dir |-> r.dir, status |-> res.status,
      fh |-> IF ok /\ r.op \in {"lookup", "lookup_path", "create", "mkdir"}
             THEN res.fid ELSE 0,
      type |-> IF ok /\ r.op \in {"lookup", "lookup_path"}
               THEN t.fattr[res.fid].type ELSE "none",
      entries |-> IF ok /\ r.op = "readdir" THEN rd.entries ELSE {},
      n |-> IF ok /\ r.op = "readdir" THEN rd.n ELSE 0,
      off |-> 0, chunk |-> NoChunk, layout |-> {}]

-----------------------------------------------------------------------------
(* A request from the wire to its reply: ParseCommand finds the parse      *)
(* handler; a parse failure is answered without reaching the dispatcher;   *)
(* otherwise process_request runs the handler and add_pending.            *)
RejectReply == [NoReply EXCEPT !.cmd = "rejected", !.status = "EINVAL"]

process_request(r) ==
  /\ IF r = Rejected
       THEN /\ reply' = RejectReply
            /\ UNCHANGED <<dentry, fattr, fidSeed, log, chunks, cseed>>
       ELSE LET res == Handle(Tree, r)
            IN /\ SetTree(res.t)
               /\ AddPending(r, res)
               /\ reply' = Response(res.t, r, res)
  /\ UNCHANGED <<mapped, susp, lease, rlease>>

NameVals == Names \cup {Absent}

LOOKUP == \E fh \in FhVals, nm \in NameVals :
            process_request(parseHandlerDirName("lookup", fh, nm))
LOOKUP_PATH == \E fh \in FhVals, p \in Paths \cup {Absent} :
            process_request(parseHandlerLookupPath(fh, p))
\* Mutations stop at MaxLog requests; a new fid needs fidSeed < MaxFid.
Room == Len(log) < MaxLog

CREATE == Room /\ fidSeed < MaxFid /\ \E fh \in FhVals, nm \in NameVals, rep \in RepVals :
            process_request(parseHandlerCreate(fh, nm, rep))
MKDIR == Room /\ fidSeed < MaxFid /\ \E fh \in FhVals, nm \in NameVals :
            process_request(parseHandlerDirName("mkdir", fh, nm))
REMOVE == Room /\ \E fh \in FhVals, nm \in NameVals :
            process_request(parseHandlerDirName("remove", fh, nm))
RMDIR == Room /\ \E fh \in FhVals, nm \in NameVals :
            process_request(parseHandlerDirName("rmdir", fh, nm))
READDIR == \E fh \in FhVals : process_request(parseHandlerReaddir(fh))
RENAME == Room /\ \E fh \in FhVals, nm \in NameVals, np \in Paths \cup {Absent}, ow \in OwVals :
            process_request(parseHandlerRename(fh, nm, np, ow))

\* MetaGetalloc::response: Chunk-handle, Chunk-version and the servers.
MetaGetalloc_response(r, g) ==
  [NoReply EXCEPT !.cmd = "getalloc", !.dir = r.dir, !.off = r.off,
                  !.status = g.status, !.chunk = g.chunk]

\* MetaGetlayout::response: Num-chunks and each chunk's layout.
MetaGetlayout_response(r, g) ==
  [NoReply EXCEPT !.cmd = "getlayout", !.dir = r.dir, !.status = g.status,
                  !.layout = g.layout]

\* GETALLOC and GETLAYOUT change nothing and log nothing (nop log methods).
GETALLOC == \E fh \in FhVals, off \in OffVals :
  LET r == parseHandlerChunkOffset("getalloc", fh, off) IN
  /\ reply' = IF r = Rejected THEN RejectReply
              ELSE MetaGetalloc_response(r, handle_getalloc(Tree, mapped, r))
  /\ UNCHANGED <<dentry, fattr, fidSeed, log, chunks, cseed, mapped, susp, lease, rlease>>
GETLAYOUT == \E fh \in FhVals :
  LET r == parseHandlerGetlayout(fh) IN
  /\ reply' = IF r = Rejected THEN RejectReply
              ELSE MetaGetlayout_response(r, handle_getlayout(Tree, mapped, r))
  /\ UNCHANGED <<dentry, fattr, fidSeed, log, chunks, cseed, mapped, susp, lease, rlease>>

-----------------------------------------------------------------------------
(* ALLOCATE: the first pass of handle_allocate may suspend the request on  *)
(* chunkserver RPCs; other requests run until the chunkservers answer and  *)
(* the request is resumed.                                                 *)

\* MetaAllocate::log: allocate/file/F/offset/O/chunkId/C/chunkVersion/V.
MetaAllocate_log(c) ==
  [op |-> "allocate", dir |-> c.fid, name |-> "", id |-> c.id, nrep |-> 0,
   path |-> <<>>, off |-> c.off, ver |-> c.ver]

(* add_pending logs the record when the status is 0; MetaAllocate::       *)
(* response sends Chunk-handle and Chunk-version only then.               *)
AnswerAllocate(r, st, c) ==
  /\ log' = IF st = "ok" THEN Append(log, MetaAllocate_log(c)) ELSE log
  /\ reply' = [NoReply EXCEPT !.cmd = "allocate", !.dir = r.dir, !.off = r.off,
                              !.status = st, !.chunk = IF st = "ok" THEN c ELSE NoChunk]

\* req->suspended: no reply and no log record until the request resumes.
Suspend(r, c, fresh) ==
  /\ susp' = susp \cup {[req |-> r, chunk |-> c, fresh |-> fresh]}
  /\ log' = log /\ reply' = NoReply

\* GetChunkWriteLease (spec 4.5): a new write lease needs a server of the
\* chunk and no live read lease on it.
CanGrantWriteLease(id) == id \in mapped /\ id \notin rlease

(* handle_allocate, first pass: allocateChunkId; a fresh chunk is placed   *)
(* by AllocateChunk (its servers are mapped, the RPC sent) or -ENOSPC; an *)
(* existing one goes to GetChunkWriteLease (spec 4.4, 4.5): a live write  *)
(* lease is answered at once; otherwise a chunk with servers gets a new    *)
(* lease with its version bumped (RPCs sent), unless a client holds a     *)
(* read lease: then it is refused.  A placed chunk's primary holds the    *)
(* write lease.                                                            *)

handle_allocate(r) ==
  LET a == AllocateChunkId(Tree, r.dir, r.off)
      id == a.chunk.id IN
  CASE a.status = "ok" ->
         /\ SetTree(a.t)
         /\ \/ /\ Suspend(r, a.chunk, TRUE)
               /\ mapped' = mapped \cup {id} /\ lease' = lease \cup {id} /\ UNCHANGED rlease
            \/ AnswerAllocate(r, "ENOSPC", NoChunk) /\ UNCHANGED <<mapped, susp, lease, rlease>>
    [] a.status = "EEXIST" ->
         /\ UNCHANGED <<dentry, fattr, fidSeed, chunks, cseed, mapped, rlease>>
         /\ \/ id \in lease /\ AnswerAllocate(r, "ok", a.chunk) /\ UNCHANGED <<susp, lease>>
            \/ /\ id \notin lease /\ CanGrantWriteLease(id)
               /\ Suspend(r, [a.chunk EXCEPT !.ver = @ + 1], FALSE)
               /\ lease' = lease \cup {id}
            \/ /\ id \notin lease /\ ~CanGrantWriteLease(id)
               /\ AnswerAllocate(r, "ENOLEASE", NoChunk) /\ UNCHANGED <<susp, lease>>
    [] OTHER ->
         /\ AnswerAllocate(r, a.status, NoChunk)
         /\ UNCHANGED <<dentry, fattr, fidSeed, chunks, cseed, mapped, susp, lease, rlease>>

\* metatree.getChunkVersion: the file's version of the chunk, 0 if none.
GetChunkVersion(t, f, id) ==
  LET cs == {c \in t.chunks : c.fid = f /\ c.id = id}
  IN IF cs = {} THEN 0 ELSE (CHOOSE c \in cs : TRUE).ver

\* Mutant: the resumed request answers success whatever assignChunkId says.
handle_allocate_resume_noCheck(p, ok) ==
  IF ok
  THEN LET res == AssignChunkId(Tree, p.chunk) IN
       /\ SetTree(res.t) /\ mapped' = mapped
       /\ AnswerAllocate(p.req, "ok", p.chunk)
  ELSE /\ UNCHANGED <<dentry, fattr, fidSeed, chunks, cseed>>
       /\ mapped' = IF GetChunkVersion(Tree, p.chunk.fid, p.chunk.id) > 0
                    THEN mapped ELSE mapped \ {p.chunk.id}
       /\ log' = Append(log, MetaChangeChunkVersionInc_log)
       /\ reply' = [NoReply EXCEPT !.cmd = "allocate", !.dir = p.req.dir,
                                   !.off = p.req.off, !.status = "EALLOCFAILED"]

(* handle_allocate, resumed (layoutDone): on success assignChunkId and     *)
(* add_pending; on a chunkserver failure EALLOCFAILED, the mapping of a    *)
(* chunk the tree does not hold is removed (a known one gets its version   *)
(* reset on the servers) and ChangeIncarnationNumber's request logs        *)
(* chunkVersionInc before the client is answered.                          *)
handle_allocate_resume(p, ok) ==
  IF ok
  THEN LET res == AssignChunkId(Tree, p.chunk) IN
       /\ SetTree(res.t) /\ mapped' = mapped
       /\ AnswerAllocate(p.req, res.status, p.chunk)
  ELSE /\ UNCHANGED <<dentry, fattr, fidSeed, chunks, cseed>>
       /\ mapped' = IF GetChunkVersion(Tree, p.chunk.fid, p.chunk.id) > 0
                    THEN mapped ELSE mapped \ {p.chunk.id}
       /\ log' = Append(log, MetaChangeChunkVersionInc_log)
       /\ reply' = [NoReply EXCEPT !.cmd = "allocate", !.dir = p.req.dir,
                                   !.off = p.req.off, !.status = "EALLOCFAILED"]

ALLOCATE == Room /\ Cardinality(susp) < MaxSusp /\ cseed < MaxChunk /\
  \E fh \in FhVals, off \in OffVals :
    LET r == parseHandlerChunkOffset("allocate", fh, off) IN
    IF r = Rejected
    THEN /\ reply' = RejectReply
         /\ UNCHANGED <<dentry, fattr, fidSeed, log, chunks, cseed, mapped, susp, lease, rlease>>
    ELSE handle_allocate(r)

\* The chunkservers answer a suspended ALLOCATE, which is resumed.
ChunkserverReply == \E p \in susp, ok \in BOOLEAN :
  /\ susp' = susp \ {p}
  /\ handle_allocate_resume(p, ok)
  /\ UNCHANGED <<lease, rlease>>

(* HELLO (handle_hello, gLayoutManager.AddNewServer): a chunkserver with a *)
(* valid location reports chunks it hosts, which gain a server; a HELLO    *)
(* without Chunk-server-name and -port fails to parse.                     *)
HELLO == \E valid \in BOOLEAN, s \in SUBSET {c.id : c \in chunks} :
  /\ IF valid THEN mapped' = mapped \cup s /\ reply' = NoReply
              ELSE mapped' = mapped /\ reply' = RejectReply
  /\ UNCHANGED <<dentry, fattr, fidSeed, log, chunks, cseed, susp, lease, rlease>>

(* BYE (handle_bye, gLayoutManager.ServerDown): a chunkserver goes down    *)
(* and the chunks it was the last server of lose their mapping.            *)
BYE == \E s \in SUBSET mapped :
  /\ s # {}
  /\ mapped' = mapped \ s /\ reply' = NoReply
  /\ UNCHANGED <<dentry, fattr, fidSeed, log, chunks, cseed, susp, lease, rlease>>

(* LEASE_CLEANUP (handle_lease_cleanup): gLayoutManager.LeaseCleanup drops *)
(* the read and write leases that have expired, then cleanupDumpster       *)
(* (Namespace drops a removed file's chunks at once).  A chunkserver       *)
(* answers the version change of a new lease before the lease runs out:    *)
(* a lease with RPCs outstanding does not expire (MCAllocateLease.cfg      *)
(* explores the other case).                                               *)
LEASE_CLEANUP == \E s \in SUBSET lease, rs \in SUBSET rlease :
  /\ s \cup rs # {}
  /\ \A p \in susp : p.chunk.id \notin s
  /\ lease' = lease \ s /\ rlease' = rlease \ rs /\ reply' = NoReply
  /\ UNCHANGED <<dentry, fattr, fidSeed, log, chunks, cseed, mapped, susp>>

-----------------------------------------------------------------------------
(* LEASE_ACQUIRE and LEASE_RENEW.  The lease manager is not under src/; it *)
(* is modelled from spec 4.5.  A Lease-id is abstracted to whether the     *)
(* client sends IssuedLeaseId, the id the layout manager issued with the  *)
(* live lease of that chunk and kind, or none (-1, which matches none).    *)
(* Expiry times are left out: LEASE_CLEANUP drops any leases that expire.  *)

IssuedLeaseId == 1
LeaseIdVals == {Absent, IssuedLeaseId}
LeaseTypeVals == {Absent, "READ_LEASE", "WRITE_LEASE"}

\* parseHandlerLeaseAcquire: Chunk-handle defaults to -1; never rejects.
parseHandlerLeaseAcquire(ch) == [op |-> "lease_acquire", chunk |-> GetValue(ch, -1)]

\* parseHandlerLeaseRenew: any Lease-type other than WRITE_LEASE is a read
\* lease; Lease-id defaults to -1; never rejects.
parseHandlerLeaseRenew(ch, lid, typ) ==
  [op |-> "lease_renew", chunk |-> GetValue(ch, -1), lid |-> GetValue(lid, -1),
   kind |-> IF typ = "WRITE_LEASE" THEN "write" ELSE "read"]

(* handle_lease_acquire, GetChunkReadLease: granted when the chunk exists  *)
(* and has a server, alongside other read leases; otherwise a negative     *)
(* status (modelled as ENOLEASE).                                          *)
handle_lease_acquire(r) ==
  IF (\E c \in chunks : c.id = r.chunk) /\ r.chunk \in mapped
  THEN "ok" ELSE "ENOLEASE"

(* handle_lease_renew, LeaseRenew: the (chunk, lease id, kind) tuple must  *)
(* name a live lease; otherwise LEASE_EXPIRED.  Renewing only moves the    *)
(* expiry, which is not modelled.                                          *)
handle_lease_renew(r) ==
  IF r.lid = IssuedLeaseId /\ r.chunk \in (IF r.kind = "write" THEN lease ELSE rlease)
  THEN "ok" ELSE "LEASE_EXPIRED"

\* MetaLeaseAcquire::response and MetaLeaseRenew::response: Status (and the
\* Lease-id when it is not negative).
MetaLease_response(cmd, st) == [NoReply EXCEPT !.cmd = cmd, !.status = st]

LEASE_ACQUIRE == \E ch \in ChunkIds \cup {Absent} :
  LET r == parseHandlerLeaseAcquire(ch)
      st == handle_lease_acquire(r) IN
  /\ rlease' = IF st = "ok" THEN rlease \cup {r.chunk} ELSE rlease
  /\ reply' = MetaLease_response("lease_acquire", st)
  /\ UNCHANGED <<dentry, fattr, fidSeed, log, chunks, cseed, mapped, susp, lease>>

LEASE_RENEW == \E ch \in ChunkIds \cup {Absent}, lid \in LeaseIdVals, typ \in LeaseTypeVals :
  LET r == parseHandlerLeaseRenew(ch, lid, typ) IN
  /\ reply' = MetaLease_response("lease_renew", handle_lease_renew(r))
  /\ UNCHANGED <<dentry, fattr, fidSeed, log, chunks, cseed, mapped, susp, lease, rlease>>

-----------------------------------------------------------------------------
(* PING and STATS, the monitoring requests: the parse handlers only read  *)
(* Cseq and never reject; handle_ping sets status 0 and has the layout     *)
(* manager list the servers, handle_stats sets status 0 and prints the     *)
(* request counters.  Neither changes state or logs (nop log methods).     *)
(* The server list and the counter text are left out of the reply.         *)

\* MetaPing::response and MetaStats::response: Status, then Servers or the
\* counters.
MetaMonitor_response(cmd) == [NoReply EXCEPT !.cmd = cmd, !.status = "ok"]

PING ==
  /\ reply' = MetaMonitor_response("ping")
  /\ UNCHANGED <<dentry, fattr, fidSeed, log, chunks, cseed, mapped, susp, lease, rlease>>
STATS ==
  /\ reply' = MetaMonitor_response("stats")
  /\ UNCHANGED <<dentry, fattr, fidSeed, log, chunks, cseed, mapped, susp, lease, rlease>>

Next == LOOKUP \/ LOOKUP_PATH \/ CREATE \/ MKDIR \/ REMOVE \/ RMDIR \/ READDIR \/ RENAME
        \/ GETALLOC \/ GETLAYOUT \/ ALLOCATE \/ ChunkserverReply \/ HELLO \/ BYE
        \/ LEASE_CLEANUP \/ LEASE_ACQUIRE \/ LEASE_RENEW \/ PING \/ STATS

Spec == Init /\ [][Next]_vars

-----------------------------------------------------------------------------
(* Replay (spec 4.9), not under src/: each record re-runs its tree         *)
(* operation in replay mode, with the logged fid.  The rename record has   *)
(* no Overwrite field; only renames that succeeded are logged, and for     *)
(* those overwriting gives the same result, so replay overwrites.          *)

SE == INSTANCE SequencesExt

ApplyRecord(t, rec) ==
  CASE rec.op = "create" -> MakeEntry(t, rec.dir, rec.name, "file", rec.nrep, rec.id).t
    [] rec.op = "mkdir"  -> MakeEntry(t, rec.dir, rec.name, "dir", 1, rec.id).t
    [] rec.op = "remove" -> RemoveEntry(t, rec.dir, rec.name, "file").t
    [] rec.op = "rmdir"  -> RemoveEntry(t, rec.dir, rec.name, "dir").t
    [] rec.op = "rename" -> RenameEntry(t, rec.dir, rec.name, rec.path, TRUE).t
    [] rec.op = "allocate" ->
         LET c == [fid |-> rec.dir, off |-> rec.off, id |-> rec.id, ver |-> rec.ver]
         IN [AssignChunkId(t, c).t EXCEPT !.cseed = IF rec.id > @ THEN rec.id ELSE @]
    [] OTHER -> t

Replay(l) == SE!FoldLeft(ApplyRecord, EmptyTree, l)

-----------------------------------------------------------------------------
(* Properties                                                              *)

Statuses == {"ok", "ENOENT", "ENOTDIR", "EEXIST", "EISDIR", "ENOTEMPTY", "EINVAL",
             "EHOSTUNREACH", "ENOSPC", "ENOLEASE", "EALLOCFAILED", "LEASE_EXPIRED"}
Chunks == [fid : Fids, off : Offsets, id : ChunkIds, ver : Nat]

TypeOK ==
  /\ dentry \subseteq [parent : Fids, name : Names \cup {"/"}, fid : Fids]
  /\ fattr \in [Fids -> {NoAttr} \cup [type : {"file", "dir"}, nrep : Int]]
  /\ fidSeed \in Fids
  /\ chunks \subseteq Chunks /\ cseed \in 0..MaxChunk /\ mapped \subseteq ChunkIds
  /\ \A p \in susp : p.chunk \in Chunks /\ p.fresh \in BOOLEAN
  /\ lease \subseteq ChunkIds /\ rlease \subseteq ChunkIds
  /\ reply.status \in Statuses

(* Restarting from the log reproduces the namespace: replaying the records *)
(* that MetaCreate/MetaMkdir/MetaRemove/MetaRmdir/MetaRename::log wrote,   *)
(* in order, onto the bootstrapped root gives the dentries, attributes and *)
(* fid seed and chunk infos the running server has (spec 4.9, 8 P3).  The *)
(* chunk id seed is not compared: a failed allocation advances it without *)
(* a record, and replay restores it from the highest logged chunk id.     *)
ReplayReproduces ==
  LET r == Replay(log)
  IN r.dentry = dentry /\ r.fattr = fattr /\ r.seed = fidSeed /\ r.chunks = chunks

(* A READDIR reply names exactly the directory's entries, without the      *)
(* root's "/" self-entry that MetaReaddir::response skips, and Num-Entries *)
(* counts them.                                                            *)
ReaddirListsChildren ==
  reply.cmd = "readdir" /\ reply.status = "ok" =>
    /\ reply.entries = {e.name : e \in Children(Tree, reply.dir)}
    /\ reply.n = Cardinality(reply.entries)

(* An ALLOCATE answered with success names the chunk id and version the   *)
(* file holds at that offset, even when the request was suspended on the  *)
(* chunkservers while other requests removed or renamed over the file or  *)
(* allocated the same offset.                                             *)
AllocateReplyMatchesTree ==
  reply.cmd = "allocate" /\ reply.status = "ok" => reply.chunk \in chunks

(* Every file's num_replicas lies in [1..3] (spec 3), whatever number a    *)
(* client puts in the Num-replicas header of CREATE.                       *)
ReplicasInRange ==
  \A f \in Fids : fattr[f].type = "file" => fattr[f].nrep \in 1..NUM_REPLICAS_PER_FILE

====
