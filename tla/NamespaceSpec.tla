---------------------------- MODULE NamespaceSpec ----------------------------
(***************************************************************************)
(* What the metaserver's namespace promises its clients, with no requests, *)
(* parsing, log, leases or chunkservers: a tree of directory entries       *)
(* rooted at fid 2, file attributes, and each file's chunks, one per       *)
(* offset.  One step makes an entry, unlinks one (a file, or an empty      *)
(* directory), moves one (never into its own subtree, replacing at most a  *)
(* file), or puts a chunk of an existing file at an offset, where a chunk  *)
(* already there can only be replaced by the same chunk at a higher        *)
(* version.  Namespace is checked to implement this (MCNamespace).         *)
(***************************************************************************)
EXTENDS Integers, FiniteSets

CONSTANTS Names, MaxFid

LOCAL R == INSTANCE Relation

ROOTFID == 2
Fids == ROOTFID..MaxFid
NoAttr == [type |-> "none", nrep |-> 0]

VARIABLES dentry, fattr, chunks

vars == <<dentry, fattr, chunks>>

Init ==
  /\ dentry = {[parent |-> ROOTFID, name |-> "/", fid |-> ROOTFID]}
  /\ fattr = [f \in Fids |-> IF f = ROOTFID THEN [type |-> "dir", nrep |-> 1]
                                            ELSE NoAttr]
  /\ chunks = {}

InUse(f) == fattr[f] # NoAttr
IsDir(f) == InUse(f) /\ fattr[f].type = "dir"
\* The entries under directory d (the root's own "/" entry excluded).
Below(d) == {e \in dentry : e.parent = d /\ e.fid # d}
Named(d, nm) == {e \in Below(d) : e.name = nm}

\* Directory d lies in the subtree of directory f: a chain of entries leads
\* from f down to d.
InSubtreeOf(d, f) ==
  LET parentOf == [p \in Fids \X Fids |->
                     \E e \in dentry : e.parent = p[1] /\ e.fid = p[2] /\ p[1] # p[2]]
  IN d = f \/ R!TransitiveClosure(parentOf, Fids)[f, d]

\* The attributes a new entry may get: a directory has one replica.
NewAttr(a) == \/ a.type = "file"
              \/ a.type = "dir" /\ a.nrep = 1

Make == \E n \in dentry' \ dentry :
  /\ IsDir(n.parent) /\ n.name \in Names /\ Named(n.parent, n.name) = {}
  /\ ~InUse(n.fid)
  /\ dentry' = dentry \cup {n}
  /\ fattr' = [fattr EXCEPT ![n.fid] = fattr'[n.fid]] /\ NewAttr(fattr'[n.fid])
  /\ UNCHANGED chunks

\* Removing the entries es forgets their fids and the files' chunks.
Forget(es) ==
  /\ fattr' = [f \in Fids |-> IF \E e \in es : e.fid = f THEN NoAttr ELSE fattr[f]]
  /\ chunks' = {c \in chunks : \A e \in es : c.fid # e.fid}

Unlink == \E e \in dentry \ dentry' :
  /\ e.fid # ROOTFID
  /\ ~IsDir(e.fid) \/ Below(e.fid) = {}
  /\ dentry' = dentry \ {e}
  /\ Forget({e})

\* Entry e is moved to n, replacing the entries tgt that n's name had.
Move == \E e \in dentry, n \in dentry' \ dentry :
  LET tgt == Named(n.parent, n.name) IN
  /\ e.fid = n.fid /\ e.fid # ROOTFID
  /\ IsDir(n.parent) /\ n.name \in Names
  /\ IsDir(e.fid) => ~InSubtreeOf(n.parent, e.fid)
  /\ \A x \in tgt : ~IsDir(x.fid)
  /\ dentry' = (dentry \ ({e} \cup tgt)) \cup {n}
  /\ Forget(tgt)

\* Chunk c goes to its file's offset; an id names one chunk only.
PutChunk == \E c \in chunks' \ chunks :
  /\ InUse(c.fid) /\ ~IsDir(c.fid)
  /\ \A x \in chunks : x.fid = c.fid /\ x.off = c.off => x.id = c.id /\ x.ver < c.ver
  /\ \A x \in chunks : x.id = c.id => x.fid = c.fid /\ x.off = c.off
  /\ chunks' = {x \in chunks : x.fid # c.fid \/ x.off # c.off} \cup {c}
  /\ UNCHANGED <<dentry, fattr>>

Next == Make \/ Unlink \/ Move \/ PutChunk

Spec == Init /\ [][Next]_vars
=============================================================================
