---------------------------- MODULE MCNamespace -----------------------------
EXTENDS Namespace, TLC

\* Two names (model values in the .cfg), so a directory can hold a file and
\* be renamed into or over;
\* handles for the root, the first fid handed out, and a negative one;
\* Num-replicas absent and 65535, which int16_t reads as -1 (the cap on
\* larger values is a plain minimum and is left out to keep the run short);
\* Overwrite absent or 1 (only 1 means overwrite; any other value parses
\* as absent does).
MCFhVals == {-1, 2, 3}
MCRepVals == {Absent, 65535}
\* The namespace run sends Num-replicas 3 only: a file's replica count is
\* data the namespace handlers carry into the tree and the log, and one
\* value other than the header's default of 1 is enough there.
MCRepValsNamespace == {3}
MCOwVals == {Absent, 1}
MCMaxFid == 5
MCMaxLog == 3
\* Chunk-offset absent or 0; two chunk ids; two ALLOCATEs may be suspended
\* at once, so both can race for the same offset.
MCOffVals == {Absent, 0}
MCMaxChunk == 2
MCMaxSusp == 2

\* The handlers only compare names for equality, so the names are symmetric.
NameSymmetry == Permutations(Names)

\* The refinement mapping: the abstract namespace's state is the tree's
\* dentry, fattr and chunk infos; the log, the seeds, the reply, the
\* suspended ALLOCATEs, the leases and the server mappings are hidden.
Abs == INSTANCE NamespaceSpec
         WITH Names <- Names, MaxFid <- MaxFid,
              dentry <- dentry, fattr <- fattr, chunks <- chunks

\* Refinement: every step the handlers take (a request, a resumed ALLOCATE,
\* a HELLO, BYE or lease request) is a step of the abstract namespace or
\* leaves the tree alone: a rename never cuts a directory off the root, a
\* removed file takes its chunks along, and a chunk at an offset is only
\* replaced by the same chunk at a higher version, however ALLOCATEs,
\* leases, REMOVEs and chunkserver replies interleave.
AbsSpec == Abs!Spec
=============================================================================
