---------------------------- MODULE MCAllocate -----------------------------
(* Three client requests on one chunk offset of one file: two ALLOCATEs    *)
(* and a TRUNCATE that extends the file to it.                             *)
EXTENDS Allocate

MCNR == 3
MCReqKind == <<"allocate", "allocate", "truncate">>
MCReqOff == <<0, 0, 0>>
MCOffsets == {0}
MCMaxInc == 3
=============================================================================
