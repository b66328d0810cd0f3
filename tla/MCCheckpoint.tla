---------------------------- MODULE MCCheckpoint ----------------------------
(* Model-checking instance of Checkpoint: two leaf nodes, three logged     *)
(* mutations, enough for a mutation before, during and after one walk.     *)
EXTENDS Checkpoint

MCN == 2
MCMaxSeq == 3
=============================================================================
