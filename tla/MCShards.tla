------------------------------ MODULE MCShards ------------------------------
(* The instance of Shards for TLC.                                         *)
EXTENDS Shards
=============================================================================
