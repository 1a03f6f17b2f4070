------------------------------ MODULE MCNodeCrl ------------------------------
(* Small instances of a node's revocation list for TLC. *)
EXTENDS NodeCrl
============================================================================
