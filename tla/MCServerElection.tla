-------------------------- MODULE MCServerElection --------------------------
(* ServerElection for TLC. *)
EXTENDS ServerElection, TLC
=============================================================================
