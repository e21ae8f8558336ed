------------------------------ MODULE MCWorker ------------------------------
(* Worker for TLC: three runs of one worker are enough for a run that is      *)
(* forgotten by start(), the run that replaces it, and one after a stop().    *)
EXTENDS Worker
=============================================================================
