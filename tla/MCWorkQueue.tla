---------------------------- MODULE MCWorkQueue ----------------------------
(* Instance for TLC: class WorkQueue with three requests queued at most.   *)
EXTENDS WorkQueue
=============================================================================
