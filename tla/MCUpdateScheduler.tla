-------------------------- MODULE MCUpdateScheduler -------------------------
(* Instances of UpdateScheduler. *)
EXTENDS UpdateScheduler

MCTasks == {"t1", "t2"}
MCLoops == {"l1", "l2"}
MCSaves == {"v1", "v2"}
MCIntervals == {"i1", "i2"}
=============================================================================
