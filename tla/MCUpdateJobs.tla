---------------------------- MODULE MCUpdateJobs ----------------------------
(* UpdateJobs for TLC: a stack of two services and a standalone container  *)
(* is the least that lets a job fail halfway beside one that has a key of  *)
(* its own.                                                                *)
EXTENDS UpdateJobs, TLC

CONSTANTS web, db, solo, stack, r1, r2

MCStackOf == (web :> stack) @@ (db :> stack) @@ (solo :> Nil)
MCWants == (r1 :> {stack, solo}) @@ (r2 :> {web})

=============================================================================
