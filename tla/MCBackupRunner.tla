---------------------------- MODULE MCBackupRunner ----------------------------
(* BackupRunner for TLC: one run that emits more lines than the buffer     *)
(* holds, and two clients for one slot, through panics, faults, shutdown,  *)
(* crash and boot in every order.  Runs share nothing but the registry and *)
(* the wait of the shutdown, so one shows what a run does.                 *)
EXTENDS BackupRunner

=============================================================================
