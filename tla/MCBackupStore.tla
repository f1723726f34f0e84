--------------------------- MODULE MCBackupStore ---------------------------
(***************************************************************************)
(* TLC instance of BackupStore:  two snapshots, a cap of one file, two     *)
(* attempts, two faults.                                                   *)
(***************************************************************************)
EXTENDS BackupStore
=============================================================================
