---------------------------- MODULE MCBackupService ----------------------------
(* BackupService for TLC.  One stack with a job of each kind and a handler *)
(* gives every overlap of two operations on a stack and of two jobs on the *)
(* guard; what depends on more stacks than one is proved for any number in *)
(* BackupServiceProofs.                                                    *)
EXTENDS BackupService

=============================================================================
