--------------------------- MODULE MCBackupScheduler ---------------------------
(* BackupScheduler for TLC.  Two saves overlap each other and a running    *)
(* cycle; with the boot they arm three times.  Two cycle names let a       *)
(* second cycle begin if it were let.                                      *)
EXTENDS BackupScheduler

MCSaves == {"save 1", "save 2"}
MCCycles == {"cycle 1", "cycle 2"}
MCTimings == {"nightly"}
MCMaxGens == 1 + Cardinality(MCSaves)

=============================================================================
