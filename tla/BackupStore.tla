---------------------------- MODULE BackupStore ----------------------------
(***************************************************************************)
(* The two copies of the backups: the local restic repository and the      *)
(* rclone mirror of it (services/backup_restic.go, services/               *)
(* backup_rclone.go and the sync, restore, prune and verify operations of  *)
(* services/backup.go).  One operation at a time holds the global backup   *)
(* lock (module BackupService shows that), so there is one job here; what  *)
(* moves around it is everything the lock does not cover: an outsider's    *)
(* restic, POST /repo/init, a settings save, a disk that goes away, a      *)
(* remote another host writes to, and the end of the process.              *)
(*                                                                         *)
(* A snapshot is a number, one remote file each; restic and rclone are     *)
(* modelled by what their exit codes and lock files do.                    *)
(***************************************************************************)
EXTENDS Naturals, FiniteSets

CONSTANTS
    MaxSnaps,   \* snapshots ever written
    Floor,      \* syncDeleteCapFloor
    Percent,    \* syncDeleteCapPercent
    Retries,    \* attempts of one rclone mirror (3 in the code)
    MaxAllowed, \* largest delete count an operator confirms
    MaxFaults,  \* faults of the outside world in one behaviour
    MaxSaves    \* saves of the backup settings

ASSUME StoreAssumption ==
    /\ {Floor, Percent, MaxAllowed, MaxFaults, MaxSaves} \subseteq Nat
    /\ {MaxSnaps, Retries} \subseteq Nat \ {0}

VARIABLES
    local,   \* the local repository: its state and the snapshots it holds
    remote,  \* the mirror, with the kinds of lock file copied to it
    kept,    \* snapshots moved to a .pre-dr-<time> directory
    locks,   \* restic's lock files in the local repository
    other,   \* what an outsider's restic is doing there
    job,     \* the operation that holds the global backup lock
    initing, \* POST /repo/init is between its check and restic init
    staged,  \* a plaintext copy of capstan.db is on disk
    conf,    \* the stored settings: sync after a backup, and a remote
    written, \* snapshots written so far
    faults, saves

storeVars == <<local, remote, kept, locks, other, job, initing, staged, conf,
          written, faults, saves>>
outside == <<other, initing, conf, saves>>

Snaps == 1 .. MaxSnaps
LocalStates == {"gone", "bare", "repo", "broken"}
RemoteStates == {"none", "partial", "repo"}
Lock == [by : {"job", "other", "young", "stale"}, excl : BOOLEAN]
Conf == [syncAfter : BOOLEAN, remote : BOOLEAN]

Kinds == {"backup", "sync", "dr", "prune", "verify", "restore"}
Locking == {"keepdb", "dbforget", "backup", "forget", "prune", "check", "restore"}
Steps == Locking \cup {"idle", "resolve", "resolveRemote", "stage", "unstage",
                       "probe", "list", "ask", "count", "mirror",
                       "find", "fetch", "open", "reopen", "done"}

NoJob == [kind |-> "none", step |-> "idle", conf |-> [syncAfter |-> FALSE, remote |-> FALSE],
          good |-> TRUE, holding |-> FALSE, retried |-> FALSE, allowed |-> 0,
          limit |-> 0, counted |-> {}, removed |-> {}, attempt |-> 0,
          populated |-> FALSE, drift |-> FALSE]

StoreTypeOK ==
    /\ local \in [state : LocalStates, snaps : SUBSET Snaps]
    /\ remote \in [state : RemoteStates, snaps : SUBSET Snaps, locks : SUBSET BOOLEAN]
    /\ kept \subseteq Snaps /\ locks \subseteq Lock
    /\ other \in {"none", "shared", "exclusive"}
    /\ job \in [kind : Kinds \cup {"none"}, step : Steps, conf : Conf,
                good : BOOLEAN, holding : BOOLEAN, retried : BOOLEAN,
                allowed : 0 .. MaxAllowed, limit : Nat, counted : SUBSET Snaps,
                removed : SUBSET Snaps, attempt : 0 .. Retries,
                populated : BOOLEAN, drift : BOOLEAN]
    /\ initing \in BOOLEAN /\ staged \in BOOLEAN /\ conf \in Conf
    /\ written \in 0 .. MaxSnaps /\ faults \in 0 .. MaxFaults /\ saves \in 0 .. MaxSaves

\* A fresh install, or one whose mirror holds a first snapshot already.
StoreInit ==
    /\ \/ /\ local = [state |-> "gone", snaps |-> {}]
          /\ remote = [state |-> "none", snaps |-> {}, locks |-> {}]
          /\ written = 0 /\ conf = [syncAfter |-> FALSE, remote |-> FALSE]
       \/ /\ local = [state |-> "repo", snaps |-> {1}]
          /\ remote = [state |-> "repo", snaps |-> {1}, locks |-> {}]
          /\ written = 1 /\ conf = [syncAfter |-> TRUE, remote |-> TRUE]
    /\ kept = {} /\ locks = {} /\ other = "none" /\ job = NoJob
    /\ initing = FALSE /\ staged = FALSE
    /\ faults = 0 /\ saves = 0

Fault == faults < MaxFaults /\ faults' = faults + 1
Held == local.snaps \cup remote.snaps \cup kept

------------------------------------------------------------------------------
(* The steps of a job.                                                     *)

At(step) == job.step = step
Go(step) == job' = [job EXCEPT !.step = step, !.retried = FALSE, !.holding = FALSE]
GoBad(step) == job' = [job EXCEPT !.step = step, !.retried = FALSE, !.holding = FALSE,
                                  !.good = FALSE]

AfterStacks == IF job.conf.syncAfter THEN "probe" ELSE "done"

\* Where a job goes after a step that worked, and after one that did not: the
\* database and retention do not stop a backup, everything else ends its job.
Then(step, ok) ==
    CASE step = "stage"    -> IF ok THEN "keepdb" ELSE "backup"
      [] step = "keepdb"   -> "unstage"
      [] step = "unstage"  -> IF ok /\ job.good THEN "dbforget" ELSE "backup"
      [] step = "dbforget" -> "backup"
      [] step = "backup"   -> IF ok THEN "forget" ELSE AfterStacks
      [] step = "forget"   -> AfterStacks
      [] OTHER             -> "done"

\* The handlers' launch; allowed is the delete count confirmed for this run.
Launch(kind, allowed) ==
    /\ At("idle") /\ (kind = "sync" \/ allowed = 0)
    /\ job' = [NoJob EXCEPT !.kind = kind, !.step = "resolve", !.allowed = allowed]
    /\ UNCHANGED <<local, remote, kept, locks, staged, written, faults, outside>>

\* The settings are read one at a time, so a save may come between two reads.
Resolve ==
    /\ At("resolve")
    /\ job' = [job EXCEPT !.step = "resolveRemote", !.conf.syncAfter = conf.syncAfter]
    /\ UNCHANGED <<local, remote, kept, locks, staged, written, faults, outside>>

FirstStep(kind) ==
    CASE kind = "backup" -> "stage" [] kind = "sync" -> "probe" [] kind = "dr" -> "find"
      [] kind = "prune" -> "prune" [] kind = "verify" -> "check" [] kind = "restore" -> "restore"

ResolveRemote ==
    /\ At("resolveRemote")
    /\ IF job.kind \in {"sync", "dr"} /\ ~conf.remote
       THEN GoBad("done") /\ UNCHANGED local
       ELSE /\ job' = [job EXCEPT !.step = FirstStep(job.kind), !.conf.remote = conf.remote]
            /\ local' = IF job.kind = "dr" /\ local.state = "gone"
                        THEN [local EXCEPT !.state = "bare"] ELSE local
    /\ UNCHANGED <<remote, kept, locks, staged, written, faults, outside>>

\* A setting that cannot be read or decrypted refuses the job: no job runs on
\* a part of the settings and defaults for the rest.
ResolveRefused ==
    /\ job.step \in {"resolve", "resolveRemote"} /\ Fault /\ GoBad("done")
    /\ UNCHANGED <<local, remote, kept, locks, staged, written, outside>>

JobEnds ==
    /\ At("done") /\ job' = NoJob
    /\ UNCHANGED <<local, remote, kept, locks, staged, written, faults, outside>>

------------------------------------------------------------------------------
(* restic under its repository lock.                                       *)

Exclusive(step) == step \in {"dbforget", "forget", "prune", "check"}
JobLock == [by |-> "job", excl |-> Exclusive(job.step)]
\* MUTANT: restic unlock --remove-all.
UnlockedAll == {}

CanTake(excl) == IF excl THEN locks = {} ELSE \A l \in locks : ~l.excl
Unlocked == {l \in locks : l.by # "stale"}

ResticStarts ==
    /\ job.step \in Locking /\ ~job.holding /\ local.state = "repo"
    /\ CanTake(Exclusive(job.step))
    /\ locks' = locks \cup {JobLock}
    /\ job' = [job EXCEPT !.holding = TRUE]
    /\ UNCHANGED <<local, remote, kept, staged, written, faults, outside>>

\* MUTANT: exit 11 is an error like any other.
ResticRefusedForGood ==
    /\ job.step \in Locking /\ ~job.holding /\ local.state = "repo"
    /\ ~CanTake(Exclusive(job.step))
    /\ GoBad(Then(job.step, FALSE)) /\ UNCHANGED locks
    /\ UNCHANGED <<local, remote, kept, staged, written, faults, outside>>

\* runLocking: exit 11 is answered with one `restic unlock` and one retry.
ResticRefused ==
    /\ job.step \in Locking /\ ~job.holding /\ local.state = "repo"
    /\ ~CanTake(Exclusive(job.step))
    /\ IF job.retried THEN GoBad(Then(job.step, FALSE)) /\ UNCHANGED locks
       ELSE locks' = Unlocked /\ job' = [job EXCEPT !.retried = TRUE]
    /\ UNCHANGED <<local, remote, kept, staged, written, faults, outside>>

Newest(S) == CHOOSE s \in S : \A r \in S : r <= s

\* backup writes a snapshot, forget drops some but never the newest of the
\* stack's; prune, check and restore change no snapshot.
ResticWorks ==
    /\ job.holding /\ JobLock \in locks /\ local.state = "repo"
    /\ locks' = locks \ {JobLock}
    /\ \/ /\ At("backup") /\ written < MaxSnaps
          /\ written' = written + 1 /\ local' = [local EXCEPT !.snaps = @ \cup {written + 1}]
       \/ /\ At("forget") /\ UNCHANGED written
          /\ \E drop \in SUBSET {s \in local.snaps : s # Newest(local.snaps)} :
                local' = [local EXCEPT !.snaps = @ \ drop]
       \/ /\ (job.step \notin {"backup", "forget"} \/ (At("backup") /\ written = MaxSnaps))
          /\ UNCHANGED <<written, local>>
    /\ Go(Then(job.step, TRUE))
    /\ UNCHANGED <<remote, kept, staged, faults, outside>>

\* The command fails: it lets its lock go, or it was killed at its deadline
\* and leaves the lock of a process that no longer exists.
ResticFails ==
    /\ job.step \in Locking /\ GoBad(Then(job.step, FALSE))
    /\ IF local.state = "repo" /\ (job.holding => JobLock \in locks)
       THEN /\ Fault
            /\ \/ locks' = locks \ {JobLock}
               \/ job.holding /\ locks' = (locks \ {JobLock}) \cup
                                          {[by |-> "stale", excl |-> JobLock.excl]}
       ELSE UNCHANGED <<faults, locks>>
    /\ UNCHANGED <<local, remote, kept, staged, written, outside>>

------------------------------------------------------------------------------
(* The staged copy of the database.                                        *)

Stage ==
    /\ At("stage")
    /\ \/ staged' = TRUE /\ Go("keepdb") /\ UNCHANGED faults
       \* The old copy cannot be removed, or VACUUM INTO fails part-way.
       \/ Fault /\ staged' \in {staged, TRUE} /\ GoBad(Then("stage", FALSE))
    /\ UNCHANGED <<local, remote, kept, locks, written, outside>>

\* The deferred removal; a copy that stays is named in the run's reason.
Unstage ==
    /\ At("unstage")
    /\ \/ staged' = FALSE /\ Go(Then("unstage", TRUE)) /\ UNCHANGED faults
       \/ Fault /\ GoBad(Then("unstage", FALSE)) /\ UNCHANGED staged
    /\ UNCHANGED <<local, remote, kept, locks, written, outside>>

------------------------------------------------------------------------------
(* The sync: local onto remote, deleting.                                  *)

\* restic snapshots --quiet opens the repository and an exclusive lock refuses it.
Opens == local.state = "repo" /\ CanTake(FALSE)

\* A sync ends where it was asked for, or fails the backup that asked.
Probe ==
    /\ At("probe")
    /\ \/ /\ Opens /\ job.conf.remote /\ UNCHANGED faults
          /\ job' = [job EXCEPT !.step = "list", !.drift = FALSE]
       \/ ~(Opens /\ job.conf.remote) /\ GoBad("done") /\ UNCHANGED faults
       \/ Opens /\ job.conf.remote /\ Fault /\ GoBad("done")
    /\ UNCHANGED <<local, remote, kept, locks, staged, written, outside>>

List ==
    /\ At("list")
    /\ IF Opens
       THEN /\ job' = [job EXCEPT !.populated = local.snaps # {},
                                  !.step = IF local.snaps = {} THEN "ask" ELSE "count"]
       ELSE GoBad("done")
    /\ UNCHANGED <<local, remote, kept, locks, staged, written, faults, outside>>

\* MUTANT: an empty local repository is synced like any other.
AskNobody ==
    /\ At("ask") /\ Go("count")
    /\ UNCHANGED <<local, remote, kept, locks, staged, written, faults, outside>>

\* remoteHasSnapshots: an empty local repository may only fill an empty remote.
Ask ==
    /\ At("ask")
    /\ \/ UNCHANGED faults /\ IF remote.snaps = {} THEN Go("count") ELSE GoBad("done")
       \/ Fault /\ GoBad("done")
    /\ UNCHANGED <<local, remote, kept, locks, staged, written, outside>>

RemoteOnly == remote.snaps \ local.snaps
Larger(m, n) == IF m > n THEN m ELSE n
Cap == Larger(Floor, (Cardinality(local.snaps) * Percent) \div 100)
Limit == Larger(Cap, job.allowed)

\* syncPreflight, and the refusal above the cap that deletes nothing.
Count ==
    /\ At("count")
    /\ \/ /\ UNCHANGED faults
          /\ IF Cardinality(RemoteOnly) > Limit THEN GoBad("done")
             ELSE job' = [job EXCEPT !.step = "mirror", !.counted = RemoteOnly,
                                     !.limit = Limit, !.removed = {}, !.attempt = 1]
       \/ Fault /\ GoBad("done")
    /\ UNCHANGED <<local, remote, kept, locks, staged, written, outside>>

LockKinds == {l.excl : l \in locks}
MirrorOf(state) == CASE state = "repo" -> "repo" [] state = "broken" -> "partial" [] OTHER -> "none"
Took(gone, step, good) ==
    job' = [job EXCEPT !.removed = @ \cup gone, !.step = step, !.good = @ /\ good]

\* One rclone process.  It copies before it deletes, and deletes at most
\* --max-delete files; a source that is not there is an error.
MirrorWorks ==
    /\ At("mirror") /\ local.state # "gone" /\ Cardinality(RemoteOnly) <= job.limit
    /\ remote' = [state |-> MirrorOf(local.state), snaps |-> local.snaps, locks |-> LockKinds]
    /\ Took(RemoteOnly, "done", TRUE)
    /\ UNCHANGED <<local, kept, locks, staged, written, faults, outside>>

\* Exit 7: the backstop tripped, and the sync is not retried.
MirrorTrips ==
    /\ At("mirror") /\ local.state # "gone" /\ Cardinality(RemoteOnly) > job.limit
    /\ \E gone \in SUBSET RemoteOnly :
        /\ Cardinality(gone) = job.limit
        /\ remote' = [remote EXCEPT !.snaps = (@ \ gone) \cup local.snaps]
        /\ Took(gone, "done", FALSE)
    /\ UNCHANGED <<local, kept, locks, staged, written, faults, outside>>

\* Any other failure, part of the copy or of the deletes done: tried again
\* unless the attempts or the deadline are used up.
AttemptFails(gone) ==
    \/ /\ job.attempt < Retries
       /\ job' = [job EXCEPT !.removed = @ \cup gone, !.attempt = @ + 1]
    \/ Took(gone, "done", FALSE)

MirrorFails ==
    /\ At("mirror")
    /\ IF local.state = "gone"
       THEN UNCHANGED <<remote, faults>> /\ AttemptFails({})
       ELSE /\ Fault
            /\ \/ \E copied \in SUBSET local.snaps :
                     /\ remote' = [remote EXCEPT !.snaps = @ \cup copied,
                                     !.state = IF @ = "none" /\ copied # {} THEN "partial" ELSE @]
                     /\ AttemptFails({})
               \/ \E gone \in SUBSET RemoteOnly :
                     /\ gone # {} /\ Cardinality(gone) <= job.limit
                     /\ remote' = [remote EXCEPT !.snaps = (@ \ gone) \cup local.snaps]
                     /\ AttemptFails(gone)
    /\ UNCHANGED <<local, kept, locks, staged, written, outside>>

------------------------------------------------------------------------------
(* The disaster restore: remote onto local, moving aside.                  *)

\* probeRestoreSource: the object "config", listed exactly.
Find ==
    /\ At("find")
    /\ \/ UNCHANGED faults
          /\ IF remote.state = "none" THEN GoBad("done")
             ELSE job' = [job EXCEPT !.step = "fetch", !.attempt = 1, !.drift = FALSE]
       \/ Fault /\ GoBad("done")
    /\ UNCHANGED <<local, remote, kept, locks, staged, written, outside>>

CopiedLocks == {l \in Lock : l.by \in {"young", "stale"} /\ l.excl \in remote.locks}

\* MUTANT: rclone sync without --backup-dir.
FetchInPlace ==
    /\ At("fetch") /\ remote.state # "none"
    /\ local' = [state |-> IF remote.state = "repo" THEN "repo" ELSE "broken",
                 snaps |-> remote.snaps]
    /\ locks' = {} /\ other' = "none" /\ Go("open")
    /\ UNCHANGED <<remote, kept, staged, written, faults, initing, conf, saves>>

\* rclone sync with --backup-dir: what the remote lacks is moved aside, lock
\* files included, and the remote's lock files come along.
FetchWorks ==
    /\ At("fetch") /\ remote.state # "none"
    /\ local' = [state |-> IF remote.state = "repo" THEN "repo" ELSE "broken",
                 snaps |-> remote.snaps]
    /\ kept' = kept \cup (local.snaps \ remote.snaps)
    /\ \E brought \in SUBSET CopiedLocks :
        /\ {l.excl : l \in brought} = remote.locks
        /\ locks' = brought
    /\ other' = "none" /\ Go("open")
    /\ UNCHANGED <<remote, staged, written, faults, initing, conf, saves>>

\* A copy cut short adds files and moves none; over another repository, or
\* over none, what is there need not open.
FetchFails ==
    /\ At("fetch")
    /\ IF remote.state = "none" THEN UNCHANGED <<local, faults>>
       ELSE /\ Fault
            /\ \E copied \in SUBSET remote.snaps, state \in {local.state, "broken"} :
                  local' = [state |-> state,
                            snaps |-> IF state = "bare" THEN local.snaps
                                      ELSE local.snaps \cup copied]
    /\ AttemptFails({})
    /\ UNCHANGED <<remote, kept, locks, staged, written, outside>>

\* The restored repository must open before the restore is called completed;
\* a lock is cleared when it is stale and the repository asked once more.
Open ==
    /\ job.step \in {"open", "reopen"}
    /\ \/ Opens /\ Go("done") /\ UNCHANGED <<locks, faults>>
       \/ /\ local.state = "repo" /\ ~Opens /\ At("open")
          /\ locks' = Unlocked /\ job' = [job EXCEPT !.step = "reopen"]
          /\ UNCHANGED faults
       \/ /\ ~Opens /\ (local.state # "repo" \/ At("reopen")) /\ GoBad("done")
          /\ UNCHANGED <<locks, faults>>
       \/ Fault /\ GoBad("done") /\ UNCHANGED locks
    /\ UNCHANGED <<local, remote, kept, staged, written, outside>>

------------------------------------------------------------------------------
(* Around the job.                                                         *)

\* POST /repo/init runs outside the global lock.  Only "repository does not
\* exist" leads to restic init, which itself refuses an existing one.
InitChecks ==
    /\ ~initing /\ local.state \in {"gone", "bare"} /\ initing' = TRUE
    /\ UNCHANGED <<local, remote, kept, locks, other, job, staged, conf, written, faults, saves>>

InitRuns ==
    /\ initing /\ initing' = FALSE
    /\ local' = IF local.state \in {"gone", "bare"}
                THEN [state |-> "repo", snaps |-> {}] ELSE local
    /\ UNCHANGED <<remote, kept, locks, other, job, staged, conf, written, faults, saves>>

\* PUT /backup/settings: every key in one transaction.
SaveSettings ==
    /\ saves < MaxSaves /\ saves' = saves + 1
    /\ conf' \in Conf \ {conf}
    /\ UNCHANGED <<local, remote, kept, locks, other, job, initing, staged, written, faults>>

\* An operator's own restic, or one of the unguarded listings of the server.
OtherBegins(excl) ==
    /\ other = "none" /\ local.state = "repo" /\ CanTake(excl) /\ Fault
    /\ other' = (IF excl THEN "exclusive" ELSE "shared")
    /\ locks' = locks \cup {[by |-> "other", excl |-> excl]}
    /\ UNCHANGED <<local, remote, kept, job, initing, staged, conf, written, saves>>

\* It ends, or it dies and its lock stays until it is old enough to be stale.
OtherEnds ==
    /\ other # "none" /\ other' = "none"
    /\ LET mine == {l \in locks : l.by = "other"} IN
       \/ locks' = locks \ mine /\ UNCHANGED faults
       \/ Fault /\ locks' = (locks \ mine) \cup {[by |-> "young", excl |-> l.excl] : l \in mine}
    /\ UNCHANGED <<local, remote, kept, job, initing, staged, conf, written, saves>>

LockAges ==
    /\ \E l \in locks : l.by = "young"
    /\ locks' = {l \in locks : l.by # "young"} \cup
                {[by |-> "stale", excl |-> l.excl] : l \in {m \in locks : m.by = "young"}}
    /\ UNCHANGED <<local, remote, kept, other, job, initing, staged, conf, written, faults, saves>>

\* The volume goes away, with its mount point or without.
LocalLost ==
    /\ Fault /\ local.state # "gone"
    /\ \E state \in {"gone", "bare"} : local' = [state |-> state, snaps |-> {}]
    /\ locks' = {} /\ other' = "none"
    /\ job' = [job EXCEPT !.drift = TRUE]
    /\ UNCHANGED <<remote, kept, initing, staged, conf, written, saves>>

\* Another writer of the same remote.
RemoteGains ==
    /\ Fault /\ remote.state = "repo" /\ written < MaxSnaps /\ written' = written + 1
    /\ remote' = [remote EXCEPT !.snaps = @ \cup {written + 1}]
    /\ job' = [job EXCEPT !.drift = TRUE]
    /\ UNCHANGED <<local, kept, locks, other, initing, staged, conf, saves>>

\* The process ends.  restic's lock is that of a dead process: stale at once
\* on the same host, after half an hour when the container has a new name.
Crash ==
    /\ Fault /\ (job # NoJob \/ initing)
    /\ job' = NoJob /\ initing' = FALSE
    /\ \E by \in {"young", "stale"} :
        locks' = {l \in locks : l.by # "job"} \cup
                 {[by |-> by, excl |-> l.excl] : l \in {m \in locks : m.by = "job"}}
    /\ UNCHANGED <<local, remote, kept, other, staged, conf, written, saves>>

Restic == ResticStarts \/ ResticRefused \/ ResticWorks \/ ResticFails
Sync == Probe \/ List \/ Ask \/ Count \/ MirrorWorks \/ MirrorTrips \/ MirrorFails
DR == Find \/ FetchWorks \/ FetchFails \/ Open
JobStep ==
    Resolve \/ ResolveRemote \/ ResolveRefused \/ JobEnds \/ Restic \/ Stage \/ Unstage \/ Sync \/ DR
Around ==
    \/ InitChecks \/ InitRuns \/ SaveSettings \/ OtherEnds \/ LockAges
    \/ LocalLost \/ RemoteGains \/ Crash
    \/ \E excl \in BOOLEAN : OtherBegins(excl)

StoreNext ==
    \/ \E kind \in Kinds, allowed \in 0 .. MaxAllowed : Launch(kind, allowed)
    \/ JobStep \/ Around

StoreSpec == StoreInit /\ [][StoreNext]_storeVars

\* A job's steps and other processes come to an end, a lock ages, and the
\* schedule finds the service free again and again.
FairStoreSpec ==
    StoreSpec /\ WF_storeVars(JobStep) /\ WF_storeVars(OtherEnds) /\ WF_storeVars(LockAges)
         /\ SF_storeVars(Launch("backup", 0))

------------------------------------------------------------------------------
(* Properties.                                                             *)

\* A restic of Capstan never shares the repository with another process when
\* either of them needs it alone, however stale locks are cleared around them
\* (runLocking, backup_restic.go:304).
ExclusiveIsAlone ==
    job.holding /\ JobLock \in locks /\ other # "none"
        => ~Exclusive(job.step) /\ other = "shared"

\* A plaintext copy of the database never outlives its backup silently: past
\* the database step it is gone, or the run is not a success
\* (backupDatabase, backup.go:2236).
PlaintextIsKnown ==
    job.kind = "backup" /\ staged
        /\ job.step \notin {"resolve", "resolveRemote", "stage", "keepdb", "unstage"} => ~job.good

StoreInv == StoreTypeOK /\ ExclusiveIsAlone /\ PlaintextIsKnown

\* What a sync deletes from the remote is what it counted, no more than the
\* cap or the confirmed number, and never on behalf of a repository that
\* opened empty; when the copies change under it, each rclone process still
\* stays within the limit (runSyncInternal and Sync).
SyncTakesOnlyWhatWasCounted ==
    job.removed # {} =>
        /\ Cardinality(job.counted) <= job.limit
        /\ Cardinality(job.removed) <= job.limit * job.attempt
        /\ job.drift \/ (job.populated /\ job.removed \subseteq job.counted)

\* A disaster restore loses no snapshot any copy holds, and one that reports
\* success leaves a repository that opens and holds all the remote held
\* (RunDRRestore and RestoreRepo).
RestoreIsSafe ==
    [][/\ job.kind = "dr" /\ (job'.step # job.step \/ job'.attempt # job.attempt)
              => Held \subseteq Held'
       /\ job.kind = "dr" /\ job'.step = "done" /\ job'.good /\ ~job'.drift
              => local'.state = "repo" /\ remote.snaps \subseteq local'.snaps]_storeVars

\* A lock a dead process left in a repository that opens, and a plaintext copy
\* a crash left on disk, are cleared by a later backup (agent-os-zp01).
LeftoversGo ==
    /\ (local.state = "repo" /\ \E l \in locks : l.by = "stale")
          ~> (local.state # "repo" \/ \A l \in locks : l.by # "stale")
    /\ staged ~> ~staged
=============================================================================
