---------------------------- MODULE BackupService ----------------------------
(***************************************************************************)
(* services.BackupService: the backup run that stops, copies and restarts  *)
(* one stack after the other, the restore, and the other operations        *)
(* (sync, prune, verify, DR restore) that share its single-flight guard,   *)
(* beside the users who work on the same stacks under the operation lock.  *)
(*                                                                         *)
(* Docker and restic are abstracted to what their calls answer and to      *)
(* whether a stack's containers run.  A stack runs by compose alone: what  *)
(* is stopped stays stopped until somebody starts it.  A failed write of   *)
(* a row or an item is only logged; BackupRunner models it.                *)
(***************************************************************************)
EXTENDS Integers, FiniteSets

CONSTANTS Stacks,
          Backups, Restores, Others,  \* operations of the backup service
          Users,                      \* operations of the stack handlers
          None,
          MaxBoots                    \* bound: restarts of the server

Jobs == Backups \cup Restores \cup Others
Ops  == Jobs \cup Users

ASSUME NoneAssumption == None \notin Ops /\ None \notin Stacks
ASSUME KindsAssumption ==
  /\ Backups \cap Restores = {} /\ Backups \cap Others = {} /\ Backups \cap Users = {}
  /\ Restores \cap Others = {} /\ Restores \cap Users = {} /\ Others \cap Users = {}
ASSUME BootsAssumption == MaxBoots \in Nat

VARIABLES
  stack,     \* stack[s]: what docker runs of s: "running", "partial", "stopped"
  policy,    \* policy[s]: its stop policy, "stop" or "hot"
  busy,      \* BackupService.busy, with the job that set it, or None
  lock,      \* lock[s]: the operation that holds s, or None (see OperationLock)
  at,        \* at[op]: where each operation is
  todo,      \* todo[b]: stacks the loop of backup b has still to reach
  cur,       \* cur[j]: the stack j is working on, or None
  prior,     \* prior[j]: observeRunState's answer for cur[j]
  stopApplied,
  err,       \* err[j]: what the call on cur[j] will return (see Errors)
  facts,     \* facts[b]: what the run's status will be made of
  dry,       \* dry[b]: a dry run
  row,       \* row[j]: backup_runs.status of a backup or a restore
  item,      \* item[b][s]: backup_run_items.status, or "none"
  cut,       \* runs whose context has ended
  up, boots,
  copied,    \* history: copied[b], the stacks b has a snapshot of
  downed,    \* history: downed[j], the stacks j took down or left incomplete
  offsite    \* history: offsite[b], "none", "owed", "made" or "failed"

jobVars == <<todo, cur, prior, stopApplied, err, facts, dry>>
historyVars == <<copied, downed, offsite>>
vars == <<stack, policy, busy, lock, at, todo, cur, prior, stopApplied, err,
          facts, dry, row, item, cut, up, boots, copied, downed, offsite>>

RunJobs == Backups \cup Restores

(* A job's stages.  "started" has the guard; "loop" is between two stacks; *)
(* "locked" to "recording" are backupStack and runRestore on one stack,    *)
(* with "undoing" (restart), "unlocking" and "recording" their deferred    *)
(* calls; "syncing" is the post-backup sync, "leaving" releaseGlobal.      *)
OnStack == {"locked", "observed", "copying", "checking", "undoing"}
Engaged == {"started", "loop", "unlocking", "recording", "syncing", "leaving"} \cup OnStack
Places  == {"idle", "done", "lost", "working"} \cup Engaged

Statuses == {"success", "partial", "failed"}
(* "incomplete": RestartIncompleteError; "panic": the call is unwinding,   *)
(* and its deferred functions see a named error that is still nil.         *)
Errors == {"none", "error", "incomplete", "panic"}
(* "imperfect": a snapshot without its unreadable files, not verified, or  *)
(* whose retention failed; "database": its snapshot or retention failed.   *)
Facts == {"ok", "failed", "database", "imperfect", "unresolved", "notStarted", "restartIncomplete"}

Init ==
  /\ stack \in [Stacks -> {"running", "partial", "stopped"}]
  /\ policy \in [Stacks -> {"stop", "hot"}]
  /\ busy = None /\ lock = [s \in Stacks |-> None]
  /\ at = [o \in Ops |-> "idle"]
  /\ todo = [b \in Backups |-> {}]
  /\ cur = [j \in RunJobs |-> None]
  /\ prior = [j \in RunJobs |-> "none"]
  /\ stopApplied = [j \in RunJobs |-> FALSE]
  /\ err = [j \in RunJobs |-> "none"]
  /\ facts = [b \in Backups |-> {}]
  /\ dry = [b \in Backups |-> FALSE]
  /\ row = [j \in RunJobs |-> "absent"]
  /\ item = [b \in Backups |-> [s \in Stacks |-> "none"]]
  /\ cut = {} /\ up = TRUE /\ boots = 0
  /\ copied = [b \in Backups |-> {}]
  /\ downed = [j \in RunJobs |-> {}]
  /\ offsite = [b \in Backups |-> "none"]

Go(o, place) == at' = [at EXCEPT ![o] = place]

(* The calls of the jobs J return, or end with the process.                *)
Forget(J) ==
  /\ cur' = [j \in RunJobs |-> IF j \in J THEN None ELSE cur[j]]
  /\ prior' = [j \in RunJobs |-> IF j \in J THEN "none" ELSE prior[j]]
  /\ stopApplied' = [j \in RunJobs |-> j \notin J /\ stopApplied[j]]
  /\ err' = [j \in RunJobs |-> IF j \in J THEN "none" ELSE err[j]]

-----------------------------------------------------------------------------
(* The single-flight guard.                                                *)
TryAcquireGlobal(j) == busy = None /\ busy' = j

(* A job gets the guard.  One that does not is refused and leaves no      *)
(* trace: its row, if it has one, is failed by its launch (BackupRunner).  *)
Start(j) == up /\ at[j] = "idle" /\ TryAcquireGlobal(j)

StartBackup(b, S, missing, d) ==
  /\ Start(b)
  /\ Go(b, "started")
  /\ todo' = [todo EXCEPT ![b] = S]
  /\ facts' = [facts EXCEPT ![b] = IF missing THEN {"unresolved"} ELSE {}]
  /\ dry' = [dry EXCEPT ![b] = d]
  /\ row' = [row EXCEPT ![b] = "running"]
  /\ UNCHANGED <<stack, policy, lock, cur, prior, stopApplied, err, item, cut, up, boots>>
  /\ UNCHANGED historyVars

StartRestore(r, s) ==
  /\ Start(r)
  /\ Go(r, "started")
  /\ cur' = [cur EXCEPT ![r] = s]
  /\ row' = [row EXCEPT ![r] = "running"]
  /\ UNCHANGED <<stack, policy, lock, todo, prior, stopApplied, err, facts, dry, item, cut, up, boots>>
  /\ UNCHANGED historyVars

StartOther(j) ==
  /\ Start(j)
  /\ Go(j, "started")
  /\ UNCHANGED <<stack, policy, lock, row, item, cut, up, boots>>
  /\ UNCHANGED jobVars /\ UNCHANGED historyVars

EndOther(j) ==
  /\ j \in Others /\ at[j] = "started"
  /\ Go(j, "leaving")
  /\ UNCHANGED <<stack, policy, busy, lock, row, item, cut, up, boots>>
  /\ UNCHANGED jobVars /\ UNCHANGED historyVars

-----------------------------------------------------------------------------
(* executeBackupRun up to its loop: the policies cannot be read, or the    *)
(* database goes first.                                                    *)
PoliciesFail(b) ==
  /\ b \in Backups /\ at[b] = "started"
  /\ row' = [row EXCEPT ![b] = "failed"]
  /\ Go(b, "leaving")
  /\ UNCHANGED <<stack, policy, busy, lock, item, cut, up, boots>>
  /\ UNCHANGED jobVars /\ UNCHANGED historyVars

BackupDatabase(b) ==
  /\ b \in Backups /\ at[b] = "started"
  /\ Go(b, "loop")
  /\ \/ UNCHANGED facts
     \/ facts' = [facts EXCEPT ![b] = @ \cup {"database"}] /\ ~dry[b]
  /\ UNCHANGED <<stack, policy, busy, lock, todo, cur, prior, stopApplied, err, dry>>
  /\ UNCHANGED <<row, item, cut, up, boots>>
  /\ UNCHANGED historyVars

(* The loop looks at the context before it starts a stack.                 *)
SkipStack(b, s) ==
  /\ at[b] = "loop" /\ s \in todo[b] /\ b \in cut
  /\ todo' = [todo EXCEPT ![b] = @ \ {s}]
  /\ facts' = [facts EXCEPT ![b] = @ \cup {"notStarted"}]
  /\ item' = [item EXCEPT ![b][s] = "skipped"]
  /\ UNCHANGED <<stack, policy, busy, lock, at, cur, prior, stopApplied, err, dry>>
  /\ UNCHANGED <<row, cut, up, boots>>
  /\ UNCHANGED historyVars

BeginStack(b, s) ==
  /\ at[b] = "loop" /\ s \in todo[b] /\ b \notin cut
  /\ todo' = [todo EXCEPT ![b] = @ \ {s}]
  /\ cur' = [cur EXCEPT ![b] = s]
  /\ \/ /\ lock[s] = None
        /\ lock' = [lock EXCEPT ![s] = b]
        /\ Go(b, "locked")
        /\ UNCHANGED err
     \/ /\ lock[s] # None
        /\ err' = [err EXCEPT ![b] = "error"]
        /\ Go(b, "recording")
        /\ UNCHANGED lock
  /\ UNCHANGED <<stack, policy, busy, prior, stopApplied, facts, dry, row, item, cut, up, boots>>
  /\ UNCHANGED historyVars

(* runRestore: the snapshot is validated, then the lock taken.             *)
LockForRestore(r) ==
  /\ r \in Restores /\ at[r] = "started"
  /\ \/ /\ lock[cur[r]] = None
        /\ lock' = [lock EXCEPT ![cur[r]] = r]
        /\ Go(r, "locked")
        /\ UNCHANGED err
     \/ /\ err' = [err EXCEPT ![r] = "error"]  \* a wrong snapshot, or a busy stack
        /\ Go(r, "recording")
        /\ UNCHANGED lock
  /\ UNCHANGED <<stack, policy, busy, todo, cur, prior, stopApplied, facts, dry>>
  /\ UNCHANGED <<row, item, cut, up, boots>>
  /\ UNCHANGED historyVars

-----------------------------------------------------------------------------
(* One stack: what backupStack and runRestore have in common.              *)

(* The stack's record cannot be read, or the scan for paths a restore must *)
(* protect does not finish: nothing has been touched.                      *)
GiveUpBeforeStop(j) ==
  /\ at[j] = "locked"
  /\ err' = [err EXCEPT ![j] = "error"]
  /\ Go(j, "unlocking")
  /\ UNCHANGED <<stack, policy, busy, lock, todo, cur, prior, stopApplied, facts, dry>>
  /\ UNCHANGED <<row, item, cut, up, boots>>
  /\ UNCHANGED historyVars

(* What observeRunState may answer: a partly running stack counts as       *)
(* running, and docker may not answer.                                     *)
Answers(s) == {IF stack[s] = "stopped" THEN "stopped" ELSE "running", "unknown"}

Observe(j) ==
  /\ at[j] = "locked"
  /\ \E answer \in Answers(cur[j]) : prior' = [prior EXCEPT ![j] = answer]
  /\ Go(j, "observed")
  /\ UNCHANGED <<stack, policy, busy, lock, todo, cur, stopApplied, err, facts, dry>>
  /\ UNCHANGED <<row, item, cut, up, boots>>
  /\ UNCHANGED historyVars

(* A restore stops the stack whatever its policy, a dry run never.         *)
MustStop(j) == IF j \in Restores THEN TRUE ELSE policy[cur[j]] = "stop" /\ ~dry[j]

StopSucceeds(j) ==
  /\ at[j] = "observed" /\ MustStop(j)
  /\ stack' = [stack EXCEPT ![cur[j]] = "stopped"]
  /\ stopApplied' = [stopApplied EXCEPT ![j] = TRUE]
  /\ downed' = IF stack[cur[j]] = "stopped" THEN downed
               ELSE [downed EXCEPT ![j] = @ \cup {cur[j]}]
  /\ Go(j, "copying")
  /\ UNCHANGED <<policy, busy, lock, todo, cur, prior, err, facts, dry>>
  /\ UNCHANGED <<row, item, cut, up, boots, copied, offsite>>

(* compose down fails or times out, with some containers gone, all or none.*)
StopFails(j) ==
  /\ at[j] = "observed" /\ MustStop(j)
  /\ \E after \in {stack[cur[j]], "stopped"} \cup (IF stack[cur[j]] = "running" THEN {"partial"} ELSE {}) :
       /\ stack' = [stack EXCEPT ![cur[j]] = after]
       /\ downed' = IF after = stack[cur[j]] THEN downed
                    ELSE [downed EXCEPT ![j] = @ \cup {cur[j]}]
  /\ err' = [err EXCEPT ![j] = "error"]
  /\ Go(j, "undoing")
  /\ UNCHANGED <<policy, busy, lock, todo, cur, prior, stopApplied, facts, dry>>
  /\ UNCHANGED <<row, item, cut, up, boots, copied, offsite>>

NoStop(j) ==
  /\ at[j] = "observed" /\ ~MustStop(j)
  /\ Go(j, IF dry[j] THEN "undoing" ELSE "copying")
  /\ UNCHANGED <<stack, policy, busy, lock, row, item, cut, up, boots>>
  /\ UNCHANGED jobVars /\ UNCHANGED historyVars

(* restic backup writes a snapshot, whole or without unreadable files.     *)
Copy(b) ==
  /\ b \in Backups /\ at[b] = "copying"
  /\ copied' = [copied EXCEPT ![b] = @ \cup {cur[b]}]
  /\ \/ UNCHANGED facts
     \/ facts' = [facts EXCEPT ![b] = @ \cup {"imperfect"}]
  /\ Go(b, "checking")
  /\ UNCHANGED <<stack, policy, busy, lock, todo, cur, prior, stopApplied, err, dry>>
  /\ UNCHANGED <<row, item, cut, up, boots, downed, offsite>>

(* restic ls and restic forget: a failure of either is a warning.          *)
Check(b) ==
  /\ at[b] = "checking"
  /\ \/ UNCHANGED facts
     \/ facts' = [facts EXCEPT ![b] = @ \cup {"imperfect"}]
  /\ Go(b, "undoing")
  /\ UNCHANGED <<stack, policy, busy, lock, todo, cur, prior, stopApplied, err, dry>>
  /\ UNCHANGED <<row, item, cut, up, boots>>
  /\ UNCHANGED historyVars

RestoreFiles(r) ==
  /\ r \in Restores /\ at[r] = "copying"
  /\ Go(r, "undoing")
  /\ UNCHANGED <<stack, policy, busy, lock, row, item, cut, up, boots>>
  /\ UNCHANGED jobVars /\ UNCHANGED historyVars

ResticFails(j) ==
  /\ at[j] = "copying"
  /\ err' = [err EXCEPT ![j] = "error"]
  /\ Go(j, "undoing")
  /\ UNCHANGED <<stack, policy, busy, lock, todo, cur, prior, stopApplied, facts, dry>>
  /\ UNCHANGED <<row, item, cut, up, boots>>
  /\ UNCHANGED historyVars

-----------------------------------------------------------------------------
(* The deferred calls.  MUTANT: a backup that failed leaves the stack down *)
(* as a failed restore does.                                               *)
MustStartUnlessFailed(j) == stopApplied[j] /\ prior[j] # "stopped" /\ err[j] # "error"

(* A stack the job stopped is started again unless it was known stopped; a *)
(* failed restore leaves it down on purpose.                               *)
MustStart(j) ==
  /\ stopApplied[j] /\ prior[j] # "stopped"
  /\ j \in Restores => err[j] # "error"

(* StartVerified: the stack runs, runs in part, or did not start.          *)
Restart(j) ==
  /\ at[j] = "undoing" /\ MustStart(j)
  /\ \E outcome \in {"running", "partial", "stopped"} :
       /\ stack' = [stack EXCEPT ![cur[j]] = outcome]
       /\ downed' = [downed EXCEPT ![j] = IF outcome = "running" THEN @ \ {cur[j]} ELSE @ \cup {cur[j]}]
       /\ IF outcome = "running" THEN UNCHANGED <<facts, err>>
          ELSE IF j \in Backups
          THEN facts' = [facts EXCEPT ![j] = @ \cup {"restartIncomplete"}] /\ UNCHANGED err
          ELSE err' = [err EXCEPT ![j] = IF @ = "none" THEN "incomplete" ELSE @] /\ UNCHANGED facts
  /\ Go(j, "unlocking")
  /\ UNCHANGED <<policy, busy, lock, todo, cur, prior, stopApplied, dry>>
  /\ UNCHANGED <<row, item, cut, up, boots, copied, offsite>>

NoRestart(j) ==
  /\ at[j] = "undoing" /\ ~MustStart(j)
  /\ Go(j, "unlocking")
  /\ UNCHANGED <<stack, policy, busy, lock, row, item, cut, up, boots>>
  /\ UNCHANGED jobVars /\ UNCHANGED historyVars

Unlock(j) ==
  /\ at[j] = "unlocking"
  /\ lock' = [lock EXCEPT ![cur[j]] = None]
  /\ Go(j, "recording")
  /\ UNCHANGED <<stack, policy, busy, row, item, cut, up, boots>>
  /\ UNCHANGED jobVars /\ UNCHANGED historyVars

(* A panic inside the restic call: the deferred functions run all the same *)
(* and recoverExec ends it.  A scheduled run, the only one whose context   *)
(* ends, has no recover: its panic is a Crash.                             *)
Panic(j) ==
  /\ at[j] \in {"copying", "checking"} /\ j \notin cut
  /\ err' = [err EXCEPT ![j] = "panic"]
  /\ Go(j, "undoing")
  /\ UNCHANGED <<stack, policy, busy, lock, todo, cur, prior, stopApplied, facts, dry>>
  /\ UNCHANGED <<row, item, cut, up, boots>>
  /\ UNCHANGED historyVars

(* The run item, and the run's counts unless the run is unwinding.         *)
RecordItem(b) ==
  /\ b \in Backups /\ at[b] = "recording"
  /\ item' = [item EXCEPT ![b][cur[b]] = IF err[b] = "error" THEN "failed" ELSE "success"]
  /\ IF err[b] = "panic" THEN UNCHANGED facts
     ELSE facts' = [facts EXCEPT ![b] = @ \cup {IF err[b] = "error" THEN "failed" ELSE "ok"}]
  /\ IF err[b] = "panic" THEN Go(b, "leaving") /\ UNCHANGED <<cur, prior, stopApplied, err>>
     ELSE /\ Go(b, "loop")
          /\ cur' = [cur EXCEPT ![b] = None]
          /\ prior' = [prior EXCEPT ![b] = "none"]
          /\ stopApplied' = [stopApplied EXCEPT ![b] = FALSE]
          /\ err' = [err EXCEPT ![b] = "none"]
  /\ UNCHANGED <<stack, policy, busy, lock, todo, dry>>
  /\ UNCHANGED <<row, cut, up, boots>>
  /\ UNCHANGED historyVars

-----------------------------------------------------------------------------
(* MUTANT: only the failed items and the work not begun count.             *)
StatusOfItemsOnly(f) ==
  LET saved == "ok" \in f  lost == f \cap {"failed", "unresolved", "notStarted"} # {}
  IN  IF lost THEN (IF saved THEN "partial" ELSE "failed") ELSE "success"

(* The run's status: the items decide, work that did not happen downgrades *)
(* a success, and a run that saved nothing of what it was asked has failed.*)
StatusOf(f) ==
  LET saved == "ok" \in f
      unreached == f \cap {"unresolved", "notStarted"} # {}
  IN  IF ~saved /\ ("failed" \in f \/ unreached) THEN "failed"
      ELSE IF f \ {"ok"} # {} THEN "partial" ELSE "success"

(* A sync follows unless the run was dry or none is configured.            *)
Aggregate(b) ==
  /\ b \in Backups /\ at[b] = "loop" /\ todo[b] = {}
  /\ row' = [row EXCEPT ![b] = StatusOf(facts[b])]
  /\ \/ Go(b, "leaving") /\ UNCHANGED offsite
     \/ ~dry[b] /\ Go(b, "syncing") /\ offsite' = [offsite EXCEPT ![b] = "owed"]
  /\ UNCHANGED <<stack, policy, busy, lock, item, cut, up, boots, copied, downed>>
  /\ UNCHANGED jobVars

AfterFailedSync(status) == IF status = "success" THEN "partial" ELSE status

Sync(b) ==
  /\ at[b] = "syncing"
  /\ \/ offsite' = [offsite EXCEPT ![b] = "made"] /\ UNCHANGED row
     \/ /\ offsite' = [offsite EXCEPT ![b] = "failed"]
        /\ row' = [row EXCEPT ![b] = AfterFailedSync(@)]
  /\ Go(b, "leaving")
  /\ UNCHANGED <<stack, policy, busy, lock, item, cut, up, boots, copied, downed>>
  /\ UNCHANGED jobVars

RestoreStatus(r) ==
  IF err[r] = "none" THEN "success" ELSE IF err[r] = "incomplete" THEN "partial" ELSE "failed"

(* execRestore's row: a restore that landed and whose stack did not come   *)
(* back is "partial".                                                      *)
RecordRestore(r) ==
  /\ r \in Restores /\ at[r] = "recording"
  /\ row' = [row EXCEPT ![r] = RestoreStatus(r)]
  /\ Go(r, "leaving")
  /\ UNCHANGED <<stack, policy, busy, lock, item, cut, up, boots>>
  /\ UNCHANGED jobVars /\ UNCHANGED historyVars

Panicked(j) == j \in {i \in RunJobs : err[i] = "panic"}

(* releaseGlobal; a run that panicked has its row written by recoverExec.  *)
Leave(j) ==
  /\ at[j] = "leaving"
  /\ busy' = None
  /\ row' = IF Panicked(j) THEN [row EXCEPT ![j] = "failed"] ELSE row
  /\ Go(j, "done")
  /\ Forget({j}) /\ cut' = cut \ {j}
  /\ UNCHANGED <<stack, policy, lock, todo, facts, dry, item, up, boots>>
  /\ UNCHANGED historyVars

-----------------------------------------------------------------------------
(* A stack handler works on one stack, or on all under the exclusive turn. *)
Held(u) == {s \in Stacks : lock[s] = u}

(* MUTANT: a handler that does not take its turn.                          *)
UserTakesAnyway(u, S) ==
  /\ up /\ at[u] = "idle"
  /\ lock' = [s \in Stacks |-> IF s \in S THEN u ELSE lock[s]]
  /\ Go(u, "working")
  /\ UNCHANGED <<stack, policy, busy, row, item, cut, up, boots>>
  /\ UNCHANGED jobVars /\ UNCHANGED historyVars

UserTakes(u, S) ==
  /\ up /\ at[u] = "idle"
  /\ \A s \in S : lock[s] = None
  /\ lock' = [s \in Stacks |-> IF s \in S THEN u ELSE lock[s]]
  /\ Go(u, "working")
  /\ UNCHANGED <<stack, policy, busy, row, item, cut, up, boots>>
  /\ UNCHANGED jobVars /\ UNCHANGED historyVars

UserActs(u, s, state) ==
  /\ at[u] = "working" /\ s \in Held(u) /\ stack[s] # state
  /\ stack' = [stack EXCEPT ![s] = state]
  /\ downed' = [j \in RunJobs |-> downed[j] \ {s}]
  /\ UNCHANGED <<policy, busy, lock, at, row, item, cut, up, boots, copied, offsite>>
  /\ UNCHANGED jobVars

UserLeaves(u) ==
  /\ at[u] = "working"
  /\ lock' = [s \in Stacks |-> IF lock[s] = u THEN None ELSE lock[s]]
  /\ Go(u, "idle")
  /\ UNCHANGED <<stack, policy, busy, row, item, cut, up, boots>>
  /\ UNCHANGED jobVars /\ UNCHANGED historyVars

(* The scheduled cycle's deadline passes, or the scheduler is closed.      *)
ContextEnds(b) ==
  /\ b \in Backups /\ at[b] \in Engaged /\ b \notin cut /\ err[b] # "panic"
  /\ cut' = cut \cup {b}
  /\ UNCHANGED <<stack, policy, busy, lock, at, row, item, up, boots>>
  /\ UNCHANGED jobVars /\ UNCHANGED historyVars

Crash ==
  /\ up /\ boots < MaxBoots
  /\ up' = FALSE
  /\ busy' = None /\ lock' = [s \in Stacks |-> None]
  /\ at' = [o \in Ops |-> IF at[o] \in Engaged THEN "lost"
                          ELSE IF at[o] = "working" THEN "idle" ELSE at[o]]
  /\ Forget({j \in RunJobs : at[j] \in Engaged})
  /\ UNCHANGED <<stack, policy, todo, facts, dry, row, item, cut, boots>>
  /\ UNCHANGED historyVars

(* Boot sweeps the rows and starts no stack.                               *)
Boot ==
  /\ ~up
  /\ up' = TRUE /\ boots' = boots + 1
  /\ row' = [j \in RunJobs |-> IF row[j] = "running" THEN "interrupted" ELSE row[j]]
  /\ UNCHANGED <<stack, policy, busy, lock, at, item, cut>>
  /\ UNCHANGED jobVars /\ UNCHANGED historyVars

-----------------------------------------------------------------------------
OnStackStep(j) ==
  \/ GiveUpBeforeStop(j) \/ Observe(j)
  \/ StopSucceeds(j) \/ StopFails(j) \/ NoStop(j)
  \/ Copy(j) \/ Check(j) \/ RestoreFiles(j) \/ ResticFails(j) \/ Panic(j)
  \/ Restart(j) \/ NoRestart(j) \/ Unlock(j)

BackupStep(b) ==
  \/ PoliciesFail(b) \/ BackupDatabase(b)
  \/ \E s \in Stacks : SkipStack(b, s) \/ BeginStack(b, s)
  \/ OnStackStep(b) \/ RecordItem(b)
  \/ Aggregate(b) \/ Sync(b) \/ Leave(b)

RestoreStep(r) == LockForRestore(r) \/ OnStackStep(r) \/ RecordRestore(r) \/ Leave(r)
OtherStep(j) == EndOther(j) \/ Leave(j)

Next ==
  \/ \E b \in Backups :
       \/ \E S \in SUBSET Stacks, missing, d \in BOOLEAN : StartBackup(b, S, missing, d)
       \/ BackupStep(b) \/ ContextEnds(b)
  \/ \E r \in Restores : (\E s \in Stacks : StartRestore(r, s)) \/ RestoreStep(r)
  \/ \E j \in Others : StartOther(j) \/ OtherStep(j)
  \/ \E u \in Users :
       \/ \E S \in {{s} : s \in Stacks} \cup {Stacks} : UserTakes(u, S)
       \/ \E s \in Stacks, state \in {"running", "stopped"} : UserActs(u, s, state)
       \/ UserLeaves(u)
  \/ Crash \/ Boot

Spec == Init /\ [][Next]_vars

(* A job that has the guard runs on: every docker, restic and rclone child *)
(* has a deadline.  A handler gives its turn back.                         *)
FairSpec ==
  /\ Spec
  /\ \A b \in Backups : WF_vars(BackupStep(b))
  /\ \A r \in Restores : WF_vars(RestoreStep(r))
  /\ \A j \in Others : WF_vars(OtherStep(j))
  /\ \A u \in Users : WF_vars(UserLeaves(u))

-----------------------------------------------------------------------------
TypeOK ==
  /\ stack \in [Stacks -> {"running", "partial", "stopped"}]
  /\ policy \in [Stacks -> {"stop", "hot"}]
  /\ busy \in Jobs \cup {None}
  /\ lock \in [Stacks -> Ops \cup {None}]
  /\ at \in [Ops -> Places]
  /\ todo \in [Backups -> SUBSET Stacks]
  /\ cur \in [RunJobs -> Stacks \cup {None}]
  /\ prior \in [RunJobs -> {"none", "running", "stopped", "unknown"}]
  /\ stopApplied \in [RunJobs -> BOOLEAN]
  /\ err \in [RunJobs -> Errors]
  /\ facts \in [Backups -> SUBSET Facts]
  /\ dry \in [Backups -> BOOLEAN]
  /\ row \in [RunJobs -> Statuses \cup {"absent", "running", "interrupted"}]
  /\ item \in [Backups -> [Stacks -> {"none", "success", "failed", "skipped"}]]
  /\ cut \subseteq Backups /\ up \in BOOLEAN /\ boots \in 0..MaxBoots
  /\ copied \in [Backups -> SUBSET Stacks]
  /\ downed \in [RunJobs -> SUBSET Stacks]
  /\ offsite \in [Backups -> {"none", "owed", "made", "failed"}]

(* restic's repository has one writer of this program at a time: at most   *)
(* one backup, restore, sync, prune, verify or DR restore is under way.    *)
OneJobAtATime ==
  \A i, j \in Jobs : at[i] \in Engaged /\ at[j] \in Engaged => i = j

(* A stack stopped for its copy, or for its restore, stays stopped until   *)
(* the files are done: no handler, prune or other job starts it meanwhile. *)
QuietWhileWorkedOn ==
  \A j \in RunJobs :
    at[j] \in {"copying", "checking"} /\ stopApplied[j] => stack[cur[j]] = "stopped"

(* A stack known to be stopped before its backup or restore is not started *)
(* by it (nor by anybody else while the job has it).                       *)
KnownStoppedStaysStopped ==
  \A j \in RunJobs :
    at[j] \in {"observed", "copying", "checking", "undoing", "unlocking"}
      /\ prior[j] = "stopped" => stack[cur[j]] = "stopped"

(* A run that reads "success" left nothing out: the stacks it took down    *)
(* are back, every stack has a success and its snapshot, nothing it was    *)
(* asked for was missing or cut off, and its off-site copy, where it was   *)
(* to have one and the process lived to see it end, was made.              *)
SuccessHidesNothing ==
  \A j \in RunJobs : row[j] = "success" =>
    /\ downed[j] = {}
    /\ j \in Backups =>
         /\ facts[j] \subseteq {"ok"} /\ todo[j] = {}
         /\ at[j] \notin {"syncing", "lost"} => offsite[j] \in {"none", "made"}
         /\ \A s \in Stacks : item[j][s] \in {"none", "success"}
         /\ \A s \in Stacks : item[j][s] = "success" /\ ~dry[j] => s \in copied[j]

(* The guard and the locks come free again, whatever fails.                *)
TurnsComeFree == []<>(busy = None) /\ \A s \in Stacks : []<>(lock[s] = None)

(* A stack that a backup stopped and that was running, or could not be     *)
(* read, is started again or its start is known to have failed: also when  *)
(* the copy failed or panicked.                                            *)
StoppedForBackupIsRestarted ==
  \A b \in Backups :
    at[b] = "copying" /\ stopApplied[b] /\ prior[b] # "stopped"
      ~> \/ at[b] = "lost"
         \/ at[b] = "unlocking" /\ (stack[cur[b]] = "running" \/ "restartIncomplete" \in facts[b])

(* What keeps the service safe, whatever fails and whoever comes between.  *)
ServiceInv == TypeOK /\ OneJobAtATime /\ QuietWhileWorkedOn /\ KnownStoppedStaysStopped

(* Whatever fails, every turn is given back, and no stack that was running *)
(* is left down by its backup without the run saying so.                   *)
RunsEnd == TurnsComeFree /\ StoppedForBackupIsRestarted

=============================================================================
