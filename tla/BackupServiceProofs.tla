------------------------- MODULE BackupServiceProofs -------------------------
(***************************************************************************)
(* Theorems about the backup service, for any number of stacks, of jobs of *)
(* each kind, of stack handlers and of restarts.                           *)
(***************************************************************************)
EXTENDS BackupService, TLAPS

(* A function to subsets of V stays one when an element of V joins one of  *)
(* its values, or leaves it.                                               *)
LEMMA Joined ==
  ASSUME NEW D, NEW V, NEW f \in [D -> SUBSET V], NEW d, NEW v \in V
  PROVE  /\ [f EXCEPT ![d] = f[d] \cup {v}] \in [D -> SUBSET V]
         /\ [f EXCEPT ![d] = f[d] \ {v}] \in [D -> SUBSET V]
  OBVIOUS

(* While a job works on a stack it has one, and holds its turn from the    *)
(* look at its containers to the end of the deferred calls.                *)
HoldsItsTurn ==
  \A j \in RunJobs :
    /\ at[j] \in OnStack \cup {"unlocking"} => cur[j] \in Stacks /\ lock[cur[j]] = j
    /\ at[j] = "recording" \/ (j \in Restores /\ at[j] = "started") => cur[j] \in Stacks

(* The job that is under way is the one that has the guard.                *)
OneWorks == \A j \in Jobs : at[j] # "working" /\ (at[j] \in Engaged => busy = j)

(* No answer is on record before the job has looked at the stack, and no   *)
(* stop before it has made one.                                            *)
NoStopYet ==
  \A j \in RunJobs :
    /\ at[j] \in {"idle", "started", "loop", "locked"} => prior[j] = "none"
    /\ at[j] \in {"idle", "started", "loop", "locked", "observed"} => ~stopApplied[j]

TurnsInv ==
  HoldsItsTurn /\ OneWorks /\ NoStopYet /\ QuietWhileWorkedOn /\ KnownStoppedStaysStopped

(* Every step keeps the turns, and with them what the turns protect.       *)
LEMMA TurnsStep ==
  ASSUME TypeOK, TurnsInv, [Next]_vars
  PROVE  TurnsInv'
  <1> USE NoneAssumption, KindsAssumption
      DEF TypeOK, TurnsInv, HoldsItsTurn, OneWorks, NoStopYet, QuietWhileWorkedOn,
          KnownStoppedStaysStopped, Jobs, Ops, RunJobs, OnStack, Engaged
  <1>1. ASSUME NEW b \in Backups, NEW S \in SUBSET Stacks,
             NEW missing \in BOOLEAN, NEW d \in BOOLEAN, StartBackup(b, S, missing, d)
        PROVE  TurnsInv'
    BY <1>1 DEF StartBackup, Start, TryAcquireGlobal, Go, historyVars
  <1>2. ASSUME NEW r \in Restores, NEW s \in Stacks, StartRestore(r, s)
        PROVE  TurnsInv'
    BY <1>2 DEF StartRestore, Start, TryAcquireGlobal, Go, historyVars
  <1>3. ASSUME NEW j \in Others, StartOther(j) PROVE TurnsInv'
    BY <1>3 DEF StartOther, Start, TryAcquireGlobal, Go, jobVars, historyVars
  <1>4. ASSUME NEW j \in Others, EndOther(j) PROVE TurnsInv'
    BY <1>4 DEF EndOther, Go, jobVars, historyVars
  <1>5. ASSUME NEW b \in Backups, PoliciesFail(b) PROVE TurnsInv'
    BY <1>5 DEF PoliciesFail, Go, jobVars, historyVars
  <1>6. ASSUME NEW b \in Backups, BackupDatabase(b) PROVE TurnsInv'
    BY <1>6 DEF BackupDatabase, Go, historyVars
  <1>7. ASSUME NEW b \in Backups, NEW s \in Stacks, SkipStack(b, s)
        PROVE  TurnsInv'
    BY <1>7 DEF SkipStack, historyVars
  <1>8. ASSUME NEW b \in Backups, NEW s \in Stacks, BeginStack(b, s)
        PROVE  TurnsInv'
    BY <1>8 DEF BeginStack, Go, historyVars
  <1>9. ASSUME NEW r \in Restores, LockForRestore(r) PROVE TurnsInv'
    BY <1>9 DEF LockForRestore, Go, historyVars
  <1>10. ASSUME NEW j \in RunJobs, GiveUpBeforeStop(j) PROVE TurnsInv'
    BY <1>10 DEF GiveUpBeforeStop, Go, historyVars
  <1>11. ASSUME NEW j \in RunJobs, Observe(j) PROVE TurnsInv'
    BY <1>11 DEF Observe, Answers, Go, historyVars
  <1>12. ASSUME NEW j \in RunJobs, StopSucceeds(j) PROVE TurnsInv'
    BY <1>12 DEF StopSucceeds, Go
  <1>13. ASSUME NEW j \in RunJobs, StopFails(j) PROVE TurnsInv'
    BY <1>13 DEF StopFails, Go
  <1>14. ASSUME NEW j \in RunJobs, NoStop(j) PROVE TurnsInv'
    BY <1>14 DEF NoStop, MustStop, Go, jobVars, historyVars
  <1>15. ASSUME NEW j \in RunJobs, Copy(j) PROVE TurnsInv'
    BY <1>15 DEF Copy, Go
  <1>16. ASSUME NEW j \in RunJobs, Check(j) PROVE TurnsInv'
    BY <1>16 DEF Check, Go, historyVars
  <1>17. ASSUME NEW j \in RunJobs, RestoreFiles(j) PROVE TurnsInv'
    BY <1>17 DEF RestoreFiles, Go, jobVars, historyVars
  <1>18. ASSUME NEW j \in RunJobs, ResticFails(j) PROVE TurnsInv'
    BY <1>18 DEF ResticFails, Go, historyVars
  <1>19. ASSUME NEW j \in RunJobs, Panic(j) PROVE TurnsInv'
    BY <1>19 DEF Panic, Go, historyVars
  <1>20. ASSUME NEW j \in RunJobs, Restart(j) PROVE TurnsInv'
    BY <1>20 DEF Restart, MustStart, Go
  <1>21. ASSUME NEW j \in RunJobs, NoRestart(j) PROVE TurnsInv'
    BY <1>21 DEF NoRestart, MustStart, Go, jobVars, historyVars
  <1>22. ASSUME NEW j \in RunJobs, Unlock(j) PROVE TurnsInv'
    BY <1>22 DEF Unlock, Go, jobVars, historyVars
  <1>23. ASSUME NEW b \in Backups, RecordItem(b) PROVE TurnsInv'
    <2>1. CASE err[b] = "panic"
      BY <1>23, <2>1 DEF RecordItem, Go
    <2>2. CASE err[b] # "panic"
      <3>1. /\ at' = [at EXCEPT ![b] = "loop"]
            /\ stopApplied' = [stopApplied EXCEPT ![b] = FALSE]
            /\ prior' = [prior EXCEPT ![b] = "none"]
            /\ cur' = [cur EXCEPT ![b] = None]
            /\ UNCHANGED <<lock, busy, stack>>
        BY <1>23, <2>2 DEF RecordItem, Go
      <3>2. HoldsItsTurn' /\ OneWorks'
        BY <1>23, <3>1 DEF RecordItem
      <3>3. NoStopYet'
        BY <3>1
      <3>4. QuietWhileWorkedOn' /\ KnownStoppedStaysStopped'
        BY <3>1
      <3> QED
        BY <3>2, <3>3, <3>4
    <2> QED
      BY <2>1, <2>2
  <1>24. ASSUME NEW b \in Backups, Aggregate(b) PROVE TurnsInv'
    BY <1>24 DEF Aggregate, Go, jobVars
  <1>25. ASSUME NEW b \in Backups, Sync(b) PROVE TurnsInv'
    BY <1>25 DEF Sync, AfterFailedSync, Go, jobVars
  <1>26. ASSUME NEW r \in Restores, RecordRestore(r) PROVE TurnsInv'
    BY <1>26 DEF RecordRestore, RestoreStatus, Go, jobVars, historyVars
  <1>27. ASSUME NEW j \in Jobs, Leave(j) PROVE TurnsInv'
    BY <1>27 DEF Leave, Panicked, Forget, Go, historyVars
  <1>28. ASSUME NEW u \in Users, NEW S \in SUBSET Stacks, UserTakes(u, S)
        PROVE  TurnsInv'
    BY <1>28 DEF UserTakes, Go, jobVars, historyVars
  <1>29. ASSUME NEW u \in Users, NEW s \in Stacks, 
             NEW state \in {"running", "stopped"}, UserActs(u, s, state)
        PROVE  TurnsInv'
    BY <1>29 DEF UserActs, Held, jobVars
  <1>30. ASSUME NEW u \in Users, UserLeaves(u) PROVE TurnsInv'
    BY <1>30 DEF UserLeaves, Go, jobVars, historyVars
  <1>31. ASSUME NEW b \in Backups, ContextEnds(b) PROVE TurnsInv'
    BY <1>31 DEF ContextEnds, jobVars, historyVars
  <1>32. CASE Crash
    BY <1>32 DEF Crash, Forget, historyVars
  <1>33. CASE Boot
    BY <1>33 DEF Boot, jobVars, historyVars
  <1>34. CASE UNCHANGED vars
    BY <1>34 DEF vars, jobVars, historyVars
  <1> HIDE DEF TypeOK, TurnsInv, HoldsItsTurn, OneWorks, NoStopYet, QuietWhileWorkedOn,
              KnownStoppedStaysStopped, Jobs, Ops, RunJobs, OnStack, Engaged
  <1>35. ASSUME NEW j \in RunJobs, OnStackStep(j) PROVE TurnsInv'
    BY <1>35, <1>10, <1>11, <1>12, <1>13, <1>14, <1>15, <1>16,
       <1>17, <1>18, <1>19, <1>20, <1>21, <1>22 DEF OnStackStep
  <1>36. ASSUME NEW b \in Backups, BackupStep(b) \/ ContextEnds(b) PROVE TurnsInv'
    <2> b \in RunJobs /\ b \in Jobs
      BY DEF RunJobs, Jobs
    <2> QED
      BY <1>36, <1>35, <1>5, <1>6, <1>7, <1>8, <1>23, <1>24, <1>25, <1>27, <1>31 DEF BackupStep
  <1>37. ASSUME NEW r \in Restores, RestoreStep(r) PROVE TurnsInv'
    <2> r \in RunJobs /\ r \in Jobs
      BY DEF RunJobs, Jobs
    <2> QED
      BY <1>37, <1>35, <1>9, <1>26, <1>27 DEF RestoreStep
  <1>38. ASSUME NEW j \in Others, OtherStep(j) PROVE TurnsInv'
    BY <1>38, <1>4, <1>27 DEF OtherStep, Jobs
  <1>39. ASSUME NEW u \in Users,
             \/ \E S \in {{s} : s \in Stacks} \cup {Stacks} : UserTakes(u, S)
             \/ \E s \in Stacks, state \in {"running", "stopped"} : UserActs(u, s, state)
             \/ UserLeaves(u)
        PROVE  TurnsInv'
    BY <1>39, <1>28, <1>29, <1>30
  <1> QED
    BY <1>1, <1>2, <1>3, <1>32, <1>33, <1>34, <1>36, <1>37, <1>38, <1>39
    DEF Next

(* The types, with what the bound on the restarts needs to be one.         *)
TypeInv == TypeOK /\ (~up => boots < MaxBoots)

(* Every step preserves the types.                                         *)
LEMMA TypeStep ==
  ASSUME TypeInv, HoldsItsTurn, [Next]_vars
  PROVE  TypeInv'
  <1> USE NoneAssumption, BootsAssumption
      DEF TypeInv, TypeOK, Jobs, Ops, RunJobs, OnStack, Engaged, Places, Statuses, Errors, Facts
  <1>1. ASSUME NEW b \in Backups, NEW S \in SUBSET Stacks,
             NEW missing \in BOOLEAN, NEW d \in BOOLEAN, StartBackup(b, S, missing, d)
        PROVE  TypeInv'
    BY <1>1 DEF StartBackup, Start, TryAcquireGlobal, Go, historyVars
  <1>2. ASSUME NEW r \in Restores, NEW s \in Stacks, StartRestore(r, s)
        PROVE  TypeInv'
    BY <1>2 DEF StartRestore, Start, TryAcquireGlobal, Go, historyVars
  <1>3. ASSUME NEW j \in Others, StartOther(j) PROVE TypeInv'
    BY <1>3 DEF StartOther, Start, TryAcquireGlobal, Go, jobVars, historyVars
  <1>4. ASSUME NEW j \in Others, EndOther(j) PROVE TypeInv'
    BY <1>4 DEF EndOther, Go, jobVars, historyVars
  <1>5. ASSUME NEW b \in Backups, PoliciesFail(b) PROVE TypeInv'
    BY <1>5 DEF PoliciesFail, Go, jobVars, historyVars
  <1>6. ASSUME NEW b \in Backups, BackupDatabase(b) PROVE TypeInv'
    <2>1. at' \in [Ops -> Places]
      BY <1>6 DEF BackupDatabase, Go
    <2>2. facts' \in [Backups -> SUBSET Facts]
      <3>1. facts' \in {facts, [facts EXCEPT ![b] = facts[b] \cup {"database"}]}
        BY <1>6 DEF BackupDatabase
      <3>2. facts \in [Backups -> SUBSET Facts]
        OBVIOUS
      <3> QED
        BY ONLY <3>1, <3>2, Joined DEF Facts
    <2> QED
      BY <1>6, <2>1, <2>2 DEF BackupDatabase, historyVars
  <1>7. ASSUME NEW b \in Backups, NEW s \in Stacks, SkipStack(b, s)
        PROVE  TypeInv'
    BY <1>7 DEF SkipStack, historyVars
  <1>8. ASSUME NEW b \in Backups, NEW s \in Stacks, BeginStack(b, s)
        PROVE  TypeInv'
    <2>1. at' \in [Ops -> Places]
      <3>1. (\E x \in Places : at' = [at EXCEPT ![b] = x])
        BY <1>8 DEF BeginStack, Go
      <3>2. at \in [Ops -> Places]
        OBVIOUS
      <3> QED
        BY ONLY <3>1, <3>2
    <2>2. lock' \in [Stacks -> Ops \cup {None}]
      <3>1. (\E x \in Ops \cup {None} : lock' = [lock EXCEPT ![s] = x]) \/ UNCHANGED lock
        BY <1>8 DEF BeginStack
      <3>2. lock \in [Stacks -> Ops \cup {None}]
        OBVIOUS
      <3> QED
        BY ONLY <3>1, <3>2
    <2>3. err' \in [RunJobs -> Errors]
      <3>1. (\E x \in Errors : err' = [err EXCEPT ![b] = x]) \/ UNCHANGED err
        BY <1>8 DEF BeginStack
      <3>2. err \in [RunJobs -> Errors]
        OBVIOUS
      <3> QED
        BY ONLY <3>1, <3>2
    <2> QED
      BY <1>8, <2>1, <2>2, <2>3 DEF BeginStack, historyVars
  <1>9. ASSUME NEW r \in Restores, LockForRestore(r) PROVE TypeInv'
    <2>1. at' \in [Ops -> Places]
      <3>1. (\E x \in Places : at' = [at EXCEPT ![r] = x])
        BY <1>9 DEF LockForRestore, Go
      <3>2. at \in [Ops -> Places]
        OBVIOUS
      <3> QED
        BY ONLY <3>1, <3>2
    <2>2. lock' \in [Stacks -> Ops \cup {None}]
      <3>1. (\E x \in Ops \cup {None} : lock' = [lock EXCEPT ![cur[r]] = x]) \/ UNCHANGED lock
        BY <1>9 DEF LockForRestore
      <3>2. lock \in [Stacks -> Ops \cup {None}]
        OBVIOUS
      <3> QED
        BY ONLY <3>1, <3>2
    <2>3. err' \in [RunJobs -> Errors]
      <3>1. (\E x \in Errors : err' = [err EXCEPT ![r] = x]) \/ UNCHANGED err
        BY <1>9 DEF LockForRestore
      <3>2. err \in [RunJobs -> Errors]
        OBVIOUS
      <3> QED
        BY ONLY <3>1, <3>2
    <2> QED
      BY <1>9, <2>1, <2>2, <2>3 DEF LockForRestore, historyVars
  <1>10. ASSUME NEW j \in RunJobs, GiveUpBeforeStop(j) PROVE TypeInv'
    BY <1>10 DEF GiveUpBeforeStop, Go, historyVars
  <1>11. ASSUME NEW j \in RunJobs, Observe(j) PROVE TypeInv'
    BY <1>11 DEF Observe, Answers, Go, historyVars
  <1>12. ASSUME NEW j \in RunJobs, StopSucceeds(j) PROVE TypeInv'
    <2>1. at' \in [Ops -> Places]
      BY <1>12 DEF StopSucceeds, Go
    <2>2. stack' \in [Stacks -> {"running", "partial", "stopped"}]
      BY <1>12 DEF StopSucceeds
    <2>3. downed' \in [RunJobs -> SUBSET Stacks]
      <3>1. cur[j] \in Stacks
        BY <1>12 DEF StopSucceeds, HoldsItsTurn
      <3>2. downed \in [RunJobs -> SUBSET Stacks]
        OBVIOUS
      <3>3. [downed EXCEPT ![j] = downed[j] \cup {cur[j]}] \in [RunJobs -> SUBSET Stacks]
        BY ONLY <3>1, <3>2, Joined
      <3>4. \/ downed' = downed
            \/ downed' = [downed EXCEPT ![j] = downed[j] \cup {cur[j]}]
        BY <1>12 DEF StopSucceeds
      <3> QED
        BY ONLY <3>2, <3>3, <3>4
    <2> QED
      BY <1>12, <2>1, <2>2, <2>3 DEF StopSucceeds
  <1>13. ASSUME NEW j \in RunJobs, StopFails(j) PROVE TypeInv'
    <2>1. at' \in [Ops -> Places]
      BY <1>13 DEF StopFails, Go
    <2>2. stack' \in [Stacks -> {"running", "partial", "stopped"}]
      <3>1. cur[j] \in Stacks
        BY <1>13 DEF StopFails, HoldsItsTurn
      <3>2. PICK after \in {stack[cur[j]], "stopped", "partial"} :
              stack' = [stack EXCEPT ![cur[j]] = after]
        BY <1>13 DEF StopFails
      <3>3. after \in {"running", "partial", "stopped"}
        BY <3>1
      <3> QED
        BY <3>2, <3>3
    <2>3. downed' \in [RunJobs -> SUBSET Stacks]
      <3>1. cur[j] \in Stacks
        BY <1>13 DEF StopFails, HoldsItsTurn
      <3>2. downed \in [RunJobs -> SUBSET Stacks]
        OBVIOUS
      <3>3. [downed EXCEPT ![j] = downed[j] \cup {cur[j]}] \in [RunJobs -> SUBSET Stacks]
        BY ONLY <3>1, <3>2, Joined
      <3>4. \/ downed' = downed
            \/ downed' = [downed EXCEPT ![j] = downed[j] \cup {cur[j]}]
        BY <1>13 DEF StopFails
      <3> QED
        BY ONLY <3>2, <3>3, <3>4
    <2> QED
      BY <1>13, <2>1, <2>2, <2>3 DEF StopFails
  <1>14. ASSUME NEW j \in RunJobs, NoStop(j) PROVE TypeInv'
    BY <1>14 DEF NoStop, MustStop, Go, jobVars, historyVars
  <1>15. ASSUME NEW j \in RunJobs, Copy(j) PROVE TypeInv'
    <2>1. at' \in [Ops -> Places]
      BY <1>15 DEF Copy, Go
    <2>2. copied' \in [Backups -> SUBSET Stacks]
      <3>1. cur[j] \in Stacks
        BY <1>15 DEF Copy, HoldsItsTurn
      <3>2. copied' = [copied EXCEPT ![j] = copied[j] \cup {cur[j]}]
        BY <1>15 DEF Copy
      <3>3. copied \in [Backups -> SUBSET Stacks]
        OBVIOUS
      <3> QED
        BY ONLY <3>1, <3>2, <3>3, Joined
    <2>3. facts' \in [Backups -> SUBSET Facts]
      <3>1. facts' \in {facts, [facts EXCEPT ![j] = facts[j] \cup {"imperfect"}]}
        BY <1>15 DEF Copy
      <3>2. facts \in [Backups -> SUBSET Facts]
        OBVIOUS
      <3> QED
        BY ONLY <3>1, <3>2, Joined DEF Facts
    <2> QED
      BY <1>15, <2>1, <2>2, <2>3 DEF Copy
  <1>16. ASSUME NEW j \in RunJobs, Check(j) PROVE TypeInv'
    <2>1. at' \in [Ops -> Places]
      BY <1>16 DEF Check, Go
    <2>2. facts' \in [Backups -> SUBSET Facts]
      <3>1. facts' \in {facts, [facts EXCEPT ![j] = facts[j] \cup {"imperfect"}]}
        BY <1>16 DEF Check
      <3>2. facts \in [Backups -> SUBSET Facts]
        OBVIOUS
      <3> QED
        BY ONLY <3>1, <3>2, Joined DEF Facts
    <2> QED
      BY <1>16, <2>1, <2>2 DEF Check, historyVars
  <1>17. ASSUME NEW j \in RunJobs, RestoreFiles(j) PROVE TypeInv'
    BY <1>17 DEF RestoreFiles, Go, jobVars, historyVars
  <1>18. ASSUME NEW j \in RunJobs, ResticFails(j) PROVE TypeInv'
    BY <1>18 DEF ResticFails, Go, historyVars
  <1>19. ASSUME NEW j \in RunJobs, Panic(j) PROVE TypeInv'
    BY <1>19 DEF Panic, Go, historyVars
  <1>20. ASSUME NEW j \in RunJobs, Restart(j) PROVE TypeInv'
    <2>1. at' \in [Ops -> Places]
      BY <1>20 DEF Restart, Go
    <2>2. stack' \in [Stacks -> {"running", "partial", "stopped"}]
      <3>1. (\E x \in {"running", "partial", "stopped"} : stack' = [stack EXCEPT ![cur[j]] = x])
        BY <1>20 DEF Restart
      <3>2. stack \in [Stacks -> {"running", "partial", "stopped"}]
        OBVIOUS
      <3> QED
        BY ONLY <3>1, <3>2
    <2>3. downed' \in [RunJobs -> SUBSET Stacks]
      <3>1. cur[j] \in Stacks
        BY <1>20 DEF Restart, HoldsItsTurn
      <3>2. \/ downed' = [downed EXCEPT ![j] = downed[j] \cup {cur[j]}]
            \/ downed' = [downed EXCEPT ![j] = downed[j] \ {cur[j]}]
        BY <1>20 DEF Restart
      <3>3. downed \in [RunJobs -> SUBSET Stacks]
        OBVIOUS
      <3> QED
        BY ONLY <3>1, <3>2, <3>3, Joined
    <2>4. facts' \in [Backups -> SUBSET Facts]
      <3>1. facts' \in {facts, [facts EXCEPT ![j] = facts[j] \cup {"restartIncomplete"}]}
        BY <1>20 DEF Restart
      <3>2. facts \in [Backups -> SUBSET Facts]
        OBVIOUS
      <3> QED
        BY ONLY <3>1, <3>2, Joined DEF Facts
    <2>5. err' \in [RunJobs -> Errors]
      <3>1. (\E x \in Errors : err' = [err EXCEPT ![j] = x]) \/ UNCHANGED err
        BY <1>20 DEF Restart
      <3>2. err \in [RunJobs -> Errors]
        OBVIOUS
      <3> QED
        BY ONLY <3>1, <3>2
    <2> QED
      BY <1>20, <2>1, <2>2, <2>3, <2>4, <2>5 DEF Restart
  <1>21. ASSUME NEW j \in RunJobs, NoRestart(j) PROVE TypeInv'
    BY <1>21 DEF NoRestart, MustStart, Go, jobVars, historyVars
  <1>22. ASSUME NEW j \in RunJobs, Unlock(j) PROVE TypeInv'
    BY <1>22 DEF Unlock, Go, jobVars, historyVars
  <1>23. ASSUME NEW b \in Backups, RecordItem(b) PROVE TypeInv'
    <2>1. at' \in [Ops -> Places]
      <3>1. (\E x \in Places : at' = [at EXCEPT ![b] = x])
        BY <1>23 DEF RecordItem, Go
      <3>2. at \in [Ops -> Places]
        OBVIOUS
      <3> QED
        BY ONLY <3>1, <3>2
    <2>2. item' \in [Backups -> [Stacks -> {"none", "success", "failed", "skipped"}]]
      BY <1>23 DEF RecordItem
    <2>3. facts' \in [Backups -> SUBSET Facts]
      <3>1. facts' \in {facts, [facts EXCEPT ![b] = facts[b] \cup {"failed"}],
                        [facts EXCEPT ![b] = facts[b] \cup {"ok"}]}
        BY <1>23 DEF RecordItem
      <3>2. facts \in [Backups -> SUBSET Facts]
        OBVIOUS
      <3> QED
        BY ONLY <3>1, <3>2, Joined DEF Facts
    <2>4. cur' \in [RunJobs -> Stacks \cup {None}]
      <3>1. (\E x \in Stacks \cup {None} : cur' = [cur EXCEPT ![b] = x]) \/ UNCHANGED cur
        BY <1>23 DEF RecordItem
      <3>2. cur \in [RunJobs -> Stacks \cup {None}]
        OBVIOUS
      <3> QED
        BY ONLY <3>1, <3>2
    <2>5. prior' \in [RunJobs -> {"none", "running", "stopped", "unknown"}]
      <3>1. (\E x \in {"none"} : prior' = [prior EXCEPT ![b] = x]) \/ UNCHANGED prior
        BY <1>23 DEF RecordItem
      <3>2. prior \in [RunJobs -> {"none", "running", "stopped", "unknown"}]
        OBVIOUS
      <3> QED
        BY ONLY <3>1, <3>2
    <2>6. stopApplied' \in [RunJobs -> BOOLEAN]
      <3>1. (\E x \in BOOLEAN : stopApplied' = [stopApplied EXCEPT ![b] = x]) \/ UNCHANGED stopApplied
        BY <1>23 DEF RecordItem
      <3>2. stopApplied \in [RunJobs -> BOOLEAN]
        OBVIOUS
      <3> QED
        BY ONLY <3>1, <3>2
    <2>7. err' \in [RunJobs -> Errors]
      <3>1. (\E x \in Errors : err' = [err EXCEPT ![b] = x]) \/ UNCHANGED err
        BY <1>23 DEF RecordItem
      <3>2. err \in [RunJobs -> Errors]
        OBVIOUS
      <3> QED
        BY ONLY <3>1, <3>2
    <2> QED
      BY <1>23, <2>1, <2>2, <2>3, <2>4, <2>5, <2>6, <2>7 DEF RecordItem, historyVars
  <1>24. ASSUME NEW b \in Backups, Aggregate(b) PROVE TypeInv'
    <2>1. at' \in [Ops -> Places]
      <3>1. (\E x \in Places : at' = [at EXCEPT ![b] = x])
        BY <1>24 DEF Aggregate, Go
      <3>2. at \in [Ops -> Places]
        OBVIOUS
      <3> QED
        BY ONLY <3>1, <3>2
    <2>2. row' \in [RunJobs -> Statuses \cup {"absent", "running", "interrupted"}]
      <3>1. (\E x \in Statuses \cup {"absent", "running", "interrupted"} : row' = [row EXCEPT ![b] = x])
        BY <1>24 DEF Aggregate, StatusOf
      <3>2. row \in [RunJobs -> Statuses \cup {"absent", "running", "interrupted"}]
        OBVIOUS
      <3> QED
        BY ONLY <3>1, <3>2
    <2>3. offsite' \in [Backups -> {"none", "owed", "made", "failed"}]
      <3>1. offsite' = offsite \/ \E x \in {"none", "owed"} : offsite' = [offsite EXCEPT ![b] = x]
        BY <1>24 DEF Aggregate
      <3>2. offsite \in [Backups -> {"none", "owed", "made", "failed"}]
        OBVIOUS
      <3> QED
        BY ONLY <3>1, <3>2
    <2> QED
      BY <1>24, <2>1, <2>2, <2>3 DEF Aggregate, jobVars
  <1>25. ASSUME NEW b \in Backups, Sync(b) PROVE TypeInv'
    <2>1. at' \in [Ops -> Places]
      BY <1>25 DEF Sync, Go
    <2>2. row' \in [RunJobs -> Statuses \cup {"absent", "running", "interrupted"}]
      <3>1. (\E x \in Statuses \cup {"absent", "running", "interrupted"} : row' = [row EXCEPT ![b] = x]) \/ UNCHANGED row
        BY <1>25 DEF Sync, AfterFailedSync
      <3>2. row \in [RunJobs -> Statuses \cup {"absent", "running", "interrupted"}]
        OBVIOUS
      <3> QED
        BY ONLY <3>1, <3>2
    <2>3. offsite' \in [Backups -> {"none", "owed", "made", "failed"}]
      BY <1>25 DEF Sync
    <2> QED
      BY <1>25, <2>1, <2>2, <2>3 DEF Sync, jobVars
  <1>26. ASSUME NEW r \in Restores, RecordRestore(r) PROVE TypeInv'
    BY <1>26 DEF RecordRestore, RestoreStatus, Go, jobVars, historyVars
  <1>27. ASSUME NEW j \in Jobs, Leave(j) PROVE TypeInv'
    BY <1>27 DEF Leave, Panicked, Forget, Go, historyVars
  <1>28. ASSUME NEW u \in Users, NEW S \in SUBSET Stacks, UserTakes(u, S)
        PROVE  TypeInv'
    BY <1>28 DEF UserTakes, Go, jobVars, historyVars
  <1>29. ASSUME NEW u \in Users, NEW s \in Stacks, 
             NEW state \in {"running", "stopped"}, UserActs(u, s, state)
        PROVE  TypeInv'
    BY <1>29 DEF UserActs, Held, jobVars
  <1>30. ASSUME NEW u \in Users, UserLeaves(u) PROVE TypeInv'
    BY <1>30 DEF UserLeaves, Go, jobVars, historyVars
  <1>31. ASSUME NEW b \in Backups, ContextEnds(b) PROVE TypeInv'
    BY <1>31 DEF ContextEnds, jobVars, historyVars
  <1>32. CASE Crash
    BY <1>32 DEF Crash, Forget, historyVars
  <1>33. CASE Boot
    <2>1. row' \in [RunJobs -> Statuses \cup {"absent", "running", "interrupted"}]
      BY <1>33 DEF Boot
    <2>2. /\ up' \in BOOLEAN /\ boots' \in 0..MaxBoots
      BY <1>33 DEF Boot
    <2> QED
      BY <1>33, <2>1, <2>2 DEF Boot, jobVars, historyVars
  <1>34. CASE UNCHANGED vars
    BY <1>34 DEF vars, jobVars, historyVars
  <1> HIDE DEF TypeInv, TypeOK, Jobs, Ops, RunJobs, OnStack, Engaged,
              Places, Statuses, Errors, Facts
  <1>35. ASSUME NEW j \in RunJobs, OnStackStep(j) PROVE TypeInv'
    BY <1>35, <1>10, <1>11, <1>12, <1>13, <1>14, <1>15, <1>16,
       <1>17, <1>18, <1>19, <1>20, <1>21, <1>22 DEF OnStackStep
  <1>36. ASSUME NEW b \in Backups, BackupStep(b) \/ ContextEnds(b) PROVE TypeInv'
    <2> b \in RunJobs /\ b \in Jobs
      BY DEF RunJobs, Jobs
    <2> QED
      BY <1>36, <1>35, <1>5, <1>6, <1>7, <1>8, <1>23, <1>24, <1>25, <1>27, <1>31 DEF BackupStep
  <1>37. ASSUME NEW r \in Restores, RestoreStep(r) PROVE TypeInv'
    <2> r \in RunJobs /\ r \in Jobs
      BY DEF RunJobs, Jobs
    <2> QED
      BY <1>37, <1>35, <1>9, <1>26, <1>27 DEF RestoreStep
  <1>38. ASSUME NEW j \in Others, OtherStep(j) PROVE TypeInv'
    BY <1>38, <1>4, <1>27 DEF OtherStep, Jobs
  <1>39. ASSUME NEW u \in Users,
             \/ \E S \in {{s} : s \in Stacks} \cup {Stacks} : UserTakes(u, S)
             \/ \E s \in Stacks, state \in {"running", "stopped"} : UserActs(u, s, state)
             \/ UserLeaves(u)
        PROVE  TypeInv'
    BY <1>39, <1>28, <1>29, <1>30
  <1> QED
    BY <1>1, <1>2, <1>3, <1>32, <1>33, <1>34, <1>36, <1>37, <1>38, <1>39
    DEF Next

(* Init gives types and turns.                                             *)
LEMMA ServiceInit == Init => TypeInv /\ TurnsInv
  <1> USE NoneAssumption, BootsAssumption DEF Init
  <1>1. Init => TypeInv
    BY DEF TypeInv, TypeOK, Places, Facts, Errors
  <1>2. Init => TurnsInv
    BY DEF TurnsInv, HoldsItsTurn, OneWorks, NoStopYet, QuietWhileWorkedOn,
           KnownStoppedStaysStopped, OnStack, Engaged, Ops, Jobs, RunJobs
  <1> QED
    BY <1>1, <1>2

(* Types and turns hold together.                                          *)
LEMMA ServiceInductive == Spec => [](TypeInv /\ TurnsInv)
  <1>1. TypeInv /\ TurnsInv /\ [Next]_vars => (TypeInv /\ TurnsInv)'
    BY TypeStep, TurnsStep DEF TypeInv, TurnsInv
  <1> QED
    BY <1>1, ServiceInit, PTL DEF Spec

(* For any number of stacks, jobs and handlers: one job at a time has the  *)
(* repository, a stack stopped for its files stays stopped until they are  *)
(* done, and a stack known to be stopped is not started by its backup or   *)
(* restore.                                                                *)
THEOREM ServiceSafe == Spec => []ServiceInv
  <1>1. OneWorks => OneJobAtATime
    BY DEF OneWorks, OneJobAtATime
  <1>2. TypeInv /\ TurnsInv => ServiceInv
    BY <1>1 DEF TypeInv, TurnsInv, ServiceInv
  <1> QED
    BY <1>2, ServiceInductive, PTL

-----------------------------------------------------------------------------
(* Where a job is before its row has an outcome.                           *)
InRun == {"idle", "started", "loop", "unlocking", "recording"} \cup OnStack

(* The run has something to tell beside the items that went well.          *)
Told(b) == \E f \in facts[b] : f # "ok"

(* What is going to tell of the stack under work, if it is down: the start *)
(* that is due, or the error on its way to the row.                        *)
Accounted(j) ==
  \/ at[j] \in {"copying", "checking", "undoing"} /\ stopApplied[j] /\ prior[j] # "stopped"
  \/ at[j] \in {"undoing", "unlocking", "recording"} /\ err[j] = "error"
  \/ at[j] \in {"unlocking", "recording"} /\ j \in Restores /\ err[j] # "none"

NothingEarly ==
  /\ \A j \in RunJobs : at[j] \in InRun => row[j] # "success"
  /\ \A b \in Backups : at[b] \in InRun => offsite[b] = "none"
  /\ \A b \in Backups : at[b] = "idle" => facts[b] = {} /\ ~dry[b]

(* The items say what the facts say, and a stack with a success has its    *)
(* snapshot.                                                               *)
ItemsAreTrue ==
  \A b \in Backups, s \in Stacks : at[b] \in InRun =>
    /\ item[b][s] = "failed" => "failed" \in facts[b]
    /\ item[b][s] = "skipped" => "notStarted" \in facts[b]
    /\ item[b][s] = "success" /\ ~dry[b] => s \in copied[b]

CopyIsMade ==
  \A b \in Backups :
    /\ at[b] = "checking" => cur[b] \in copied[b]
    /\ at[b] \in {"undoing", "unlocking", "recording"} /\ err[b] \notin {"error", "panic"}
         => dry[b] \/ cur[b] \in copied[b]

(* A stack that the job left down is told of, or is the one under work and *)
(* accounted for.                                                          *)
DownIsTold ==
  \A j \in RunJobs, s \in Stacks : at[j] \in InRun /\ s \in downed[j] =>
    \/ j \in Backups /\ Told(j)
    \/ s = cur[j] /\ Accounted(j)

AccountInv ==
  NothingEarly /\ ItemsAreTrue /\ CopyIsMade /\ DownIsTold /\ SuccessHidesNothing

(* Every step keeps the account of what a run did.                         *)
LEMMA AccountStep ==
  ASSUME TypeOK, TurnsInv, AccountInv, [Next]_vars
  PROVE  AccountInv'
  <1> USE NoneAssumption, KindsAssumption
      DEF TypeOK, AccountInv, NothingEarly, ItemsAreTrue, CopyIsMade, DownIsTold,
          SuccessHidesNothing, Told, Accounted, InRun, OnStack, Engaged, RunJobs, Jobs, Ops
  <1>1. ASSUME NEW b \in Backups, NEW S \in SUBSET Stacks,
             NEW missing \in BOOLEAN, NEW d \in BOOLEAN, StartBackup(b, S, missing, d)
        PROVE  AccountInv'
    BY <1>1 DEF StartBackup, Start, TryAcquireGlobal, Go, historyVars
  <1>2. ASSUME NEW r \in Restores, NEW s \in Stacks, StartRestore(r, s)
        PROVE  AccountInv'
    BY <1>2 DEF StartRestore, Start, TryAcquireGlobal, Go, historyVars
  <1>3. ASSUME NEW j \in Others, StartOther(j) PROVE AccountInv'
    BY <1>3 DEF StartOther, Start, TryAcquireGlobal, Go, jobVars, historyVars
  <1>4. ASSUME NEW j \in Others, EndOther(j) PROVE AccountInv'
    BY <1>4 DEF EndOther, Go, jobVars, historyVars
  <1>5. ASSUME NEW b \in Backups, PoliciesFail(b) PROVE AccountInv'
    BY <1>5 DEF PoliciesFail, Go, jobVars, historyVars
  <1>6. ASSUME NEW b \in Backups, BackupDatabase(b) PROVE AccountInv'
    BY <1>6 DEF BackupDatabase, Go, historyVars
  <1>7. ASSUME NEW b \in Backups, NEW s \in Stacks, SkipStack(b, s)
        PROVE  AccountInv'
    BY <1>7 DEF SkipStack, historyVars
  <1>8. ASSUME NEW b \in Backups, NEW s \in Stacks, BeginStack(b, s)
        PROVE  AccountInv'
    <2>1. NothingEarly'
      <3>1. \E place \in {"locked", "recording"} : at' = [at EXCEPT ![b] = place]
        BY <1>8 DEF BeginStack, Go
      <3>2. at[b] = "loop" /\ UNCHANGED <<row, offsite, facts, dry>>
        BY <1>8 DEF BeginStack, historyVars
      <3> QED
        BY <3>1, <3>2
    <2>2. ItemsAreTrue'
      BY <1>8 DEF BeginStack, Go, historyVars
    <2>3. CopyIsMade'
      BY <1>8 DEF BeginStack, Go, historyVars
    <2>4. DownIsTold'
      BY <1>8 DEF BeginStack, Go, historyVars
    <2>5. SuccessHidesNothing'
      BY <1>8 DEF BeginStack, Go, historyVars
    <2> QED
      BY <2>1, <2>2, <2>3, <2>4, <2>5
  <1>9. ASSUME NEW r \in Restores, LockForRestore(r) PROVE AccountInv'
    <2>1. NothingEarly'
      BY <1>9 DEF LockForRestore, Go, historyVars
    <2>2. ItemsAreTrue'
      BY <1>9 DEF LockForRestore, Go, historyVars
    <2>3. CopyIsMade'
      BY <1>9 DEF LockForRestore, Go, historyVars
    <2>4. DownIsTold'
      BY <1>9 DEF LockForRestore, Go, historyVars
    <2>5. SuccessHidesNothing'
      <3>1. UNCHANGED <<row, downed, facts, todo, offsite, item, dry, copied>>
        BY <1>9 DEF LockForRestore, historyVars
      <3>2. \A j \in Backups : at'[j] = at[j]
        BY <1>9 DEF LockForRestore, Go
      <3> QED
        BY <3>1, <3>2
    <2> QED
      BY <2>1, <2>2, <2>3, <2>4, <2>5
  <1>10. ASSUME NEW j \in RunJobs, GiveUpBeforeStop(j) PROVE AccountInv'
    BY <1>10 DEF GiveUpBeforeStop, Go, historyVars
  <1>11. ASSUME NEW j \in RunJobs, Observe(j) PROVE AccountInv'
    BY <1>11 DEF Observe, Answers, Go, historyVars
  <1>12. ASSUME NEW j \in RunJobs, StopSucceeds(j) PROVE AccountInv'
    <2>1. NothingEarly'
      BY <1>12 DEF StopSucceeds, Go
    <2>2. ItemsAreTrue'
      BY <1>12 DEF StopSucceeds, Go
    <2>3. CopyIsMade'
      BY <1>12 DEF StopSucceeds, Go
    <2>4. DownIsTold'
      BY <1>12 DEF StopSucceeds, Go, TurnsInv, KnownStoppedStaysStopped, HoldsItsTurn
    <2>5. SuccessHidesNothing'
      BY <1>12 DEF StopSucceeds, Go
    <2> QED
      BY <2>1, <2>2, <2>3, <2>4, <2>5
  <1>13. ASSUME NEW j \in RunJobs, StopFails(j) PROVE AccountInv'
    BY <1>13 DEF StopFails, Go
  <1>14. ASSUME NEW j \in RunJobs, NoStop(j) PROVE AccountInv'
    BY <1>14 DEF NoStop, MustStop, Go, jobVars, historyVars
  <1>15. ASSUME NEW j \in RunJobs, Copy(j) PROVE AccountInv'
    BY <1>15 DEF Copy, Go
  <1>16. ASSUME NEW j \in RunJobs, Check(j) PROVE AccountInv'
    BY <1>16 DEF Check, Go, historyVars
  <1>17. ASSUME NEW j \in RunJobs, RestoreFiles(j) PROVE AccountInv'
    BY <1>17 DEF RestoreFiles, Go, jobVars, historyVars
  <1>18. ASSUME NEW j \in RunJobs, ResticFails(j) PROVE AccountInv'
    BY <1>18 DEF ResticFails, Go, historyVars
  <1>19. ASSUME NEW j \in RunJobs, Panic(j) PROVE AccountInv'
    <2>1. NothingEarly'
      BY <1>19 DEF Panic, Go, historyVars
    <2>2. ItemsAreTrue'
      BY <1>19 DEF Panic, Go, historyVars
    <2>3. CopyIsMade'
      BY <1>19 DEF Panic, Go, historyVars
    <2>4. DownIsTold'
      BY <1>19 DEF Panic, Go, historyVars
    <2>5. SuccessHidesNothing'
      BY <1>19 DEF Panic, Go, historyVars
    <2> QED
      BY <2>1, <2>2, <2>3, <2>4, <2>5
  <1>20. ASSUME NEW j \in RunJobs, Restart(j) PROVE AccountInv'
    <2>1. NothingEarly'
      BY <1>20 DEF Restart, MustStart, Go
    <2>2. ItemsAreTrue'
      BY <1>20 DEF Restart, MustStart, Go
    <2>3. CopyIsMade'
      BY <1>20 DEF Restart, MustStart, Go
    <2>4. DownIsTold'
      <3>1. PICK outcome \in {"running", "partial", "stopped"} :
              /\ downed' = [downed EXCEPT ![j] = IF outcome = "running" THEN downed[j] \ {cur[j]}
                                                 ELSE downed[j] \cup {cur[j]}]
              /\ IF outcome = "running" THEN UNCHANGED <<facts, err>>
                 ELSE IF j \in Backups
                 THEN /\ facts' = [facts EXCEPT ![j] = facts[j] \cup {"restartIncomplete"}]
                      /\ UNCHANGED err
                 ELSE /\ err' = [err EXCEPT ![j] = IF err[j] = "none" THEN "incomplete" ELSE err[j]]
                      /\ UNCHANGED facts
        BY <1>20 DEF Restart
      <3>2. /\ at[j] = "undoing" /\ at' = [at EXCEPT ![j] = "unlocking"]
            /\ UNCHANGED <<cur, prior, stopApplied>>
        BY <1>20 DEF Restart, Go
      <3>3. CASE outcome = "running"
        BY <3>1, <3>2, <3>3
      <3>4. CASE outcome # "running" /\ j \in Backups
        <4>1. facts'[j] = facts[j] \cup {"restartIncomplete"}
          BY <3>1, <3>4
        <4>2. Told(j)'
          <5>1. "restartIncomplete" \in facts'[j] /\ "restartIncomplete" # "ok"
            BY <4>1
          <5> QED
            BY ONLY <5>1 DEF Told
        <4>3. \A i \in RunJobs \ {j} :
                at'[i] = at[i] /\ downed'[i] = downed[i] /\ (i \in Backups => facts'[i] = facts[i])
          BY <3>1, <3>2, <3>4
        <4>4. ASSUME NEW i \in RunJobs, NEW s \in Stacks, at'[i] \in InRun, s \in downed'[i]
              PROVE  (i \in Backups /\ Told(i)') \/ (s = cur'[i] /\ Accounted(i)')
          <5>1. CASE i = j
            BY <5>1, <3>4, <4>2
          <5>2. CASE i # j
            BY <5>2, <4>3, <4>4, <3>1, <3>2, <3>4
          <5> QED
            BY <5>1, <5>2
        <4> QED
          BY <4>4
      <3>5. CASE outcome # "running" /\ j \notin Backups
        BY <3>1, <3>2, <3>5
      <3> QED
        BY <3>3, <3>4, <3>5
    <2>5. SuccessHidesNothing'
      BY <1>20 DEF Restart, MustStart, Go
    <2> QED
      BY <2>1, <2>2, <2>3, <2>4, <2>5
  <1>21. ASSUME NEW j \in RunJobs, NoRestart(j) PROVE AccountInv'
    BY <1>21 DEF NoRestart, MustStart, Go, jobVars, historyVars
  <1>22. ASSUME NEW j \in RunJobs, Unlock(j) PROVE AccountInv'
    BY <1>22 DEF Unlock, Go, jobVars, historyVars
  <1>23. ASSUME NEW b \in Backups, RecordItem(b) PROVE AccountInv'
    <2>1. b \in RunJobs /\ at[b] = "recording" /\ cur[b] \in Stacks
      BY <1>23 DEF RecordItem, TurnsInv, HoldsItsTurn
    <2>2. UNCHANGED <<row, offsite, copied, downed, dry, todo>>
      BY <1>23 DEF RecordItem, historyVars
    <2>3. CASE err[b] = "panic"
      <3>1. at' = [at EXCEPT ![b] = "leaving"] /\ UNCHANGED <<facts, cur, prior, stopApplied, err>>
        BY <1>23, <2>3 DEF RecordItem, Go
      <3>2. \A c \in Backups \ {b} : item'[c] = item[c]
        BY <1>23 DEF RecordItem
      <3>3. NothingEarly' /\ ItemsAreTrue' /\ CopyIsMade'
        BY <2>1, <2>2, <3>1, <3>2
      <3>4. DownIsTold'
        BY <2>1, <2>2, <3>1
      <3>5. SuccessHidesNothing'
        BY <2>1, <2>2, <3>1, <3>2
      <3> QED
        BY <3>3, <3>4, <3>5
    <2>4. CASE err[b] # "panic"
      <3> DEFINE word == IF err[b] = "error" THEN "failed" ELSE "ok"
      <3>1. /\ at' = [at EXCEPT ![b] = "loop"]
            /\ facts' = [facts EXCEPT ![b] = facts[b] \cup {word}]
            /\ item' = [item EXCEPT ![b][cur[b]] = IF err[b] = "error" THEN "failed" ELSE "success"]
            /\ cur' = [cur EXCEPT ![b] = None]
            /\ prior' = [prior EXCEPT ![b] = "none"]
            /\ stopApplied' = [stopApplied EXCEPT ![b] = FALSE]
            /\ err' = [err EXCEPT ![b] = "none"]
        BY <1>23, <2>4 DEF RecordItem, Go
      <3>2. NothingEarly' /\ CopyIsMade'
        BY <2>1, <2>2, <3>1
      <3>3. ItemsAreTrue'
        BY <2>1, <2>2, <2>4, <3>1
      <3>4. DownIsTold'
        <4>1. downed[b] # {} => Told(b) \/ err[b] = "error"
          <5>1. ASSUME NEW s \in downed[b] PROVE Told(b) \/ err[b] = "error"
            <6>1. s \in Stacks /\ b \notin Restores
              OBVIOUS
            <6> QED
              BY <2>1, <6>1
          <5> QED
            BY <5>1
        <4>2. facts'[b] = facts[b] \cup {word}
          BY <3>1
        <4>3. downed[b] # {} => Told(b)'
          <5>1. CASE Told(b)
            <6>1. PICK f \in facts[b] : f # "ok"
              BY <5>1
            <6> QED
              BY ONLY <4>2, <6>1 DEF Told
          <5>2. CASE err[b] = "error"
            <6>1. "failed" \in facts'[b] /\ "failed" # "ok"
              BY <4>2, <5>2
            <6> QED
              BY ONLY <6>1 DEF Told
          <5> QED
            BY <4>1, <5>1, <5>2
        <4>4. ASSUME NEW i \in RunJobs, NEW s \in Stacks, at'[i] \in InRun, s \in downed'[i]
              PROVE  (i \in Backups /\ Told(i)') \/ (s = cur'[i] /\ Accounted(i)')
          <5>1. CASE i = b
            BY <5>1, <2>2, <4>3, <4>4
          <5>2. CASE i # b
            BY <5>2, <2>2, <3>1, <4>4
          <5> QED
            BY <5>1, <5>2
        <4> QED
          BY <4>4
      <3>5. SuccessHidesNothing'
        BY <2>1, <2>2, <3>1
      <3> QED
        BY <3>2, <3>3, <3>4, <3>5
    <2> QED
      BY <2>3, <2>4
  <1>24. ASSUME NEW b \in Backups, Aggregate(b) PROVE AccountInv'
    <2>1. NothingEarly'
      <3>1. \E place \in {"leaving", "syncing"} : at' = [at EXCEPT ![b] = place]
        BY <1>24 DEF Aggregate, Go
      <3>2. /\ \A j \in RunJobs \ {b} : row'[j] = row[j]
            /\ \A c \in Backups \ {b} : offsite'[c] = offsite[c]
            /\ UNCHANGED <<facts, dry>>
        BY <1>24 DEF Aggregate, jobVars
      <3> QED
        BY <3>1, <3>2
    <2>2. ItemsAreTrue'
      BY <1>24 DEF Aggregate, Go, jobVars
    <2>3. CopyIsMade'
      BY <1>24 DEF Aggregate, Go, jobVars
    <2>4. DownIsTold'
      BY <1>24 DEF Aggregate, Go, jobVars
    <2>5. SuccessHidesNothing'
      <3>1. StatusOf(facts[b]) = "success" => facts[b] \subseteq {"ok"}
        BY DEF StatusOf
      <3>2. StatusOf(facts[b]) = "success" => downed[b] = {}
        <4>1. at[b] = "loop" /\ b \in RunJobs
          BY <1>24 DEF Aggregate
        <4>2. \A s \in downed[b] : s \in Stacks
          BY <4>1
        <4>3. \A s \in downed[b] : Told(b)
          BY <4>1, <4>2
        <4>4. StatusOf(facts[b]) = "success" => ~Told(b)
          BY ONLY <3>1 DEF Told
        <4> QED
          BY <4>3, <4>4
      <3>3. StatusOf(facts[b]) = "success" => \A s \in Stacks :
              /\ item[b][s] \in {"none", "success"}
              /\ item[b][s] = "success" /\ ~dry[b] => s \in copied[b]
        BY <1>24, <3>1 DEF Aggregate
      <3> QED
        BY <1>24, <3>1, <3>2, <3>3 DEF Aggregate, Go, jobVars
    <2> QED
      BY <2>1, <2>2, <2>3, <2>4, <2>5
  <1>25. ASSUME NEW b \in Backups, Sync(b) PROVE AccountInv'
    BY <1>25 DEF Sync, AfterFailedSync, Go, jobVars
  <1>26. ASSUME NEW r \in Restores, RecordRestore(r) PROVE AccountInv'
    <2>1. NothingEarly'
      BY <1>26 DEF RecordRestore, RestoreStatus, Go, jobVars, historyVars
    <2>2. ItemsAreTrue'
      BY <1>26 DEF RecordRestore, RestoreStatus, Go, jobVars, historyVars
    <2>3. CopyIsMade'
      BY <1>26 DEF RecordRestore, RestoreStatus, Go, jobVars, historyVars
    <2>4. DownIsTold'
      BY <1>26 DEF RecordRestore, RestoreStatus, Go, jobVars, historyVars
    <2>5. SuccessHidesNothing'
      <3>1. RestoreStatus(r) = "success" => downed[r] = {}
        <4>1. at[r] = "recording" /\ r \notin Backups /\ r \in RunJobs
          BY <1>26 DEF RecordRestore
        <4>2. downed[r] # {} => err[r] # "none"
          <5>1. ASSUME NEW s \in downed[r] PROVE err[r] # "none"
            <6>1. s \in Stacks
              BY <4>1
            <6>2. s = cur[r] /\ Accounted(r)
              BY <4>1, <6>1
            <6> QED
              BY <4>1, <6>2
          <5> QED
            BY <5>1
        <4> QED
          BY <4>2 DEF RestoreStatus
      <3> QED
        BY <1>26, <3>1 DEF RecordRestore, Go, jobVars, historyVars
    <2> QED
      BY <2>1, <2>2, <2>3, <2>4, <2>5
  <1>27. ASSUME NEW j \in Jobs, Leave(j) PROVE AccountInv'
    BY <1>27 DEF Leave, Panicked, Forget, Go, historyVars
  <1>28. ASSUME NEW u \in Users, NEW S \in SUBSET Stacks, UserTakes(u, S)
        PROVE  AccountInv'
    BY <1>28 DEF UserTakes, Go, jobVars, historyVars
  <1>29. ASSUME NEW u \in Users, NEW s \in Stacks, 
             NEW state \in {"running", "stopped"}, UserActs(u, s, state)
        PROVE  AccountInv'
    BY <1>29 DEF UserActs, Held, jobVars
  <1>30. ASSUME NEW u \in Users, UserLeaves(u) PROVE AccountInv'
    BY <1>30 DEF UserLeaves, Go, jobVars, historyVars
  <1>31. ASSUME NEW b \in Backups, ContextEnds(b) PROVE AccountInv'
    BY <1>31 DEF ContextEnds, jobVars, historyVars
  <1>32. CASE Crash
    <2>1. \A j \in RunJobs : at'[j] \in InRun => at'[j] = "idle" /\ at[j] = "idle"
      BY <1>32 DEF Crash, TurnsInv, OneWorks
    <2>2. \A j \in RunJobs : at'[j] = at[j] \/ at'[j] = "lost"
      BY <1>32 DEF Crash, TurnsInv, OneWorks
    <2>3. UNCHANGED <<row, offsite, facts, dry, item, copied, downed, todo>>
      BY <1>32 DEF Crash, historyVars
    <2>4. NothingEarly' /\ ItemsAreTrue' /\ CopyIsMade'
      BY <2>1, <2>2, <2>3
    <2>5. DownIsTold'
      BY <2>1, <2>3
    <2>6. SuccessHidesNothing'
      BY <2>2, <2>3
    <2> QED
      BY <2>4, <2>5, <2>6
  <1>33. CASE Boot
    BY <1>33 DEF Boot, jobVars, historyVars
  <1>34. CASE UNCHANGED vars
    BY <1>34 DEF vars, jobVars, historyVars
  <1> HIDE DEF TypeOK, AccountInv, NothingEarly, ItemsAreTrue, CopyIsMade, DownIsTold,
              SuccessHidesNothing, Told, Accounted, InRun, OnStack, Engaged, RunJobs, Jobs, Ops
  <1>35. ASSUME NEW j \in RunJobs, OnStackStep(j) PROVE AccountInv'
    BY <1>35, <1>10, <1>11, <1>12, <1>13, <1>14, <1>15, <1>16,
       <1>17, <1>18, <1>19, <1>20, <1>21, <1>22 DEF OnStackStep
  <1>36. ASSUME NEW b \in Backups, BackupStep(b) \/ ContextEnds(b) PROVE AccountInv'
    <2> b \in RunJobs /\ b \in Jobs
      BY DEF RunJobs, Jobs
    <2> QED
      BY <1>36, <1>35, <1>5, <1>6, <1>7, <1>8, <1>23, <1>24, <1>25, <1>27, <1>31 DEF BackupStep
  <1>37. ASSUME NEW r \in Restores, RestoreStep(r) PROVE AccountInv'
    <2> r \in RunJobs /\ r \in Jobs
      BY DEF RunJobs, Jobs
    <2> QED
      BY <1>37, <1>35, <1>9, <1>26, <1>27 DEF RestoreStep
  <1>38. ASSUME NEW j \in Others, OtherStep(j) PROVE AccountInv'
    BY <1>38, <1>4, <1>27 DEF OtherStep, Jobs
  <1>39. ASSUME NEW u \in Users,
             \/ \E S \in {{s} : s \in Stacks} \cup {Stacks} : UserTakes(u, S)
             \/ \E s \in Stacks, state \in {"running", "stopped"} : UserActs(u, s, state)
             \/ UserLeaves(u)
        PROVE  AccountInv'
    BY <1>39, <1>28, <1>29, <1>30
  <1> QED
    BY <1>1, <1>2, <1>3, <1>32, <1>33, <1>34, <1>36, <1>37, <1>38, <1>39
    DEF Next

(* For any number of stacks: a run that reads "success" left nothing out.  *)
(* Every stack it took down runs again, every stack has its item and its   *)
(* snapshot, nothing was missing or cut off, and no off-site copy failed.  *)
THEOREM SuccessIsTrue == Spec => []SuccessHidesNothing
  <1>1. Init => AccountInv
    BY DEF Init, AccountInv, NothingEarly, ItemsAreTrue, CopyIsMade, DownIsTold,
           SuccessHidesNothing, RunJobs, Ops, Jobs
  <1>2. AccountInv /\ TypeInv /\ TurnsInv /\ [Next]_vars => AccountInv'
    BY AccountStep DEF TypeInv
  <1>3. AccountInv => SuccessHidesNothing
    BY DEF AccountInv
  <1> QED
    BY <1>1, <1>2, <1>3, ServiceInductive, PTL DEF Spec

=============================================================================
