------------------------ MODULE BackupSchedulerProofs ------------------------
(***************************************************************************)
(* Theorems about the backup scheduler, for any number of settings saves,  *)
(* schedules and cycle goroutines, and any number of armings.              *)
(***************************************************************************)
EXTENDS BackupScheduler, BackupStore, FiniteSetTheorems, TLAPS

(* The generation after one that is not the last; none is armed as 0.      *)
LEMMA NextGen ==
  ASSUME NEW n \in 0 .. MaxGens
  PROVE  /\ 0 \in 0 .. MaxGens
         /\ n < MaxGens => n + 1 \in Gens /\ n + 1 \in 0 .. MaxGens /\ n + 1 # 0
  BY GensAssumption DEF Gens

(* Every step preserves the types: no arming goes beyond the generations,  *)
(* and the schedule that is armed is one that somebody stored.             *)
LEMMA TypeStep ==
  ASSUME TypeOK, [Next]_vars
  PROVE  TypeOK'
  <1> USE SavesAssumption, GensAssumption
      DEF TypeOK, Schedules, Gens, CycleStages
  <1>1. ASSUME NEW v \in Saves, NEW s \in Schedules, WriteSettings(v, s)
        PROVE  TypeOK'
    BY <1>1 DEF WriteSettings, saveVars, armVars, workVars
  <1>2. ASSUME NEW v \in Saves, StopScheduler(v) PROVE TypeOK'
    <2>1. save' \in [Saves -> {"idle", "written", "stopped", "read", "refused", "done"}]
      BY <1>2 DEF StopScheduler
    <2>2. armed' \in 0 .. MaxGens /\ saver' \in Saves \cup {None}
      BY <1>2, NextGen DEF StopScheduler, StopLocked
    <2> QED
      BY <1>2, <2>1, <2>2 DEF StopScheduler, StopLocked, workVars
  <1>3. ASSUME NEW v \in Saves, ReadSettings(v) PROVE TypeOK'
    BY <1>3 DEF ReadSettings, saveVars, armVars, workVars
  <1>4. ASSUME NEW v \in Saves, Arm(v) PROVE TypeOK'
    <2>1. /\ save' \in [Saves -> {"idle", "written", "stopped", "read", "refused", "done"}]
          /\ want' \in [Saves -> Schedules] /\ saver' \in Saves \cup {None}
      BY <1>4 DEF Arm
    <2>2. CASE want[v] = Off \/ closing # "open"
      BY <1>4, <2>1, <2>2 DEF Arm, workVars
    <2>3. CASE ~(want[v] = Off \/ closing # "open")
      <3>1. gens < MaxGens /\ gens' = gens + 1 /\ armed' = gens + 1 /\ gens \in 0 .. MaxGens
        BY <1>4, <2>3 DEF Arm
      <3>2. want[v] \in Schedules
        BY <1>4
      <3>3. config' \in [Gens -> Schedules]
        BY <1>4, <2>3, <3>2 DEF Arm
      <3>4. loop' \in [Gens -> {"none", "waiting", "fired", "begun", "ended"}]
        BY <1>4, <2>3 DEF Arm
      <3>5. gens' \in 0 .. MaxGens /\ armed' \in 0 .. MaxGens
        BY <3>1, NextGen
      <3> QED
        BY <1>4, <2>1, <2>3, <3>3, <3>4, <3>5 DEF Arm, workVars
    <2> QED
      BY <2>2, <2>3
  <1>5. ASSUME NEW g \in Gens, Fire(g) PROVE TypeOK'
    BY <1>5 DEF Fire, saveVars, armVars, workVars
  <1>6. ASSUME NEW g \in Gens, LoopEnds(g) PROVE TypeOK'
    BY <1>6 DEF LoopEnds, saveVars, armVars, workVars
  <1>7. ASSUME NEW g \in Gens, BeginCycle(g) PROVE TypeOK'
    <2>1. cycle' \in [Cycles -> CycleStages]
      BY <1>7 DEF BeginCycle
    <2>2. running' \in BOOLEAN /\ unseen' \in BOOLEAN
      BY <1>7 DEF BeginCycle
    <2>3. loop' \in [Gens -> {"none", "waiting", "fired", "begun", "ended"}]
      BY <1>7 DEF BeginCycle
    <2>4. UNCHANGED <<stored, save, want, saver, gens, config, armed,
                      stopped, verifying, guard, check, closing>>
      BY <1>7 DEF BeginCycle, saveVars, armVars
    <2> QED
      BY <2>1, <2>2, <2>3, <2>4
  <1>8. ASSUME NEW g \in Gens, Advance(g) PROVE TypeOK'
    BY <1>8 DEF Advance, saveVars, armVars, workVars
  <1>9. ASSUME NEW c \in Cycles, RunBackup(c) PROVE TypeOK'
    BY <1>9 DEF RunBackup, CycleGoes, saveVars, armVars
  <1>10. ASSUME NEW c \in Cycles, BackupEnds(c) PROVE TypeOK'
    BY <1>10 DEF BackupEnds, CycleGoes, saveVars, armVars
  <1>11. ASSUME NEW c \in Cycles, CheckIsDue(c) PROVE TypeOK'
    BY <1>11 DEF CheckIsDue, CycleGoes, saveVars, armVars
  <1>12. ASSUME NEW c \in Cycles, NoCheck(c) PROVE TypeOK'
    BY <1>12 DEF NoCheck, CycleGoes, saveVars, armVars
  <1>13. ASSUME NEW c \in Cycles, LaunchVerify(c) PROVE TypeOK'
    BY <1>13 DEF LaunchVerify, CycleGoes, saveVars, armVars
  <1>14. ASSUME NEW c \in Cycles, WaitEnds(c) PROVE TypeOK'
    BY <1>14 DEF WaitEnds, CycleGoes, saveVars, armVars
  <1>15. ASSUME NEW c \in Cycles, Verified(c) PROVE TypeOK'
    <2>1. verifying' \in BOOLEAN
      BY <1>15 DEF Verified
    <2>2. cycle' \in [Cycles -> CycleStages]
      BY <1>15 DEF Verified, CycleGoes
    <2>3. UNCHANGED <<stored, save, want, saver, gens, config, armed,
                      loop, stopped, closing, unseen, running, guard, check>>
      BY <1>15 DEF Verified, CycleGoes, saveVars, armVars
    <2> QED
      BY <2>1, <2>2, <2>3
  <1>16. ASSUME NEW c \in Cycles, CycleEnds(c) PROVE TypeOK'
    <2>1. running' \in BOOLEAN
      BY <1>16 DEF CycleEnds
    <2>2. cycle' \in [Cycles -> CycleStages]
      BY <1>16 DEF CycleEnds, CycleGoes
    <2>3. UNCHANGED <<stored, save, want, saver, gens, config, armed,
                      loop, stopped, closing, unseen, verifying, guard, check>>
      BY <1>16 DEF CycleEnds, CycleGoes, saveVars, armVars
    <2> QED
      BY <2>1, <2>2, <2>3
  <1>17. ASSUME NEW c \in Cycles, CycleLeaves(c) PROVE TypeOK'
    BY <1>17 DEF CycleLeaves, CycleGoes, saveVars, armVars
  <1>18. CASE CheckBegins
    BY <1>18 DEF CheckBegins, saveVars, armVars
  <1>19. CASE CheckEnds
    BY <1>19 DEF CheckEnds, saveVars, armVars
  <1>20. CASE OtherJob
    BY <1>20 DEF OtherJob, saveVars, armVars
  <1>21. CASE Close
    BY <1>21 DEF Close, StopLocked, saveVars, workVars
  <1>22. CASE CloseReturns
    BY <1>22 DEF CloseReturns, saveVars, armVars, workVars
  <1>23. CASE UNCHANGED vars
    BY <1>23 DEF vars
  <1> HIDE DEF TypeOK, Schedules, Gens, CycleStages
  <1>24. CASE \E v \in Saves : (\E s \in Schedules : WriteSettings(v, s)) \/ SaveStep(v)
    BY <1>24, <1>1, <1>2, <1>3, <1>4 DEF SaveStep
  <1>25. CASE \E g \in Gens : LoopStep(g)
    BY <1>25, <1>5, <1>6, <1>7, <1>8 DEF LoopStep
  <1>26. CASE \E c \in Cycles : CycleStep(c)
    BY <1>26, <1>9, <1>10, <1>11, <1>12, <1>13, <1>14, <1>15, <1>16, <1>17 DEF CycleStep
  <1> QED
    BY <1>18, <1>19, <1>20, <1>21, <1>22, <1>23, <1>24, <1>25, <1>26 DEF Next

(* The initial states have their types.                                    *)
LEMMA TypeInit == Init => TypeOK
  <1> SUFFICES ASSUME Init PROVE TypeOK
    OBVIOUS
  <1> USE GensAssumption DEF Init, Schedules, Gens, CycleStages
  <1>1. gens \in 0 .. MaxGens /\ armed \in 0 .. MaxGens
    OBVIOUS
  <1>2. config \in [Gens -> Schedules] /\ want \in [Saves -> Schedules]
    OBVIOUS
  <1>3. loop \in [Gens -> {"none", "waiting", "fired", "begun", "ended"}]
    OBVIOUS
  <1> QED
    BY <1>1, <1>2, <1>3 DEF TypeOK

-----------------------------------------------------------------------------
(* A cycle between the guard of beginCycle and its deferred reset.         *)
Active(c) == cycle[c] \notin {"idle", "leaving"}

(* The flag is set exactly while there is such a cycle, and there is one   *)
(* at most.                                                                *)
OneIsRunning ==
  /\ running <=> \E c \in Cycles : Active(c)
  /\ OneCycleAtATime

(* Close leaves the scheduler stopped for good: no arming undoes it.       *)
ClosedStaysStopped == closing # "open" => stopped /\ armed = 0

(* The flag of the weekly check is set while a cycle is at it, and a check *)
(* that is launched or runs has such a cycle waiting for it, unless the    *)
(* wait was cut short by Close.                                            *)
CheckIsWaitedFor ==
  /\ \A c \in Cycles : cycle[c] \in {"launching", "waiting", "verified"} => verifying
  /\ check # "none" /\ closing = "open" => \E c \in Cycles : cycle[c] = "waiting"

CycleInv ==
  OneIsRunning /\ ClosedStaysStopped /\ CheckIsWaitedFor /\ ClosedMeansQuiet /\ NoUnseenSkip

(* Every step keeps the cycles apart, across re-armings.                   *)
LEMMA CycleStepKeeps ==
  ASSUME TypeOK, CycleInv, [Next]_vars
  PROVE  CycleInv'
  <1> USE DEF TypeOK, CycleInv, OneIsRunning, OneCycleAtATime, ClosedStaysStopped,
          CheckIsWaitedFor, ClosedMeansQuiet, NoUnseenSkip, Active, CycleStages
  <1>1. ASSUME NEW v \in Saves, NEW s \in Schedules, WriteSettings(v, s)
        PROVE  CycleInv'
    BY <1>1 DEF WriteSettings, saveVars, armVars, workVars
  <1>2. ASSUME NEW v \in Saves, StopScheduler(v) PROVE CycleInv'
    BY <1>2 DEF StopScheduler, StopLocked, LifecycleFree, workVars
  <1>3. ASSUME NEW v \in Saves, ReadSettings(v) PROVE CycleInv'
    BY <1>3 DEF ReadSettings, saveVars, armVars, workVars
  <1>4. ASSUME NEW v \in Saves, Arm(v) PROVE CycleInv'
    BY <1>4 DEF Arm, LifecycleFree, workVars
  <1>5. ASSUME NEW g \in Gens, Fire(g) PROVE CycleInv'
    BY <1>5 DEF Fire, saveVars, armVars, workVars
  <1>6. ASSUME NEW g \in Gens, LoopEnds(g) PROVE CycleInv'
    BY <1>6 DEF LoopEnds, saveVars, armVars, workVars
  <1>7. ASSUME NEW g \in Gens, BeginCycle(g) PROVE CycleInv'
    <2>1. CASE MayBegin
      <3>1. PICK c \in Cycles : cycle[c] = "idle" /\ cycle' = [cycle EXCEPT ![c] = "starting"]
        BY <1>7, <2>1 DEF BeginCycle
      <3>2. running' = TRUE /\ closing = "open" /\ \A d \in Cycles : ~Active(d)
        BY <1>7, <2>1 DEF BeginCycle, MayBegin
      <3>3. UNCHANGED <<stopped, verifying, guard, check, closing, unseen, armed>>
        BY <1>7, <2>1 DEF BeginCycle, armVars
      <3>4. cycle'[c] = "starting" /\ \A d \in Cycles : d # c => cycle'[d] = cycle[d]
        BY <3>1
      <3>5. OneIsRunning'
        BY <3>2, <3>4
      <3>6. CheckIsWaitedFor'
        BY <3>2, <3>3, <3>4
      <3> QED
        BY <3>2, <3>3, <3>5, <3>6
    <2>2. CASE ~MayBegin
      <3>1. UNCHANGED <<stopped, running, verifying, cycle, guard, check, closing, armed>>
        BY <1>7, <2>2 DEF BeginCycle, armVars
      <3>2. ~unseen'
        BY <1>7, <2>2 DEF BeginCycle, MayBegin
      <3> QED
        BY <3>1, <3>2
    <2> QED
      BY <2>1, <2>2
  <1>8. ASSUME NEW g \in Gens, Advance(g) PROVE CycleInv'
    BY <1>8 DEF Advance, saveVars, armVars, workVars
  <1>9. ASSUME NEW c \in Cycles, RunBackup(c) PROVE CycleInv'
    <2>1. PICK to \in CycleStages \ {"idle", "leaving"} :
            cycle[c] = "starting" /\ cycle' = [cycle EXCEPT ![c] = to]
                /\ to \in {"backup", "ending"}
      BY <1>9 DEF RunBackup, CycleGoes
    <2>2. cycle'[c] = to /\ \A d \in Cycles : d # c => cycle'[d] = cycle[d]
      BY <2>1
    <2>3. UNCHANGED <<stopped, running, verifying, closing, unseen, armed, check>>
      BY <1>9 DEF RunBackup, CycleGoes, armVars
    <2>4. OneIsRunning'
      BY <2>1, <2>2, <2>3
    <2> QED
      BY <2>1, <2>2, <2>3, <2>4
  <1>10. ASSUME NEW c \in Cycles, BackupEnds(c) PROVE CycleInv'
    <2>1. PICK to \in CycleStages \ {"idle", "leaving"} :
            cycle[c] = "backup" /\ cycle' = [cycle EXCEPT ![c] = to]
                /\ to \in {"deciding", "ending"}
      BY <1>10 DEF BackupEnds, CycleGoes
    <2>2. cycle'[c] = to /\ \A d \in Cycles : d # c => cycle'[d] = cycle[d]
      BY <2>1
    <2>3. UNCHANGED <<stopped, running, verifying, closing, unseen, armed, check>>
      BY <1>10 DEF BackupEnds, CycleGoes, armVars
    <2>4. OneIsRunning'
      BY <2>1, <2>2, <2>3
    <2> QED
      BY <2>1, <2>2, <2>3, <2>4
  <1>11. ASSUME NEW c \in Cycles, CheckIsDue(c) PROVE CycleInv'
    BY <1>11 DEF CheckIsDue, CycleGoes, saveVars, armVars
  <1>12. ASSUME NEW c \in Cycles, NoCheck(c) PROVE CycleInv'
    BY <1>12 DEF NoCheck, CycleGoes, saveVars, armVars
  <1>13. ASSUME NEW c \in Cycles, LaunchVerify(c) PROVE CycleInv'
    <2>1. PICK to \in CycleStages \ {"idle", "leaving"} :
            cycle[c] = "launching" /\ cycle' = [cycle EXCEPT ![c] = to]
                /\ (to = "waiting" \/ (to = "verified" /\ check' = check))
      BY <1>13 DEF LaunchVerify, CycleGoes
    <2>2. cycle'[c] = to /\ \A d \in Cycles : d # c => cycle'[d] = cycle[d]
      BY <2>1
    <2>3. UNCHANGED <<stopped, running, verifying, closing, unseen, armed>>
      BY <1>13 DEF LaunchVerify, CycleGoes, armVars
    <2>4. OneIsRunning'
      BY <2>1, <2>2, <2>3
    <2> QED
      BY <2>1, <2>2, <2>3, <2>4
  <1>14. ASSUME NEW c \in Cycles, WaitEnds(c) PROVE CycleInv'
    BY <1>14 DEF WaitEnds, CycleGoes, saveVars, armVars
  <1>15. ASSUME NEW c \in Cycles, Verified(c) PROVE CycleInv'
    BY <1>15 DEF Verified, CycleGoes, saveVars, armVars
  <1>16. ASSUME NEW c \in Cycles, CycleEnds(c) PROVE CycleInv'
    BY <1>16 DEF CycleEnds, CycleGoes, saveVars, armVars
  <1>17. ASSUME NEW c \in Cycles, CycleLeaves(c) PROVE CycleInv'
    BY <1>17 DEF CycleLeaves, CycleGoes, saveVars, armVars
  <1>18. CASE CheckBegins
    BY <1>18 DEF CheckBegins, saveVars, armVars
  <1>19. CASE CheckEnds
    BY <1>19 DEF CheckEnds, saveVars, armVars
  <1>20. CASE OtherJob
    BY <1>20 DEF OtherJob, saveVars, armVars
  <1>21. CASE Close
    BY <1>21 DEF Close, StopLocked, saveVars, workVars
  <1>22. CASE CloseReturns
    BY <1>22 DEF CloseReturns, saveVars, armVars, workVars
  <1>23. CASE UNCHANGED vars
    BY <1>23 DEF vars
  <1> HIDE DEF TypeOK, CycleInv, OneIsRunning, OneCycleAtATime, ClosedStaysStopped,
          CheckIsWaitedFor, ClosedMeansQuiet, NoUnseenSkip, Active, CycleStages
  <1>24. CASE \E v \in Saves : (\E s \in Schedules : WriteSettings(v, s)) \/ SaveStep(v)
    BY <1>24, <1>1, <1>2, <1>3, <1>4 DEF SaveStep
  <1>25. CASE \E g \in Gens : LoopStep(g)
    BY <1>25, <1>5, <1>6, <1>7, <1>8 DEF LoopStep
  <1>26. CASE \E c \in Cycles : CycleStep(c)
    BY <1>26, <1>9, <1>10, <1>11, <1>12, <1>13, <1>14, <1>15, <1>16, <1>17 DEF CycleStep
  <1> QED
    BY <1>18, <1>19, <1>20, <1>21, <1>22, <1>23, <1>24, <1>25, <1>26 DEF Next

-----------------------------------------------------------------------------
(* The mutex of the saves: its holder, and no other save, is between the   *)
(* stop and the start, and nothing is armed meanwhile.                     *)
SaverInv ==
  /\ \A v \in Saves : save[v] \in {"stopped", "read"} <=> saver = v
  /\ saver # None => armed = 0

(* While the server is up, what is armed is what is stored, or a save has  *)
(* still to say so, or failed to: it is written, was refused, or holds the *)
(* mutex and has yet to read, or has read what is still stored.            *)
ArmedInv ==
  closing = "open" =>
    \/ \E v \in Saves : save[v] \in {"written", "refused"}
    \/ saver # None /\ (save[saver] = "read" => want[saver] = stored)
    \/ saver = None /\ IF stored = Off THEN armed = 0
                       ELSE armed # 0 /\ config[armed] = stored

SaveInv == SaverInv /\ ArmedInv /\ ClosedStaysStopped

(* Every step keeps what is stored and what is armed together.             *)
LEMMA SaveStepKeeps ==
  ASSUME TypeOK, SaveInv, [Next]_vars
  PROVE  SaveInv'
  <1> USE SavesAssumption, GensAssumption
      DEF TypeOK, SaveInv, SaverInv, ArmedInv, ClosedStaysStopped, Gens
  <1>1. ASSUME NEW v \in Saves, NEW s \in Schedules, WriteSettings(v, s)
        PROVE  SaveInv'
    BY <1>1 DEF WriteSettings, saveVars, armVars, workVars
  <1>2. ASSUME NEW v \in Saves, StopScheduler(v) PROVE SaveInv'
    BY <1>2 DEF StopScheduler, StopLocked, LifecycleFree, workVars
  <1>3. ASSUME NEW v \in Saves, ReadSettings(v) PROVE SaveInv'
    BY <1>3 DEF ReadSettings, saveVars, armVars, workVars
  <1>4. ASSUME NEW v \in Saves, Arm(v) PROVE SaveInv'
    <2>1. /\ saver = v /\ saver' = None /\ save'[v] = "done" /\ closing' = closing
          /\ \A w \in Saves : w # v => save'[w] = save[w]
      BY <1>4 DEF Arm
    <2>2. stored' = stored /\ stopped \in BOOLEAN /\ armed = 0
      BY <1>4, <2>1 DEF Arm
    <2>3. SaverInv'
      BY <2>1
    <2>4. CASE want[v] = Off \/ closing # "open"
      <3>1. armed' = armed /\ stopped' = stopped
        BY <1>4, <2>4 DEF Arm
      <3> QED
        BY <2>1, <2>2, <2>3, <2>4, <3>1, <1>4 DEF Arm
    <2>5. CASE ~(want[v] = Off \/ closing # "open")
      <3>1. /\ gens < MaxGens /\ gens \in 0 .. MaxGens /\ armed' = gens + 1
            /\ config' = [config EXCEPT ![gens + 1] = want[v]]
        BY <1>4, <2>5 DEF Arm
      <3>2. gens + 1 \in Gens /\ armed' # 0
        BY <3>1, NextGen
      <3>3. config'[armed'] = want[v]
        BY <3>1, <3>2
      <3> QED
        BY <2>1, <2>2, <2>3, <2>5, <3>2, <3>3, <1>4 DEF Arm
    <2> QED
      BY <2>4, <2>5
  <1>5. ASSUME NEW g \in Gens, Fire(g) PROVE SaveInv'
    BY <1>5 DEF Fire, saveVars, armVars, workVars
  <1>6. ASSUME NEW g \in Gens, LoopEnds(g) PROVE SaveInv'
    BY <1>6 DEF LoopEnds, saveVars, armVars, workVars
  <1>7. ASSUME NEW g \in Gens, BeginCycle(g) PROVE SaveInv'
    BY <1>7 DEF BeginCycle, MayBegin, saveVars, armVars
  <1>8. ASSUME NEW g \in Gens, Advance(g) PROVE SaveInv'
    BY <1>8 DEF Advance, saveVars, armVars, workVars
  <1>9. ASSUME NEW c \in Cycles, RunBackup(c) PROVE SaveInv'
    BY <1>9 DEF RunBackup, CycleGoes, saveVars, armVars
  <1>10. ASSUME NEW c \in Cycles, BackupEnds(c) PROVE SaveInv'
    BY <1>10 DEF BackupEnds, CycleGoes, saveVars, armVars
  <1>11. ASSUME NEW c \in Cycles, CheckIsDue(c) PROVE SaveInv'
    BY <1>11 DEF CheckIsDue, CycleGoes, saveVars, armVars
  <1>12. ASSUME NEW c \in Cycles, NoCheck(c) PROVE SaveInv'
    BY <1>12 DEF NoCheck, CycleGoes, saveVars, armVars
  <1>13. ASSUME NEW c \in Cycles, LaunchVerify(c) PROVE SaveInv'
    BY <1>13 DEF LaunchVerify, CycleGoes, saveVars, armVars
  <1>14. ASSUME NEW c \in Cycles, WaitEnds(c) PROVE SaveInv'
    BY <1>14 DEF WaitEnds, CycleGoes, saveVars, armVars
  <1>15. ASSUME NEW c \in Cycles, Verified(c) PROVE SaveInv'
    BY <1>15 DEF Verified, CycleGoes, saveVars, armVars
  <1>16. ASSUME NEW c \in Cycles, CycleEnds(c) PROVE SaveInv'
    BY <1>16 DEF CycleEnds, CycleGoes, saveVars, armVars
  <1>17. ASSUME NEW c \in Cycles, CycleLeaves(c) PROVE SaveInv'
    BY <1>17 DEF CycleLeaves, CycleGoes, saveVars, armVars
  <1>18. CASE CheckBegins
    BY <1>18 DEF CheckBegins, saveVars, armVars
  <1>19. CASE CheckEnds
    BY <1>19 DEF CheckEnds, saveVars, armVars
  <1>20. CASE OtherJob
    BY <1>20 DEF OtherJob, saveVars, armVars
  <1>21. CASE Close
    BY <1>21 DEF Close, StopLocked, saveVars, workVars
  <1>22. CASE CloseReturns
    BY <1>22 DEF CloseReturns, saveVars, armVars, workVars
  <1>23. CASE UNCHANGED vars
    BY <1>23 DEF vars
  <1> HIDE DEF TypeOK, SaveInv, SaverInv, ArmedInv, ClosedStaysStopped, Gens
  <1>24. CASE \E v \in Saves : (\E s \in Schedules : WriteSettings(v, s)) \/ SaveStep(v)
    BY <1>24, <1>1, <1>2, <1>3, <1>4 DEF SaveStep
  <1>25. CASE \E g \in Gens : LoopStep(g)
    BY <1>25, <1>5, <1>6, <1>7, <1>8 DEF LoopStep
  <1>26. CASE \E c \in Cycles : CycleStep(c)
    BY <1>26, <1>9, <1>10, <1>11, <1>12, <1>13, <1>14, <1>15, <1>16, <1>17 DEF CycleStep
  <1> QED
    BY <1>18, <1>19, <1>20, <1>21, <1>22, <1>23, <1>24, <1>25, <1>26 DEF Next

-----------------------------------------------------------------------------
(* For any number of saves, armings and cycles: one cycle at a time, none  *)
(* after a Close that saw the last one end, no backup skipped unseen       *)
(* during a check, and with no save under way the schedule that is armed   *)
(* is the one stored last.                                                 *)
THEOREM SchedulerSafe == Spec => []SchedulerInv
  <1>1. Init => TypeOK /\ CycleInv /\ SaveInv
    <2>1. Init => CycleInv
      BY DEF Init, CycleInv, OneIsRunning, OneCycleAtATime, ClosedStaysStopped,
             CheckIsWaitedFor, ClosedMeansQuiet, NoUnseenSkip, Active
    <2>2. Init => SaveInv
      BY SavesAssumption, GensAssumption
      DEF Init, SaveInv, SaverInv, ArmedInv, ClosedStaysStopped, Gens
    <2> QED
      BY <2>1, <2>2, TypeInit
  <1>2. TypeOK /\ CycleInv /\ SaveInv /\ [Next]_vars => (TypeOK /\ CycleInv /\ SaveInv)'
    BY TypeStep, CycleStepKeeps, SaveStepKeeps
  <1>3. TypeOK /\ CycleInv /\ SaveInv => SchedulerInv
    BY SavesAssumption
    DEF CycleInv, OneIsRunning, SaveInv, SaverInv, ArmedInv, SchedulerInv, SavedScheduleIsArmed, TypeOK
  <1> QED
    BY <1>1, <1>2, <1>3, PTL DEF Spec

-----------------------------------------------------------------------------
(* The copies that the scheduled backups and the other jobs work on: any   *)
(* number of snapshots, attempts, faults and saves of the settings.        *)

-----------------------------------------------------------------------------
(* The records, and how a step changes them.                               *)
LocalType == [state : LocalStates, snaps : SUBSET Snaps]
RemoteType == [state : RemoteStates, snaps : SUBSET Snaps, locks : SUBSET BOOLEAN]
JobType ==
  [kind : Kinds \cup {"none"}, step : Steps, conf : Conf,
   good : BOOLEAN, holding : BOOLEAN, retried : BOOLEAN,
   allowed : 0 .. MaxAllowed, limit : Nat, counted : SUBSET Snaps,
   removed : SUBSET Snaps, attempt : 0 .. Retries,
   populated : BOOLEAN, drift : BOOLEAN]

(* What most steps leave alone in the record of a job.                     *)
Kept ==
  /\ job'.kind = job.kind /\ job'.counted = job.counted /\ job'.limit = job.limit
  /\ job'.removed = job.removed /\ job'.attempt = job.attempt
  /\ job'.populated = job.populated /\ job'.drift = job.drift
  /\ job'.conf = job.conf

LEMMA Goes ==
  ASSUME job \in JobType, NEW s \in Steps, Go(s)
  PROVE  job' \in JobType /\ job'.step = s /\ ~job'.holding /\ job'.good = job.good /\ Kept
  BY DEF Go, JobType, Kept

LEMMA GoesBad ==
  ASSUME job \in JobType, NEW s \in Steps, GoBad(s)
  PROVE  job' \in JobType /\ job'.step = s /\ ~job'.holding /\ ~job'.good /\ Kept
  BY DEF GoBad, JobType, Kept

LEMMA TookSome ==
  ASSUME job \in JobType, NEW s \in Steps, NEW good \in BOOLEAN, NEW gone \in SUBSET Snaps, Took(gone, s, good)
  PROVE  /\ job' \in JobType /\ job'.step = s /\ job'.good = (job.good /\ good)
         /\ job'.removed = job.removed \cup gone
         /\ job'.kind = job.kind /\ job'.counted = job.counted /\ job'.limit = job.limit
         /\ job'.attempt = job.attempt /\ job'.populated = job.populated /\ job'.drift = job.drift
         /\ job'.holding = job.holding
  BY DEF Took, JobType

LEMMA TriedAgain ==
  ASSUME job \in JobType, NEW gone \in SUBSET Snaps, job.attempt < Retries,
         job' = [job EXCEPT !.removed = @ \cup gone, !.attempt = @ + 1]
  PROVE  /\ job' \in JobType /\ job'.step = job.step /\ job'.good = job.good
         /\ job'.removed = job.removed \cup gone
         /\ job'.kind = job.kind /\ job'.counted = job.counted /\ job'.limit = job.limit
         /\ job'.attempt = job.attempt + 1 /\ job'.populated = job.populated /\ job'.drift = job.drift
         /\ job'.holding = job.holding
  <1>1. job.attempt + 1 \in 0 .. Retries
    BY StoreAssumption DEF JobType
  <1> QED
    BY <1>1 DEF JobType

LEMMA Drifts ==
  ASSUME job \in JobType, job' = [job EXCEPT !.drift = TRUE]
  PROVE  /\ job' \in JobType /\ job'.step = job.step /\ job'.good = job.good
         /\ job'.removed = job.removed
         /\ job'.kind = job.kind /\ job'.counted = job.counted /\ job'.limit = job.limit
         /\ job'.attempt = job.attempt /\ job'.populated = job.populated /\ job'.drift
         /\ job'.holding = job.holding
  BY DEF JobType

LEMMA NoJobType ==
  /\ NoJob \in JobType
  /\ NoJob.kind = "none" /\ NoJob.step = "idle" /\ NoJob.removed = {} /\ ~NoJob.holding /\ ~NoJob.drift
  BY StoreAssumption DEF NoJob, JobType, Conf, Steps, Kinds

-----------------------------------------------------------------------------
(* The steps of each kind of job.                                          *)
KindStep ==
  /\ job.kind = "none" <=> job.step = "idle"
  /\ job.holding => job.step \in Locking
  /\ job.step \in {"stage", "keepdb", "unstage", "dbforget", "backup", "forget"} => job.kind = "backup"
  /\ job.step \in {"probe", "list", "ask", "count", "mirror"} => job.kind \in {"backup", "sync"}
  /\ job.step \in {"find", "fetch", "open", "reopen"} => job.kind = "dr"
  /\ job.step = "prune" => job.kind = "prune"
  /\ job.step = "check" => job.kind = "verify"
  /\ job.step = "restore" => job.kind = "restore"

LEMMA ThenSteps ==
  ASSUME NEW ok \in BOOLEAN, job.step \in Locking \cup {"stage", "unstage"}
  PROVE  /\ Then(job.step, ok) \in Steps
         /\ Then(job.step, ok) \in {"keepdb", "unstage", "dbforget", "backup", "forget", "probe", "done"}
         /\ job.step \in {"prune", "check", "restore"} => Then(job.step, ok) = "done"
         /\ job.step = "stage" => Then(job.step, ok) = IF ok THEN "keepdb" ELSE "backup"
         /\ job.step = "keepdb" => Then(job.step, ok) = "unstage"
         /\ job.step \notin {"stage", "keepdb"} =>
              Then(job.step, ok) \notin {"keepdb", "unstage"}
  BY DEF Then, AfterStacks, Locking, Steps

LEMMA JobIs == ASSUME StoreTypeOK PROVE job \in JobType
  BY DEF StoreTypeOK, JobType

LEMMA StepNames ==
  /\ {"resolve", "resolveRemote", "stage", "unstage", "probe", "list", "ask", "count", "mirror",
      "find", "fetch", "open", "reopen", "done", "idle"} \subseteq Steps
  /\ 1 \in 0 .. Retries
  <1>1. 1 \in 0 .. Retries
    <2>1. Retries \in Nat \ {0}
      BY StoreAssumption
    <2> QED
      BY <2>1
  <1> QED
    BY <1>1 DEF Kinds, Steps, Locking

LEMMA FirstSteps ==
  /\ FirstStep("backup") = "stage" /\ FirstStep("sync") = "probe" /\ FirstStep("dr") = "find"
  /\ FirstStep("prune") = "prune" /\ FirstStep("verify") = "check" /\ FirstStep("restore") = "restore"
  /\ {"stage", "probe", "find", "prune", "check", "restore"} \subseteq Steps
  BY DEF Steps, Locking, FirstStep

LEMMA LeftOver == ASSUME StoreTypeOK PROVE RemoteOnly \in SUBSET Snaps
  BY DEF StoreTypeOK, RemoteOnly

LEMMA CapIs ==
  ASSUME StoreTypeOK
  PROVE  Limit \in Nat /\ Cardinality(RemoteOnly) \in Nat
  <1>1. IsFiniteSet(Snaps)
    BY StoreAssumption, FS_Interval DEF Snaps
  <1>2. IsFiniteSet(local.snaps) /\ IsFiniteSet(RemoteOnly)
    BY <1>1, FS_Subset DEF StoreTypeOK, RemoteOnly
  <1>3. Cardinality(local.snaps) \in Nat /\ Cardinality(RemoteOnly) \in Nat
    BY <1>2, FS_CardinalityType
  <1>4. (Cardinality(local.snaps) * Percent) \div 100 \in Nat
    <2>1. Percent \in Nat
      BY StoreAssumption
    <2>2. Cardinality(local.snaps) * Percent \in Nat
      BY <1>3, <2>1
    <2> DEFINE n == Cardinality(local.snaps) * Percent
    <2>3. n \in Nat => n \div 100 \in Nat
      <3> HIDE DEF n
      <3> QED
        OBVIOUS
    <2> QED
      BY <2>2, <2>3
  <1>5. Cap \in Nat
    BY <1>4, StoreAssumption DEF Cap, Larger
  <1> QED
    BY <1>3, <1>5 DEF Limit, Larger, StoreTypeOK

LEMMA AttemptsGo ==
  ASSUME job \in JobType, NEW gone \in SUBSET Snaps, AttemptFails(gone)
  PROVE  /\ job'.kind = job.kind /\ job'.holding = job.holding
         /\ job'.counted = job.counted /\ job'.limit = job.limit
         /\ job'.populated = job.populated /\ job'.drift = job.drift
         /\ job'.removed = job.removed \cup gone
         /\ \/ job'.step = job.step /\ job'.attempt = job.attempt + 1 /\ job'.good = job.good
            \/ job'.step = "done" /\ job'.attempt = job.attempt /\ ~job'.good
  <1>1. CASE Took(gone, "done", FALSE)
    BY <1>1, TookSome, StepNames
  <1>2. CASE job.attempt < Retries /\ job' = [job EXCEPT !.removed = @ \cup gone, !.attempt = @ + 1]
    BY <1>2, TriedAgain
  <1> QED
    BY <1>1, <1>2 DEF AttemptFails

LEMMA Attempts ==
  ASSUME job \in JobType, NEW gone \in SUBSET Snaps, AttemptFails(gone)
  PROVE  job' \in JobType
  <1>1. CASE Took(gone, "done", FALSE)
    BY <1>1, TookSome, StepNames
  <1>2. CASE job.attempt < Retries /\ job' = [job EXCEPT !.removed = @ \cup gone, !.attempt = @ + 1]
    BY <1>2, TriedAgain
  <1> QED
    BY <1>1, <1>2 DEF AttemptFails

(* How the steps that write several fields leave the job.                  *)
Onward(steps) ==
  /\ job' \in JobType /\ job'.kind = job.kind
  /\ (job'.good => job.good) /\ (job'.holding => job.holding)
  /\ job'.step \in steps /\ (job'.step = "done" => ~job'.good)

LEMMA BadGoes ==
  ASSUME StoreTypeOK, NEW s \in Steps, GoBad(s), NEW steps, s \in steps
  PROVE  Onward(steps) /\ Kept
  BY JobIs, GoesBad DEF Onward, Kept

LEMMA ProbeGoes ==
  ASSUME StoreTypeOK, Probe
  PROVE  Onward({"list", "done"}) /\ job'.removed = job.removed
  <1>1. CASE GoBad("done")
    BY <1>1, BadGoes, StepNames DEF Kept
  <1>2. CASE job' = [job EXCEPT !.step = "list", !.drift = FALSE]
    BY <1>2, JobIs, StepNames DEF JobType, Onward
  <1> QED
    BY <1>1, <1>2 DEF Probe

LEMMA ListGoes ==
  ASSUME StoreTypeOK, List
  PROVE  /\ Onward({"ask", "count", "done"}) /\ job'.removed = job.removed
         /\ job'.drift = job.drift /\ (job'.step = "count" => job'.populated)
  <1>1. CASE GoBad("done")
    <2>1. job'.step = "done"
      BY <1>1, JobIs, GoesBad, StepNames
    <2> QED
      BY <1>1, <2>1, BadGoes, StepNames DEF Kept
  <1>2. ASSUME NEW s \in {"ask", "count"}, NEW p \in BOOLEAN, s = "count" => p,
               job' = [job EXCEPT !.populated = p, !.step = s]
        PROVE  /\ Onward({"ask", "count", "done"}) /\ job'.removed = job.removed
               /\ job'.drift = job.drift /\ (job'.step = "count" => job'.populated)
    BY <1>2, JobIs, StepNames DEF JobType, Onward
  <1>3. CASE job' = [job EXCEPT !.populated = local.snaps # {},
                                !.step = IF local.snaps = {} THEN "ask" ELSE "count"]
    <2>1. CASE local.snaps = {}
      BY <1>2, <1>3, <2>1
    <2>2. CASE local.snaps # {}
      BY <1>2, <1>3, <2>2
    <2> QED
      BY <2>1, <2>2
  <1> QED
    BY <1>1, <1>3 DEF List

LEMMA CountGoes ==
  ASSUME StoreTypeOK, Count
  PROVE  Onward({"mirror", "done"}) /\ job'.drift = job.drift
  <1>1. CASE GoBad("done")
    BY <1>1, BadGoes, StepNames DEF Kept
  <1>2. CASE job' = [job EXCEPT !.step = "mirror", !.counted = RemoteOnly,
                                !.limit = Limit, !.removed = {}, !.attempt = 1]
    BY <1>2, JobIs, StepNames, CapIs, LeftOver DEF JobType, Onward
  <1> QED
    BY <1>1, <1>2 DEF Count

LEMMA FindGoes ==
  ASSUME StoreTypeOK, Find
  PROVE  Onward({"fetch", "done"}) /\ job'.removed = job.removed
  <1>1. CASE GoBad("done")
    BY <1>1, BadGoes, StepNames DEF Kept
  <1>2. CASE job' = [job EXCEPT !.step = "fetch", !.attempt = 1, !.drift = FALSE]
    BY <1>2, JobIs, StepNames DEF JobType, Onward
  <1> QED
    BY <1>1, <1>2 DEF Find

LEMMA RefusedGoes ==
  ASSUME StoreTypeOK, ResticRefused
  PROVE  /\ job' \in JobType /\ job'.kind = job.kind /\ ~job'.holding
         /\ job'.removed = job.removed /\ job.step \in Locking
         /\ \/ job'.step = job.step /\ job'.good = job.good
            \/ job'.step = Then(job.step, FALSE) /\ ~job'.good
  <1>1. job.step \in Locking /\ ~job.holding
    BY DEF ResticRefused
  <1>2. CASE GoBad(Then(job.step, FALSE))
    BY <1>1, <1>2, JobIs, GoesBad, ThenSteps DEF Kept
  <1>3. CASE job' = [job EXCEPT !.retried = TRUE]
    BY <1>1, <1>3, JobIs DEF JobType
  <1> QED
    BY <1>2, <1>3 DEF ResticRefused

(* The record of the job keeps its type.                                   *)
LEMMA JobTyped ==
  ASSUME StoreTypeOK, KindStep, [StoreNext]_storeVars
  PROVE  job' \in JobType
  <1>1. ASSUME NEW kind \in Kinds, NEW allowed \in 0 .. MaxAllowed, Launch(kind, allowed)
        PROVE  job' \in JobType
    BY <1>1, NoJobType, StepNames DEF Launch, At, outside, JobType
  <1>2. CASE Resolve
    BY <1>2, JobIs, StepNames DEF Resolve, At, outside, JobType, Conf,
       StoreTypeOK
  <1>3. CASE ResolveRemote
    <2>1. FirstStep(job.kind) \in Steps
      BY <1>3, FirstSteps, JobIs DEF ResolveRemote, At, KindStep, JobType,
         Kinds
    <2>2. CASE GoBad("done")
      BY <2>2, JobIs, GoesBad, StepNames
    <2>3. ASSUME NEW s \in Steps, job' = [job EXCEPT !.step = s, !.conf.remote = conf.remote]
          PROVE  job' \in JobType
      BY <2>3, JobIs DEF JobType, Conf, StoreTypeOK
    <2> QED
      BY <1>3, <2>1, <2>2, <2>3 DEF ResolveRemote, At, outside
  <1>4. CASE ResolveRefused
    BY <1>4, JobIs, Goes, GoesBad, ThenSteps, StepNames DEF ResolveRefused,
       At, Fault, outside
  <1>5. CASE JobEnds
    BY <1>5, NoJobType DEF JobEnds, At, outside
  <1>6. CASE ResticStarts
    BY <1>6, JobIs DEF ResticStarts, outside, JobType
  <1>7. CASE ResticRefused
    BY <1>7, RefusedGoes
  <1>8. CASE ResticWorks
    BY <1>8, JobIs, Goes, GoesBad, ThenSteps, StepNames DEF ResticWorks, At,
       outside, KindStep
  <1>9. CASE ResticFails
    BY <1>9, JobIs, Goes, GoesBad, ThenSteps, StepNames DEF ResticFails,
       Fault, outside
  <1>10. CASE Stage
    BY <1>10, JobIs, Goes, GoesBad, StepNames, ThenSteps DEF Stage, At, Fault,
       outside, Steps, Locking
  <1>11. CASE Unstage
    BY <1>11, JobIs, Goes, GoesBad, ThenSteps, StepNames DEF Unstage, At,
       Fault, outside
  <1>12. CASE Probe
    BY <1>12, ProbeGoes DEF Onward
  <1>13. CASE List
    BY <1>13, ListGoes DEF Onward
  <1>14. CASE Ask
    BY <1>14, JobIs, Goes, GoesBad, ThenSteps, StepNames DEF Ask, At, Fault,
       outside
  <1>15. CASE Count
    BY <1>15, CountGoes DEF Onward
  <1>16. CASE MirrorWorks
    BY <1>16, JobIs, TookSome, StepNames, LeftOver DEF MirrorWorks, At,
       outside
  <1>17. CASE MirrorTrips
    BY <1>17, JobIs, TookSome, StepNames, LeftOver DEF MirrorTrips, At,
       outside
  <1>18. CASE MirrorFails
    <2>1. PICK gone \in SUBSET Snaps : AttemptFails(gone)
      BY <1>18, LeftOver DEF MirrorFails, At, Fault, outside
    <2> QED
      BY <2>1, Attempts, JobIs
  <1>19. CASE Find
    BY <1>19, FindGoes DEF Onward
  <1>20. CASE FetchWorks
    BY <1>20, JobIs, Goes, GoesBad, ThenSteps, StepNames DEF FetchWorks, At
  <1>21. CASE FetchFails
    BY <1>21, Attempts, JobIs DEF FetchFails, At, Fault, outside
  <1>22. CASE Open
    BY <1>22, JobIs, Goes, GoesBad, StepNames DEF Open, At, Fault, outside,
       JobType
  <1>23. CASE InitChecks \/ InitRuns \/ SaveSettings \/ OtherEnds \/ LockAges
    BY <1>23, JobIs DEF InitChecks, InitRuns, SaveSettings, OtherEnds, Fault,
       LockAges
  <1>24. CASE LocalLost
    BY <1>24, JobIs, Drifts DEF LocalLost, Fault
  <1>25. CASE RemoteGains
    BY <1>25, JobIs, Drifts DEF RemoteGains, Fault
  <1>26. CASE Crash
    BY <1>26, NoJobType DEF Crash, Fault
  <1>27. ASSUME NEW excl \in BOOLEAN, OtherBegins(excl) PROVE job' \in JobType
    BY <1>27, JobIs DEF OtherBegins, Fault
  <1>28. CASE UNCHANGED storeVars
    BY <1>28, JobIs DEF storeVars
  <1> QED
    BY <1>1, <1>2, <1>3, <1>4, <1>5, <1>6, <1>7, <1>8, <1>9, <1>10, <1>11,
       <1>12, <1>13, <1>14, <1>15, <1>16, <1>17, <1>18, <1>19, <1>20, <1>21,
       <1>22, <1>23, <1>24, <1>25, <1>26, <1>27, <1>28
       DEF StoreNext, JobStep, Restic, Sync, DR, Around

(* The two copies and what a restore kept.                                 *)
Copies ==
  /\ local \in LocalType /\ remote \in RemoteType
  /\ kept \subseteq Snaps /\ written \in 0 .. MaxSnaps

LEMMA CopiesAre == StoreTypeOK => Copies
  BY DEF StoreTypeOK, Copies, LocalType, RemoteType

LEMMA NextSnap ==
  ASSUME Copies, written < MaxSnaps
  PROVE  written + 1 \in 0 .. MaxSnaps /\ written + 1 \in Snaps
  BY StoreAssumption DEF Copies, Snaps

LEMMA LocksAre ==
  ASSUME StoreTypeOK
  PROVE  LockKinds \in SUBSET BOOLEAN
  BY DEF StoreTypeOK, LockKinds, Lock

LEMMA CopiesTyped ==
  ASSUME StoreTypeOK, [StoreNext]_storeVars
  PROVE  Copies'
  <1> Copies
    BY CopiesAre
  <1>1. ASSUME NEW kind \in Kinds, NEW allowed \in 0 .. MaxAllowed, Launch(kind, allowed)
        PROVE  Copies'
    BY <1>1 DEF Launch, At, outside, Copies
  <1>2. CASE    Resolve \/ ResolveRefused \/ JobEnds \/ ResticStarts
             \/ ResticRefused \/ ResticFails \/ Stage \/ Unstage \/ Probe
             \/ List \/ Ask \/ Count \/ Find \/ Open \/ InitChecks
             \/ SaveSettings \/ OtherEnds \/ LockAges \/ Crash
    BY <1>2 DEF Resolve, At, outside, ResolveRefused, Fault, JobEnds,
       ResticStarts, ResticRefused, ResticFails, Stage, Unstage, Probe, List,
       Ask, Count, Find, Open, InitChecks, SaveSettings, OtherEnds, LockAges,
       Crash, Copies
  <1>3. CASE ResolveRemote
    BY <1>3 DEF ResolveRemote, At, outside, Copies, LocalType, RemoteType,
       LocalStates, RemoteStates
  <1>4. CASE ResticWorks
    BY <1>4, NextSnap DEF ResticWorks, At, outside, Copies, LocalType
  <1>5. CASE MirrorWorks
    BY <1>5, LocksAre DEF MirrorWorks, At, outside, Copies, LocalType,
       RemoteType, RemoteStates, MirrorOf
  <1>6. CASE MirrorTrips
    BY <1>6 DEF MirrorTrips, At, outside, Copies, LocalType, RemoteType,
       LocalStates, RemoteStates, RemoteOnly
  <1>7. CASE MirrorFails
    <2>1. UNCHANGED <<local, kept, written>>
      BY <1>7 DEF MirrorFails, outside
    <2>2. CASE UNCHANGED remote
      BY <2>1, <2>2 DEF Copies
    <2>3. ASSUME NEW copied \in SUBSET local.snaps,
                 remote' = [remote EXCEPT !.snaps = @ \cup copied,
                              !.state = IF @ = "none" /\ copied # {} THEN "partial" ELSE @]
          PROVE  Copies'
      <3>1. remote'.snaps \subseteq Snaps /\ remote'.locks = remote.locks
        BY <2>3 DEF Copies, LocalType, RemoteType
      <3>2. remote'.state \in RemoteStates
        BY <2>3 DEF Copies, RemoteType, RemoteStates
      <3>3. remote' = [state |-> remote'.state, snaps |-> remote'.snaps, locks |-> remote'.locks]
        BY <2>3 DEF Copies, RemoteType
      <3> QED
        BY <2>1, <3>1, <3>2, <3>3 DEF Copies, RemoteType
    <2>4. ASSUME NEW gone \in SUBSET RemoteOnly,
                 remote' = [remote EXCEPT !.snaps = (@ \ gone) \cup local.snaps]
          PROVE  Copies'
      BY <2>1, <2>4 DEF Copies, LocalType, RemoteType
    <2> QED
      BY <1>7, <2>2, <2>3, <2>4 DEF MirrorFails
  <1>8. CASE FetchWorks
    BY <1>8 DEF FetchWorks, At, Copies, LocalType, RemoteType, LocalStates,
       RemoteStates
  <1>9. CASE FetchFails
    BY <1>9 DEF FetchFails, At, Fault, outside, Copies, LocalType, RemoteType,
       LocalStates, RemoteStates
  <1>10. CASE InitRuns
    BY <1>10 DEF InitRuns, Copies, LocalType, RemoteType, LocalStates,
       RemoteStates
  <1>11. CASE LocalLost
    BY <1>11 DEF LocalLost, Fault, Copies, LocalType, RemoteType, LocalStates,
       RemoteStates
  <1>12. CASE RemoteGains
    BY <1>12, NextSnap DEF RemoteGains, Fault, Copies, RemoteType
  <1>13. ASSUME NEW excl \in BOOLEAN, OtherBegins(excl) PROVE Copies'
    BY <1>13 DEF OtherBegins, Fault, Copies
  <1>14. CASE UNCHANGED storeVars
    BY <1>14 DEF storeVars, Copies
  <1> QED
    BY <1>1, <1>2, <1>3, <1>4, <1>5, <1>6, <1>7, <1>8, <1>9, <1>10, <1>11,
       <1>12, <1>13, <1>14 DEF StoreNext, JobStep, Restic, Sync, DR, Around

(* The lock files.                                                         *)
LEMMA JobLockIs == JobLock \in Lock
  <1>1. Exclusive(job.step) \in BOOLEAN
    BY DEF Exclusive
  <1> QED
    BY <1>1 DEF JobLock, Lock

LEMMA LocksTyped ==
  ASSUME StoreTypeOK, [StoreNext]_storeVars
  PROVE  locks' \subseteq Lock
  <1>1. ASSUME NEW kind \in Kinds, NEW allowed \in 0 .. MaxAllowed, Launch(kind, allowed)
        PROVE  locks' \subseteq Lock
    BY <1>1 DEF Launch, At, outside, StoreTypeOK
  <1>2. CASE    Resolve \/ ResolveRemote \/ ResolveRefused \/ JobEnds \/ Stage
             \/ Unstage \/ Probe \/ List \/ Ask \/ Count \/ MirrorWorks
             \/ MirrorTrips \/ MirrorFails \/ Find \/ FetchFails \/ InitChecks
             \/ InitRuns \/ SaveSettings \/ RemoteGains
    BY <1>2 DEF Resolve, At, outside, ResolveRemote, ResolveRefused, Fault,
       JobEnds, Stage, Unstage, Probe, List, Ask, Count, MirrorWorks,
       MirrorTrips, MirrorFails, Find, FetchFails, InitChecks, InitRuns,
       SaveSettings, RemoteGains, StoreTypeOK
  <1>3. CASE ResticStarts
    BY <1>3, JobLockIs DEF ResticStarts, outside, StoreTypeOK
  <1>4. CASE ResticRefused
    BY <1>4 DEF ResticRefused, outside, StoreTypeOK, Lock, JobLock, Exclusive,
       Unlocked
  <1>5. CASE ResticWorks
    BY <1>5 DEF ResticWorks, At, outside, StoreTypeOK, Lock, JobLock,
       Exclusive, Unlocked
  <1>6. CASE ResticFails
    BY <1>6 DEF ResticFails, Fault, outside, StoreTypeOK, Lock, JobLock,
       Exclusive, Unlocked
  <1>7. CASE FetchWorks
    BY <1>7 DEF FetchWorks, At, CopiedLocks
  <1>8. CASE Open
    BY <1>8 DEF Open, At, Fault, outside, StoreTypeOK, Lock, JobLock,
       Exclusive, Unlocked
  <1>9. CASE OtherEnds
    BY <1>9 DEF OtherEnds, Fault, StoreTypeOK, Lock, JobLock, Exclusive,
       Unlocked
  <1>10. CASE LockAges
    BY <1>10 DEF LockAges, StoreTypeOK, Lock, JobLock, Exclusive, Unlocked
  <1>11. CASE LocalLost
    BY <1>11 DEF LocalLost, Fault
  <1>12. CASE Crash
    BY <1>12 DEF Crash, Fault, StoreTypeOK, Lock, JobLock, Exclusive, Unlocked
  <1>13. ASSUME NEW excl \in BOOLEAN, OtherBegins(excl)
        PROVE  locks' \subseteq Lock
    BY <1>13 DEF OtherBegins, Fault, StoreTypeOK, Lock, JobLock, Exclusive,
       Unlocked
  <1>14. CASE UNCHANGED storeVars
    BY <1>14 DEF storeVars, StoreTypeOK
  <1> QED
    BY <1>1, <1>2, <1>3, <1>4, <1>5, <1>6, <1>7, <1>8, <1>9, <1>10, <1>11,
       <1>12, <1>13, <1>14 DEF StoreNext, JobStep, Restic, Sync, DR, Around

(* What moves around the job.                                              *)
Rest ==
  /\ other \in {"none", "shared", "exclusive"}
  /\ initing \in BOOLEAN /\ staged \in BOOLEAN /\ conf \in Conf
  /\ faults \in 0 .. MaxFaults /\ saves \in 0 .. MaxSaves

LEMMA MoreFaults ==
  ASSUME Rest, Fault
  PROVE  faults' \in 0 .. MaxFaults
  BY StoreAssumption DEF Rest, Fault


LEMMA RestTyped ==
  ASSUME StoreTypeOK, [StoreNext]_storeVars
  PROVE  Rest'
  <1> Rest
    BY DEF StoreTypeOK, Rest
  <1>1. ASSUME NEW kind \in Kinds, NEW allowed \in 0 .. MaxAllowed, Launch(kind, allowed)
        PROVE  Rest'
    BY <1>1 DEF Launch, At, outside, Rest
  <1>2. CASE    Resolve \/ ResolveRemote \/ JobEnds \/ ResticStarts
             \/ ResticRefused \/ ResticWorks \/ List \/ MirrorWorks
             \/ MirrorTrips \/ FetchWorks \/ InitChecks \/ InitRuns
             \/ LockAges
    BY <1>2 DEF Resolve, At, outside, ResolveRemote, JobEnds, ResticStarts,
       ResticRefused, ResticWorks, List, MirrorWorks, MirrorTrips, FetchWorks,
       InitChecks, InitRuns, LockAges, Rest
  <1>3. CASE    ResolveRefused \/ ResticFails \/ Stage \/ Unstage \/ Probe
             \/ Ask \/ Count \/ MirrorFails \/ Find \/ FetchFails \/ Open
             \/ OtherEnds \/ LocalLost \/ RemoteGains \/ Crash
    BY <1>3, MoreFaults DEF ResolveRefused, At, outside, ResticFails,
       Stage, Unstage, Probe, Ask, Count, MirrorFails, Find, FetchFails, Open,
       OtherEnds, LocalLost, RemoteGains, Crash, Rest
  <1>4. CASE SaveSettings
    BY <1>4, StoreAssumption DEF SaveSettings, Rest
  <1>5. ASSUME NEW excl \in BOOLEAN, OtherBegins(excl) PROVE Rest'
    BY <1>5, MoreFaults DEF OtherBegins, Rest
  <1>6. CASE UNCHANGED storeVars
    BY <1>6 DEF storeVars, Rest
  <1> QED
    BY <1>1, <1>2, <1>3, <1>4, <1>5, <1>6
       DEF StoreNext, JobStep, Restic, Sync, DR, Around

LEMMA StoreTypeStep ==
  ASSUME StoreTypeOK, KindStep, [StoreNext]_storeVars
  PROVE  StoreTypeOK'
  BY JobTyped, CopiesTyped, LocksTyped, RestTyped
     DEF StoreTypeOK, JobType, Copies, LocalType, RemoteType, Rest

-----------------------------------------------------------------------------
(* The inductive invariant.                                                *)

(* An outsider's restic has its own lock file in the repository.           *)
OtherIsLocked ==
  other # "none" => [by |-> "other", excl |-> (other = "exclusive")] \in locks

(* At the count, a repository that opened empty was found to have nothing  *)
(* on the other side; from the listing on, it is there.                    *)
Listed ==
  /\ job.step \in {"list", "ask", "count", "mirror"} /\ ~job.drift => local.state = "repo"
  /\ job.step = "count" /\ ~job.drift => job.populated \/ remote.snaps = {}

(* A mirror still has one attempt's worth of deletions left, and what it   *)
(* would delete now was counted.                                           *)
Counted ==
  /\ job.step \notin {"mirror", "done"} => job.removed = {}
  /\ job.step = "mirror" =>
       /\ Cardinality(job.counted) <= job.limit /\ 1 <= job.attempt
       /\ Cardinality(job.removed) <= job.limit * (job.attempt - 1)
       /\ ~job.drift =>
            /\ RemoteOnly \cup job.removed \subseteq job.counted
            /\ job.counted # {} => job.populated

(* A restore that has fetched has all of the remote; one that succeeded    *)
(* has opened it.                                                          *)
Fetched ==
  /\ job.step \in {"open", "reopen"} /\ ~job.drift =>
       local.state \in {"repo", "broken"} /\ remote.snaps \subseteq local.snaps
  /\ job.kind = "dr" /\ job.step = "done" /\ job.good /\ ~job.drift =>
       local.state = "repo" /\ remote.snaps \subseteq local.snaps

StoreIInv ==
  /\ StoreTypeOK /\ KindStep /\ OtherIsLocked /\ ExclusiveIsAlone /\ PlaintextIsKnown
  /\ Listed /\ Counted /\ SyncTakesOnlyWhatWasCounted /\ Fetched

(* The kind of the job goes with its steps, and only restic's steps hold.  *)
LEMMA KindsStep ==
  ASSUME StoreTypeOK, KindStep, [StoreNext]_storeVars
  PROVE  KindStep'
  <1>1. ASSUME NEW kind \in Kinds, NEW allowed \in 0 .. MaxAllowed, Launch(kind, allowed)
        PROVE  KindStep'
    BY <1>1 DEF Launch, At, outside, KindStep, Kinds, NoJob
  <1>2. CASE Resolve
    BY <1>2, JobIs DEF Resolve, At, outside, KindStep, JobType, Locking
  <1>3. CASE ResolveRemote
    <2>1. CASE GoBad("done")
      BY <1>3, <2>1, JobIs, GoesBad, StepNames DEF ResolveRemote, At,
         KindStep, Kept
    <2>2. CASE job' =
            [job EXCEPT !.step = FirstStep(job.kind), !.conf.remote = conf.remote]
      <3>1. job'.kind = job.kind /\ job'.holding = job.holding /\ job'.step = FirstStep(job.kind)
        BY <2>2, JobIs DEF JobType
      <3>2. job.kind \in Kinds /\ ~job.holding
        BY <1>3, JobIs DEF ResolveRemote, At, KindStep, JobType, Locking
      <3> QED
        BY <3>1, <3>2, FirstSteps DEF KindStep, Kinds
    <2> QED
      BY <1>3, <2>1, <2>2 DEF ResolveRemote
  <1>4. CASE ResolveRefused
    BY <1>4, JobIs, Goes, GoesBad, StepNames DEF ResolveRefused, At, Fault,
       outside, KindStep, Kept, Locking
  <1>5. CASE JobEnds
    BY <1>5, NoJobType DEF JobEnds, At, outside, KindStep
  <1>6. CASE ResticStarts
    BY <1>6, JobIs DEF ResticStarts, outside, KindStep, JobType
  <1>7. CASE ResticRefused
    BY <1>7, RefusedGoes, ThenSteps DEF KindStep, Locking
  <1>8. CASE ResticWorks
    BY <1>8, JobIs, Goes, ThenSteps DEF ResticWorks, At, outside, KindStep,
       Kept, Locking
  <1>9. CASE ResticFails
    BY <1>9, JobIs, GoesBad, ThenSteps DEF ResticFails, Fault, outside,
       KindStep, Kept, Locking
  <1>10. CASE Stage
    BY <1>10, JobIs, Goes, GoesBad, StepNames, ThenSteps DEF Stage, At, Fault,
       outside, KindStep, Kept, Locking, Steps
  <1>11. CASE Unstage
    BY <1>11, JobIs, Goes, GoesBad, ThenSteps DEF Unstage, At, Fault, outside,
       KindStep, Kept, Locking
  <1>12. CASE Probe
    BY <1>12, ProbeGoes DEF Onward, Probe, At, KindStep, Locking
  <1>13. CASE List
    BY <1>13, ListGoes DEF Onward, List, At, KindStep, Locking
  <1>14. CASE Ask
    BY <1>14, JobIs, Goes, GoesBad, StepNames DEF Ask, At, Fault, outside,
       KindStep, Kept, Locking
  <1>15. CASE Count
    BY <1>15, CountGoes DEF Onward, Count, At, KindStep, Locking
  <1>16. CASE MirrorWorks
    BY <1>16, JobIs, TookSome, StepNames, LeftOver DEF MirrorWorks, At,
       outside, KindStep, Locking
  <1>17. CASE MirrorTrips
    <2>1. PICK gone \in SUBSET RemoteOnly : Took(gone, "done", FALSE)
      BY <1>17 DEF MirrorTrips, At, outside
    <2>2. gone \in SUBSET Snaps
      BY <2>1, LeftOver
    <2> QED
      BY <1>17, <2>1, <2>2, JobIs, TookSome, StepNames DEF MirrorTrips, At,
         KindStep, Locking
  <1>18. CASE MirrorFails
    <2>1. PICK gone \in SUBSET Snaps : AttemptFails(gone)
      BY <1>18, LeftOver DEF MirrorFails, At, Fault, outside
    <2> QED
      BY <1>18, <2>1, AttemptsGo, JobIs DEF MirrorFails, At, KindStep, Locking
  <1>19. CASE Find
    BY <1>19, FindGoes DEF Onward, Find, At, KindStep, Locking
  <1>20. CASE FetchWorks
    BY <1>20, JobIs, Goes, StepNames DEF FetchWorks, At, KindStep, Kept,
       Locking
  <1>21. CASE FetchFails
    BY <1>21, AttemptsGo, JobIs DEF FetchFails, At, Fault, outside, KindStep,
       Locking
  <1>22. CASE Open
    BY <1>22, JobIs, Goes, GoesBad, StepNames DEF Open, At, Fault, outside,
       KindStep, Kept, JobType, Locking
  <1>23. CASE InitChecks \/ InitRuns \/ SaveSettings \/ OtherEnds \/ LockAges
    BY <1>23 DEF InitChecks, InitRuns, SaveSettings, OtherEnds, Fault,
       LockAges, KindStep
  <1>24. CASE LocalLost
    BY <1>24, JobIs, Drifts DEF LocalLost, Fault, KindStep
  <1>25. CASE RemoteGains
    BY <1>25, JobIs, Drifts DEF RemoteGains, Fault, KindStep
  <1>26. CASE Crash
    BY <1>26, NoJobType DEF Crash, Fault, KindStep
  <1>27. ASSUME NEW excl \in BOOLEAN, OtherBegins(excl) PROVE KindStep'
    BY <1>27 DEF OtherBegins, Fault, KindStep
  <1>28. CASE UNCHANGED storeVars
    BY <1>28 DEF storeVars, KindStep
  <1> QED
    BY <1>1, <1>2, <1>3, <1>4, <1>5, <1>6, <1>7, <1>8, <1>9, <1>10, <1>11,
       <1>12, <1>13, <1>14, <1>15, <1>16, <1>17, <1>18, <1>19, <1>20, <1>21,
       <1>22, <1>23, <1>24, <1>25, <1>26, <1>27, <1>28
       DEF StoreNext, JobStep, Restic, Sync, DR, Around

(* Only an outsider removes its own lock, or all that was there goes.      *)
LEMMA OtherStep ==
  ASSUME StoreTypeOK, OtherIsLocked, [StoreNext]_storeVars
  PROVE  OtherIsLocked'
  <1>1. ASSUME NEW kind \in Kinds, NEW allowed \in 0 .. MaxAllowed, Launch(kind, allowed)
        PROVE  OtherIsLocked'
    BY <1>1 DEF Launch, At, outside, OtherIsLocked
  <1>2. CASE    Resolve \/ ResolveRemote \/ ResolveRefused \/ JobEnds \/ Stage
             \/ Unstage \/ Probe \/ List \/ Ask \/ Count \/ MirrorWorks
             \/ MirrorTrips \/ MirrorFails \/ Find \/ FetchFails \/ InitChecks
             \/ InitRuns \/ SaveSettings \/ RemoteGains
    BY <1>2 DEF Resolve, At, outside, ResolveRemote, ResolveRefused, Fault,
       JobEnds, Stage, Unstage, Probe, List, Ask, Count, MirrorWorks,
       MirrorTrips, MirrorFails, Find, FetchFails, InitChecks, InitRuns,
       SaveSettings, RemoteGains, OtherIsLocked
  <1>3. CASE ResticStarts
    BY <1>3 DEF ResticStarts, outside, OtherIsLocked, JobLock, Unlocked
  <1>4. CASE ResticRefused
    BY <1>4 DEF ResticRefused, outside, OtherIsLocked, JobLock, Unlocked
  <1>5. CASE ResticWorks
    BY <1>5 DEF ResticWorks, At, outside, OtherIsLocked, JobLock, Unlocked
  <1>6. CASE ResticFails
    BY <1>6 DEF ResticFails, Fault, outside, OtherIsLocked, JobLock, Unlocked
  <1>7. CASE FetchWorks
    BY <1>7 DEF FetchWorks, At, OtherIsLocked, JobLock, Unlocked
  <1>8. CASE Open
    BY <1>8 DEF Open, At, Fault, outside, OtherIsLocked, JobLock, Unlocked
  <1>9. CASE OtherEnds
    BY <1>9 DEF OtherEnds, Fault, OtherIsLocked, JobLock, Unlocked
  <1>10. CASE LockAges
    BY <1>10 DEF LockAges, OtherIsLocked, JobLock, Unlocked
  <1>11. CASE LocalLost
    BY <1>11 DEF LocalLost, Fault, OtherIsLocked, JobLock, Unlocked
  <1>12. CASE Crash
    BY <1>12 DEF Crash, Fault, OtherIsLocked, JobLock, Unlocked
  <1>13. ASSUME NEW excl \in BOOLEAN, OtherBegins(excl) PROVE OtherIsLocked'
    BY <1>13 DEF OtherBegins, Fault, OtherIsLocked
  <1>14. CASE UNCHANGED storeVars
    BY <1>14 DEF storeVars, OtherIsLocked
  <1> QED
    BY <1>1, <1>2, <1>3, <1>4, <1>5, <1>6, <1>7, <1>8, <1>9, <1>10, <1>11,
       <1>12, <1>13, <1>14 DEF StoreNext, JobStep, Restic, Sync, DR, Around

(* A restic that holds goes on holding the same lock or stops.            *)
LEMMA AloneKept ==
  ASSUME ExclusiveIsAlone,
         job'.holding => job.holding /\ job'.step = job.step,
         \A l \in locks' : l.by = "job" => l \in locks,
         other' \in {other, "none"}
  PROVE  ExclusiveIsAlone'
  BY DEF ExclusiveIsAlone, JobLock

(* restic starts only where its lock may be taken, and so does another's.  *)
LEMMA AloneStep ==
  ASSUME StoreTypeOK, KindStep, OtherIsLocked, ExclusiveIsAlone, [StoreNext]_storeVars
  PROVE  ExclusiveIsAlone'
  <1>1. ASSUME NEW kind \in Kinds, NEW allowed \in 0 .. MaxAllowed, Launch(kind, allowed)
        PROVE  ExclusiveIsAlone'
    <2>1. ~job'.holding
      BY <1>1, NoJobType DEF Launch, NoJob
    <2> QED
      BY <2>1 DEF ExclusiveIsAlone
  <1>2. CASE Resolve
    <2>1. job'.holding => job.holding /\ job'.step = job.step
      BY <1>2, JobIs, GoesBad, StepNames DEF Resolve, At, outside, JobType,
         KindStep, Locking
    <2>2. (\A l \in locks' : l.by = "job" => l \in locks) /\ other' \in {other, "none"}
      BY <1>2 DEF Resolve, At, outside
    <2> QED
      BY <2>1, <2>2, AloneKept
  <1>3. CASE ResolveRemote
    <2>1. job'.holding => job.holding /\ job'.step = job.step
      BY <1>3, JobIs, GoesBad, StepNames DEF ResolveRemote, At, outside,
         JobType, KindStep, Locking
    <2>2. (\A l \in locks' : l.by = "job" => l \in locks) /\ other' \in {other, "none"}
      BY <1>3 DEF ResolveRemote, At, outside
    <2> QED
      BY <2>1, <2>2, AloneKept
  <1>4. CASE ResolveRefused
    <2>1. job'.holding => job.holding /\ job'.step = job.step
      BY <1>4, JobIs, Goes, GoesBad, StepNames, ThenSteps DEF ResolveRefused,
         At, Fault, outside, Steps
    <2>2. (\A l \in locks' : l.by = "job" => l \in locks) /\ other' \in {other, "none"}
      BY <1>4 DEF ResolveRefused, At, Fault, outside
    <2> QED
      BY <2>1, <2>2, AloneKept
  <1>5. CASE JobEnds
    <2>1. job'.holding => job.holding /\ job'.step = job.step
      BY <1>5, JobIs, NoJobType DEF JobEnds, At, outside
    <2>2. (\A l \in locks' : l.by = "job" => l \in locks) /\ other' \in {other, "none"}
      BY <1>5 DEF JobEnds, At, outside
    <2> QED
      BY <2>1, <2>2, AloneKept
  <1>6. CASE ResticStarts
    <2>1. other' = other /\ job'.step = job.step
      BY <1>6, JobIs DEF ResticStarts, outside, JobType
    <2>2. other # "none" => ~Exclusive(job.step) /\ other # "exclusive"
      BY <1>6 DEF ResticStarts, CanTake, OtherIsLocked
    <2>3. other \in {"none", "shared", "exclusive"}
      BY DEF StoreTypeOK
    <2> QED
      BY <2>1, <2>2, <2>3 DEF ExclusiveIsAlone, Exclusive
  <1>7. CASE ResticRefused
    <2>1. job'.holding => job.holding /\ job'.step = job.step
      BY <1>7, RefusedGoes
    <2>2. (\A l \in locks' : l.by = "job" => l \in locks) /\ other' \in {other, "none"}
      BY <1>7 DEF ResticRefused, outside, Unlocked
    <2> QED
      BY <2>1, <2>2, AloneKept
  <1>8. CASE ResticWorks
    <2>1. job'.holding => job.holding /\ job'.step = job.step
      BY <1>8, JobIs, Goes, ThenSteps DEF ResticWorks, At, outside, KindStep
    <2>2. (\A l \in locks' : l.by = "job" => l \in locks) /\ other' \in {other, "none"}
      BY <1>8 DEF ResticWorks, At, outside
    <2> QED
      BY <2>1, <2>2, AloneKept
  <1>9. CASE ResticFails
    <2>1. job'.holding => job.holding /\ job'.step = job.step
      BY <1>9, JobIs, Goes, GoesBad, StepNames, ThenSteps DEF ResticFails,
         Fault, outside, Steps
    <2>2. (\A l \in locks' : l.by = "job" => l \in locks) /\ other' \in {other, "none"}
      BY <1>9 DEF ResticFails, Fault, outside
    <2> QED
      BY <2>1, <2>2, AloneKept
  <1>10. CASE Stage
    <2>1. job'.holding => job.holding /\ job'.step = job.step
      BY <1>10, JobIs, Goes, GoesBad, StepNames, ThenSteps DEF Stage, At,
         Fault, outside, Steps
    <2>2. (\A l \in locks' : l.by = "job" => l \in locks) /\ other' \in {other, "none"}
      BY <1>10 DEF Stage, At, Fault, outside
    <2> QED
      BY <2>1, <2>2, AloneKept
  <1>11. CASE Unstage
    <2>1. job'.holding => job.holding /\ job'.step = job.step
      BY <1>11, JobIs, Goes, GoesBad, StepNames, ThenSteps DEF Unstage, At,
         Fault, outside, Steps
    <2>2. (\A l \in locks' : l.by = "job" => l \in locks) /\ other' \in {other, "none"}
      BY <1>11 DEF Unstage, At, Fault, outside
    <2> QED
      BY <2>1, <2>2, AloneKept
  <1>12. CASE Probe
    <2>1. job'.holding => job.holding /\ job'.step = job.step
      BY <1>12, ProbeGoes DEF Onward, Probe, At, KindStep, Locking
    <2>2. (\A l \in locks' : l.by = "job" => l \in locks) /\ other' \in {other, "none"}
      BY <1>12 DEF Probe, At, Fault, outside
    <2> QED
      BY <2>1, <2>2, AloneKept
  <1>13. CASE List
    <2>1. job'.holding => job.holding /\ job'.step = job.step
      BY <1>13, ListGoes DEF Onward, List, At, KindStep, Locking
    <2>2. (\A l \in locks' : l.by = "job" => l \in locks) /\ other' \in {other, "none"}
      BY <1>13 DEF List, At, outside
    <2> QED
      BY <2>1, <2>2, AloneKept
  <1>14. CASE Ask
    <2>1. job'.holding => job.holding /\ job'.step = job.step
      BY <1>14, JobIs, Goes, GoesBad, StepNames, ThenSteps DEF Ask, At, Fault,
         outside, Steps
    <2>2. (\A l \in locks' : l.by = "job" => l \in locks) /\ other' \in {other, "none"}
      BY <1>14 DEF Ask, At, Fault, outside
    <2> QED
      BY <2>1, <2>2, AloneKept
  <1>15. CASE Count
    <2>1. job'.holding => job.holding /\ job'.step = job.step
      BY <1>15, CountGoes DEF Onward, Count, At, KindStep, Locking
    <2>2. (\A l \in locks' : l.by = "job" => l \in locks) /\ other' \in {other, "none"}
      BY <1>15 DEF Count, At, Fault, outside
    <2> QED
      BY <2>1, <2>2, AloneKept
  <1>16. CASE MirrorWorks
    <2>1. job'.holding => job.holding /\ job'.step = job.step
      BY <1>16, JobIs, LeftOver, TookSome, StepNames DEF MirrorWorks, At,
         outside, KindStep, Locking
    <2>2. (\A l \in locks' : l.by = "job" => l \in locks) /\ other' \in {other, "none"}
      BY <1>16 DEF MirrorWorks, At, outside
    <2> QED
      BY <2>1, <2>2, AloneKept
  <1>17. CASE MirrorTrips
    <2>1. job'.holding => job.holding /\ job'.step = job.step
      BY <1>17, JobIs, LeftOver, TookSome, StepNames DEF MirrorTrips, At,
         outside, KindStep, Locking
    <2>2. (\A l \in locks' : l.by = "job" => l \in locks) /\ other' \in {other, "none"}
      BY <1>17 DEF MirrorTrips, At, outside
    <2> QED
      BY <2>1, <2>2, AloneKept
  <1>18. CASE MirrorFails
    <2>1. job'.holding => job.holding /\ job'.step = job.step
      BY <1>18, JobIs, LeftOver, AttemptsGo DEF MirrorFails, At, Fault,
         outside, KindStep, Locking
    <2>2. (\A l \in locks' : l.by = "job" => l \in locks) /\ other' \in {other, "none"}
      BY <1>18 DEF MirrorFails, At, Fault, outside
    <2> QED
      BY <2>1, <2>2, AloneKept
  <1>19. CASE Find
    <2>1. job'.holding => job.holding /\ job'.step = job.step
      BY <1>19, FindGoes DEF Onward, Find, At, KindStep, Locking
    <2>2. (\A l \in locks' : l.by = "job" => l \in locks) /\ other' \in {other, "none"}
      BY <1>19 DEF Find, At, Fault, outside
    <2> QED
      BY <2>1, <2>2, AloneKept
  <1>20. CASE FetchWorks
    <2>1. job'.holding => job.holding /\ job'.step = job.step
      BY <1>20, JobIs, Goes, StepNames DEF FetchWorks, At, Steps
    <2>2. (\A l \in locks' : l.by = "job" => l \in locks) /\ other' \in {other, "none"}
      BY <1>20 DEF FetchWorks, At, CopiedLocks
    <2> QED
      BY <2>1, <2>2, AloneKept
  <1>21. CASE FetchFails
    <2>1. job'.holding => job.holding /\ job'.step = job.step
      BY <1>21, JobIs, AttemptsGo DEF FetchFails, At, Fault, outside,
         KindStep, Locking
    <2>2. (\A l \in locks' : l.by = "job" => l \in locks) /\ other' \in {other, "none"}
      BY <1>21 DEF FetchFails, At, Fault, outside
    <2> QED
      BY <2>1, <2>2, AloneKept
  <1>22. CASE Open
    <2>1. job'.holding => job.holding /\ job'.step = job.step
      BY <1>22, JobIs, Goes, GoesBad, StepNames DEF Open, At, Fault, outside,
         JobType, KindStep, Locking
    <2>2. (\A l \in locks' : l.by = "job" => l \in locks) /\ other' \in {other, "none"}
      BY <1>22 DEF Open, At, Fault, outside, Unlocked
    <2> QED
      BY <2>1, <2>2, AloneKept
  <1>23. CASE InitChecks \/ InitRuns \/ SaveSettings \/ OtherEnds \/ LockAges
    <2>1. job'.holding => job.holding /\ job'.step = job.step
      BY <1>23 DEF InitChecks, InitRuns, SaveSettings, OtherEnds, Fault,
         LockAges
    <2>2. (\A l \in locks' : l.by = "job" => l \in locks) /\ other' \in {other, "none"}
      BY <1>23 DEF InitChecks, InitRuns, SaveSettings, OtherEnds, Fault,
         LockAges
    <2> QED
      BY <2>1, <2>2, AloneKept
  <1>24. CASE LocalLost
    <2>1. job'.holding => job.holding /\ job'.step = job.step
      BY <1>24, JobIs, Drifts DEF LocalLost, Fault
    <2>2. (\A l \in locks' : l.by = "job" => l \in locks) /\ other' \in {other, "none"}
      BY <1>24 DEF LocalLost, Fault
    <2> QED
      BY <2>1, <2>2, AloneKept
  <1>25. CASE RemoteGains
    <2>1. job'.holding => job.holding /\ job'.step = job.step
      BY <1>25, JobIs, Drifts DEF RemoteGains, Fault
    <2>2. (\A l \in locks' : l.by = "job" => l \in locks) /\ other' \in {other, "none"}
      BY <1>25 DEF RemoteGains, Fault
    <2> QED
      BY <2>1, <2>2, AloneKept
  <1>26. CASE Crash
    <2>1. job'.holding => job.holding /\ job'.step = job.step
      BY <1>26, JobIs, NoJobType DEF Crash, Fault
    <2>2. (\A l \in locks' : l.by = "job" => l \in locks) /\ other' \in {other, "none"}
      BY <1>26 DEF Crash, Fault
    <2> QED
      BY <2>1, <2>2, AloneKept
  <1>27. ASSUME NEW excl \in BOOLEAN, OtherBegins(excl)
        PROVE  ExclusiveIsAlone'
    <2>1. job' = job /\ locks' = locks \cup {[by |-> "other", excl |-> excl]}
          /\ other' = IF excl THEN "exclusive" ELSE "shared"
      BY <1>27 DEF OtherBegins, Fault
    <2>2. JobLock \in locks => ~excl /\ ~JobLock.excl
      BY <1>27 DEF OtherBegins, CanTake, JobLock
    <2>3. JobLock' = JobLock /\ JobLock # [by |-> "other", excl |-> excl]
      BY <2>1 DEF JobLock, Exclusive
    <2> QED
      BY <2>1, <2>2, <2>3 DEF ExclusiveIsAlone, JobLock, Exclusive
  <1>28. CASE UNCHANGED storeVars
    <2>1. job'.holding => job.holding /\ job'.step = job.step
      BY <1>28 DEF storeVars
    <2>2. (\A l \in locks' : l.by = "job" => l \in locks) /\ other' \in {other, "none"}
      BY <1>28 DEF storeVars
    <2> QED
      BY <2>1, <2>2, AloneKept
  <1> QED
    BY <1>1, <1>2, <1>3, <1>4, <1>5, <1>6, <1>7, <1>8, <1>9, <1>10, <1>11,
       <1>12, <1>13, <1>14, <1>15, <1>16, <1>17, <1>18, <1>19, <1>20, <1>21,
       <1>22, <1>23, <1>24, <1>25, <1>26, <1>27, <1>28
       DEF StoreNext, JobStep, Restic, Sync, DR, Around

(* What a job goes on with is as good as what it did.                      *)
Early == {"resolve", "resolveRemote", "stage", "keepdb", "unstage"}

LEMMA PlainKept ==
  ASSUME PlaintextIsKnown, job'.kind = job.kind, job'.good => job.good,
         job'.step \in Early \/ job.step \notin Early,
         staged' = staged
  PROVE  PlaintextIsKnown'
  BY DEF PlaintextIsKnown, Early

(* A copy is staged before it is kept, and one that stays is a failure.     *)
LEMMA PlainStep ==
  ASSUME StoreTypeOK, KindStep, PlaintextIsKnown, [StoreNext]_storeVars
  PROVE  PlaintextIsKnown'
  <1>1. ASSUME NEW kind \in Kinds, NEW allowed \in 0 .. MaxAllowed, Launch(kind, allowed)
        PROVE  PlaintextIsKnown'
    <2>1. job'.step = "resolve"
      BY <1>1, NoJobType DEF Launch, NoJob
    <2> QED
      BY <2>1 DEF PlaintextIsKnown
  <1>2. CASE Resolve
    <2>1. /\ job'.kind = job.kind /\ (job'.good => job.good)
          /\ job'.step \in Early \/ job.step \notin Early
      BY <1>2, JobIs, GoesBad, StepNames DEF Resolve, At, outside, Kept,
         Early, JobType
    <2>2. staged' = staged
      BY <1>2 DEF Resolve, At, outside
    <2> QED
      BY <2>1, <2>2, PlainKept
  <1>3. CASE ResolveRemote
    <2>1. CASE GoBad("done")
      BY <2>1, JobIs, GoesBad, StepNames DEF PlaintextIsKnown
    <2>2. CASE job' =
            [job EXCEPT !.step = FirstStep(job.kind), !.conf.remote = conf.remote]
      <3>1. job'.kind = job.kind /\ job'.step = FirstStep(job.kind)
        BY <2>2, JobIs DEF JobType
      <3> QED
        BY <3>1, FirstSteps DEF PlaintextIsKnown
    <2> QED
      BY <1>3, <2>1, <2>2 DEF ResolveRemote
  <1>4. CASE ResolveRefused
    BY <1>4, JobIs, GoesBad, StepNames DEF ResolveRefused, At, Fault, outside,
       PlaintextIsKnown
  <1>5. CASE JobEnds
    BY <1>5, NoJobType DEF JobEnds, At, outside, PlaintextIsKnown
  <1>6. CASE ResticStarts
    <2>1. /\ job'.kind = job.kind /\ (job'.good => job.good)
          /\ job'.step \in Early \/ job.step \notin Early
      BY <1>6, JobIs, GoesBad, StepNames DEF ResticStarts, outside, Kept,
         Early, JobType
    <2>2. staged' = staged
      BY <1>6 DEF ResticStarts, outside
    <2> QED
      BY <2>1, <2>2, PlainKept
  <1>7. CASE ResticRefused
    <2>1. CASE job.step \in {"keepdb"}
      <3>1. job'.step = "unstage" \/ job'.step = "keepdb"
        BY <1>7, <2>1, RefusedGoes, ThenSteps
      <3> QED
        BY <3>1 DEF PlaintextIsKnown
    <2>2. CASE job.step \notin {"keepdb"}
      <3>1. /\ job'.kind = job.kind /\ (job'.good => job.good)
            /\ job'.step \in Early \/ job.step \notin Early
        BY <1>7, <2>2, RefusedGoes, ThenSteps DEF Early, Locking
      <3>2. staged' = staged
        BY <1>7 DEF ResticRefused, outside
      <3> QED
        BY <3>1, <3>2, PlainKept
    <2> QED
      BY <2>1, <2>2
  <1>8. CASE ResticWorks
    <2>1. CASE job.step \in {"keepdb"}
      <3>1. job'.step = "unstage" \/ job'.step = "keepdb"
        BY <1>8, <2>1, JobIs, Goes, ThenSteps DEF ResticWorks, At, outside,
           Locking, KindStep
      <3> QED
        BY <3>1 DEF PlaintextIsKnown
    <2>2. CASE job.step \notin {"keepdb"}
      <3>1. /\ job'.kind = job.kind /\ (job'.good => job.good)
            /\ job'.step \in Early \/ job.step \notin Early
        BY <1>8, <2>2, JobIs, Goes, ThenSteps DEF ResticWorks, At, outside,
           Locking, KindStep, Kept, Early
      <3>2. staged' = staged
        BY <1>8 DEF ResticWorks, At, outside
      <3> QED
        BY <3>1, <3>2, PlainKept
    <2> QED
      BY <2>1, <2>2
  <1>9. CASE ResticFails
    <2>1. CASE job.step \in {"keepdb"}
      <3>1. job'.step = "unstage" \/ job'.step = "keepdb"
        BY <1>9, <2>1, JobIs, GoesBad, ThenSteps DEF ResticFails, Fault,
           outside, Locking
      <3> QED
        BY <3>1 DEF PlaintextIsKnown
    <2>2. CASE job.step \notin {"keepdb"}
      <3>1. /\ job'.kind = job.kind /\ (job'.good => job.good)
            /\ job'.step \in Early \/ job.step \notin Early
        BY <1>9, <2>2, JobIs, GoesBad, ThenSteps DEF ResticFails, Fault,
           outside, Locking, Kept, Early
      <3>2. staged' = staged
        BY <1>9 DEF ResticFails, Fault, outside
      <3> QED
        BY <3>1, <3>2, PlainKept
    <2> QED
      BY <2>1, <2>2
  <1>10. CASE Stage
    <2>1. job'.step = "keepdb" \/ ~job'.good
      BY <1>10, JobIs, Goes, GoesBad, StepNames, ThenSteps DEF Stage, At,
         Fault, outside, Locking, Steps
    <2> QED
      BY <2>1 DEF PlaintextIsKnown
  <1>11. CASE Unstage
    <2>1. ~staged' \/ ~job'.good
      BY <1>11, JobIs, GoesBad, ThenSteps DEF Unstage, At, Fault, outside
    <2> QED
      BY <2>1 DEF PlaintextIsKnown
  <1>12. CASE Probe
    <2>1. /\ job'.kind = job.kind /\ (job'.good => job.good)
          /\ job'.step \in Early \/ job.step \notin Early
      BY <1>12, ProbeGoes DEF Onward, Probe, At, Early
    <2>2. staged' = staged
      BY <1>12 DEF Probe, At, Fault, outside
    <2> QED
      BY <2>1, <2>2, PlainKept
  <1>13. CASE List
    <2>1. /\ job'.kind = job.kind /\ (job'.good => job.good)
          /\ job'.step \in Early \/ job.step \notin Early
      BY <1>13, ListGoes DEF Onward, List, At, Early
    <2>2. staged' = staged
      BY <1>13 DEF List, At, outside
    <2> QED
      BY <2>1, <2>2, PlainKept
  <1>14. CASE Ask
    <2>1. /\ job'.kind = job.kind /\ (job'.good => job.good)
          /\ job'.step \in Early \/ job.step \notin Early
      BY <1>14, JobIs, Goes, GoesBad, StepNames DEF Ask, At, Fault, outside,
         Kept, Early
    <2>2. staged' = staged
      BY <1>14 DEF Ask, At, Fault, outside
    <2> QED
      BY <2>1, <2>2, PlainKept
  <1>15. CASE Count
    <2>1. /\ job'.kind = job.kind /\ (job'.good => job.good)
          /\ job'.step \in Early \/ job.step \notin Early
      BY <1>15, CountGoes DEF Onward, Count, At, Early
    <2>2. staged' = staged
      BY <1>15 DEF Count, At, Fault, outside
    <2> QED
      BY <2>1, <2>2, PlainKept
  <1>16. CASE MirrorWorks
    <2>1. /\ job'.kind = job.kind /\ (job'.good => job.good)
          /\ job'.step \in Early \/ job.step \notin Early
      BY <1>16, JobIs, LeftOver, TookSome, StepNames DEF MirrorWorks, At,
         outside, Early
    <2>2. staged' = staged
      BY <1>16 DEF MirrorWorks, At, outside
    <2> QED
      BY <2>1, <2>2, PlainKept
  <1>17. CASE MirrorTrips
    <2>1. /\ job'.kind = job.kind /\ (job'.good => job.good)
          /\ job'.step \in Early \/ job.step \notin Early
      BY <1>17, JobIs, LeftOver, TookSome, StepNames DEF MirrorTrips, At,
         outside, Early
    <2>2. staged' = staged
      BY <1>17 DEF MirrorTrips, At, outside
    <2> QED
      BY <2>1, <2>2, PlainKept
  <1>18. CASE MirrorFails
    <2>1. /\ job'.kind = job.kind /\ (job'.good => job.good)
          /\ job'.step \in Early \/ job.step \notin Early
      BY <1>18, JobIs, LeftOver, AttemptsGo DEF MirrorFails, At, Fault,
         outside, Early
    <2>2. staged' = staged
      BY <1>18 DEF MirrorFails, At, Fault, outside
    <2> QED
      BY <2>1, <2>2, PlainKept
  <1>19. CASE Find
    <2>1. /\ job'.kind = job.kind /\ (job'.good => job.good)
          /\ job'.step \in Early \/ job.step \notin Early
      BY <1>19, FindGoes DEF Onward, Find, At, Early
    <2>2. staged' = staged
      BY <1>19 DEF Find, At, Fault, outside
    <2> QED
      BY <2>1, <2>2, PlainKept
  <1>20. CASE FetchWorks
    <2>1. /\ job'.kind = job.kind /\ (job'.good => job.good)
          /\ job'.step \in Early \/ job.step \notin Early
      BY <1>20, JobIs, Goes, GoesBad, StepNames DEF FetchWorks, At, Kept,
         Early
    <2>2. staged' = staged
      BY <1>20 DEF FetchWorks, At
    <2> QED
      BY <2>1, <2>2, PlainKept
  <1>21. CASE FetchFails
    <2>1. /\ job'.kind = job.kind /\ (job'.good => job.good)
          /\ job'.step \in Early \/ job.step \notin Early
      BY <1>21, JobIs, AttemptsGo DEF FetchFails, At, Fault, outside, Early
    <2>2. staged' = staged
      BY <1>21 DEF FetchFails, At, Fault, outside
    <2> QED
      BY <2>1, <2>2, PlainKept
  <1>22. CASE Open
    <2>1. /\ job'.kind = job.kind /\ (job'.good => job.good)
          /\ job'.step \in Early \/ job.step \notin Early
      BY <1>22, JobIs, Goes, GoesBad, StepNames DEF Open, At, Fault, outside,
         JobType, Kept, Early
    <2>2. staged' = staged
      BY <1>22 DEF Open, At, Fault, outside
    <2> QED
      BY <2>1, <2>2, PlainKept
  <1>23. CASE InitChecks \/ InitRuns \/ SaveSettings \/ OtherEnds \/ LockAges
    <2>1. /\ job'.kind = job.kind /\ (job'.good => job.good)
          /\ job'.step \in Early \/ job.step \notin Early
      BY <1>23 DEF InitChecks, InitRuns, SaveSettings, OtherEnds, Fault,
         LockAges
    <2>2. staged' = staged
      BY <1>23 DEF InitChecks, InitRuns, SaveSettings, OtherEnds, Fault,
         LockAges
    <2> QED
      BY <2>1, <2>2, PlainKept
  <1>24. CASE LocalLost
    <2>1. /\ job'.kind = job.kind /\ (job'.good => job.good)
          /\ job'.step \in Early \/ job.step \notin Early
      BY <1>24, JobIs, Drifts DEF LocalLost, Fault
    <2>2. staged' = staged
      BY <1>24 DEF LocalLost, Fault
    <2> QED
      BY <2>1, <2>2, PlainKept
  <1>25. CASE RemoteGains
    <2>1. /\ job'.kind = job.kind /\ (job'.good => job.good)
          /\ job'.step \in Early \/ job.step \notin Early
      BY <1>25, JobIs, Drifts DEF RemoteGains, Fault
    <2>2. staged' = staged
      BY <1>25 DEF RemoteGains, Fault
    <2> QED
      BY <2>1, <2>2, PlainKept
  <1>26. CASE Crash
    BY <1>26, NoJobType DEF Crash, Fault, PlaintextIsKnown
  <1>27. ASSUME NEW excl \in BOOLEAN, OtherBegins(excl)
        PROVE  PlaintextIsKnown'
    <2>1. /\ job'.kind = job.kind /\ (job'.good => job.good)
          /\ job'.step \in Early \/ job.step \notin Early
      BY <1>27 DEF OtherBegins, Fault
    <2>2. staged' = staged
      BY <1>27 DEF OtherBegins, Fault
    <2> QED
      BY <2>1, <2>2, PlainKept
  <1>28. CASE UNCHANGED storeVars
    <2>1. /\ job'.kind = job.kind /\ (job'.good => job.good)
          /\ job'.step \in Early \/ job.step \notin Early
      BY <1>28 DEF storeVars
    <2>2. staged' = staged
      BY <1>28 DEF storeVars
    <2> QED
      BY <2>1, <2>2, PlainKept
  <1> QED
    BY <1>1, <1>2, <1>3, <1>4, <1>5, <1>6, <1>7, <1>8, <1>9, <1>10, <1>11,
       <1>12, <1>13, <1>14, <1>15, <1>16, <1>17, <1>18, <1>19, <1>20, <1>21,
       <1>22, <1>23, <1>24, <1>25, <1>26, <1>27, <1>28
       DEF StoreNext, JobStep, Restic, Sync, DR, Around

(* Unless something drifted, the repository a sync listed is still there.   *)
LEMMA ListedStep ==
  ASSUME StoreTypeOK, KindStep, Listed, [StoreNext]_storeVars
  PROVE  Listed'
  <1>1. ASSUME NEW kind \in Kinds, NEW allowed \in 0 .. MaxAllowed, Launch(kind, allowed)
        PROVE  Listed'
    <2>1. job'.step \notin {"list", "ask", "count", "mirror"}
      BY <1>1, NoJobType DEF Launch, NoJob
    <2> QED
      BY <2>1 DEF Listed
  <1>2. CASE Resolve
    <2>1. job'.step \notin {"list", "ask", "count", "mirror"}
      BY <1>2, JobIs, GoesBad, StepNames DEF Resolve, At, outside, JobType
    <2> QED
      BY <2>1 DEF Listed
  <1>3. CASE ResolveRemote
    <2>1. CASE GoBad("done")
      BY <2>1, JobIs, GoesBad, StepNames DEF Listed
    <2>2. CASE job' =
            [job EXCEPT !.step = FirstStep(job.kind), !.conf.remote = conf.remote]
      <3>1. job'.step = FirstStep(job.kind)
        BY <2>2, JobIs DEF JobType
      <3>2. job.kind \in Kinds
        BY <1>3, JobIs DEF ResolveRemote, At, KindStep, JobType
      <3> QED
        BY <3>1, <3>2, FirstSteps DEF Listed, Kinds
    <2> QED
      BY <1>3, <2>1, <2>2 DEF ResolveRemote
  <1>4. CASE ResolveRefused
    <2>1. job'.step \notin {"list", "ask", "count", "mirror"}
      BY <1>4, JobIs, GoesBad, StepNames DEF ResolveRefused, At, Fault,
         outside
    <2> QED
      BY <2>1 DEF Listed
  <1>5. CASE JobEnds
    <2>1. job'.step \notin {"list", "ask", "count", "mirror"}
      BY <1>5, JobIs, NoJobType DEF JobEnds, At, outside
    <2> QED
      BY <2>1 DEF Listed
  <1>6. CASE ResticStarts
    <2>1. /\ job'.step = job.step /\ job'.populated = job.populated /\ job'.drift = job.drift
          /\ local' = local /\ remote' = remote
      BY <1>6, JobIs DEF ResticStarts, outside, JobType
    <2> QED
      BY <2>1 DEF Listed
  <1>7. CASE ResticRefused
    <2>1. /\ job.step \notin {"list", "ask", "count", "mirror"}
          /\ job'.step \notin {"list", "ask", "count", "mirror"}
      BY <1>7, RefusedGoes, ThenSteps DEF Locking
    <2> QED
      BY <2>1 DEF Listed
  <1>8. CASE ResticWorks
    <2>1. job'.step \notin {"list", "ask", "count", "mirror"}
      BY <1>8, JobIs, Goes, ThenSteps DEF ResticWorks, At, outside, KindStep,
         Locking
    <2> QED
      BY <2>1 DEF Listed
  <1>9. CASE ResticFails
    <2>1. job'.step \notin {"list", "ask", "count", "mirror"}
      BY <1>9, JobIs, Goes, GoesBad, ThenSteps DEF ResticFails, Fault,
         outside, Locking, Steps
    <2> QED
      BY <2>1 DEF Listed
  <1>10. CASE Stage
    <2>1. job'.step \notin {"list", "ask", "count", "mirror"}
      BY <1>10, JobIs, Goes, GoesBad, StepNames, ThenSteps DEF Stage, At,
         Fault, outside, Locking, Steps
    <2> QED
      BY <2>1 DEF Listed
  <1>11. CASE Unstage
    <2>1. job'.step \notin {"list", "ask", "count", "mirror"}
      BY <1>11, JobIs, Goes, GoesBad, ThenSteps DEF Unstage, At, Fault,
         outside, Locking, Steps
    <2> QED
      BY <2>1 DEF Listed
  <1>12. CASE Probe
    <2>1. job'.step \in {"list", "done"}
      BY <1>12, ProbeGoes DEF Onward
    <2>2. (Opens \/ job'.step = "done") /\ local' = local
      BY <1>12, JobIs, GoesBad, StepNames DEF Probe, outside
    <2> QED
      BY <2>1, <2>2 DEF Listed, Opens
  <1>13. CASE List
    <2>1. /\ job'.step \in {"ask", "count", "done"} /\ job'.drift = job.drift
          /\ job'.step = "count" => job'.populated
      BY <1>13, ListGoes DEF Onward
    <2>2. (Opens \/ job'.step = "done") /\ local' = local
      BY <1>13, JobIs, GoesBad, StepNames DEF List
    <2> QED
      BY <2>1, <2>2 DEF Listed, Opens
  <1>14. CASE Ask
    <2>1. /\ job'.step = "done" \/ (job'.step = "count" /\ remote.snaps = {})
          /\ job'.drift = job.drift /\ job.step = "ask" /\ local' = local /\ remote' = remote
      BY <1>14, JobIs, Goes, GoesBad, StepNames DEF Ask, At, Fault, outside,
         Kept
    <2> QED
      BY <2>1 DEF Listed
  <1>15. CASE Count
    <2>1. /\ job'.step \in {"done", "mirror"} /\ job.step = "count"
          /\ job'.drift = job.drift /\ local' = local
      BY <1>15, CountGoes DEF Count, At, Onward
    <2> QED
      BY <2>1 DEF Listed
  <1>16. CASE MirrorWorks
    <2>1. job'.step \notin {"list", "ask", "count", "mirror"}
      BY <1>16, JobIs, TookSome, LeftOver, StepNames DEF MirrorWorks, At,
         outside
    <2> QED
      BY <2>1 DEF Listed
  <1>17. CASE MirrorTrips
    <2>1. PICK gone \in SUBSET RemoteOnly : Took(gone, "done", FALSE)
      BY <1>17 DEF MirrorTrips, At, outside
    <2>2. gone \in SUBSET Snaps
      BY <2>1, LeftOver
    <2>3. job'.step = "done"
      BY <2>1, <2>2, JobIs, TookSome, StepNames
    <2> QED
      BY <2>3 DEF Listed
  <1>18. CASE MirrorFails
    <2>1. /\ job'.step \in {"done", "mirror"} /\ job.step = "mirror"
          /\ job'.drift = job.drift /\ local' = local
      BY <1>18, JobIs, AttemptsGo, LeftOver DEF MirrorFails, At, Fault,
         outside
    <2> QED
      BY <2>1 DEF Listed
  <1>19. CASE Find
    <2>1. job'.step \notin {"list", "ask", "count", "mirror"}
      BY <1>19, FindGoes DEF Onward
    <2> QED
      BY <2>1 DEF Listed
  <1>20. CASE FetchWorks
    <2>1. job'.step \notin {"list", "ask", "count", "mirror"}
      BY <1>20, JobIs, Goes, StepNames DEF FetchWorks, At
    <2> QED
      BY <2>1 DEF Listed
  <1>21. CASE FetchFails
    <2>1. job'.step \notin {"list", "ask", "count", "mirror"}
      BY <1>21, JobIs, AttemptsGo DEF FetchFails, At, Fault, outside
    <2> QED
      BY <2>1 DEF Listed
  <1>22. CASE Open
    <2>1. job'.step \notin {"list", "ask", "count", "mirror"}
      BY <1>22, JobIs, Goes, GoesBad, StepNames DEF Open, At, Fault, outside,
         JobType
    <2> QED
      BY <2>1 DEF Listed
  <1>23. CASE InitChecks \/ SaveSettings \/ OtherEnds \/ LockAges
    BY <1>23 DEF InitChecks, SaveSettings, OtherEnds, Fault, LockAges, Listed
  <1>24. CASE InitRuns
    <2>1. job' = job /\ remote' = remote /\ (local.state = "repo" => local' = local)
      BY <1>24 DEF InitRuns
    <2> QED
      BY <2>1 DEF Listed
  <1>25. CASE LocalLost
    <2>1. job'.drift
      BY <1>25, JobIs, Drifts DEF LocalLost, Fault
    <2> QED
      BY <2>1 DEF Listed
  <1>26. CASE RemoteGains
    <2>1. job'.drift
      BY <1>26, JobIs, Drifts DEF RemoteGains, Fault
    <2> QED
      BY <2>1 DEF Listed
  <1>27. CASE Crash
    <2>1. job'.step \notin {"list", "ask", "count", "mirror"}
      BY <1>27, JobIs, NoJobType DEF Crash, Fault
    <2> QED
      BY <2>1 DEF Listed
  <1>28. ASSUME NEW excl \in BOOLEAN, OtherBegins(excl) PROVE Listed'
    BY <1>28 DEF OtherBegins, Fault, Listed
  <1>29. CASE UNCHANGED storeVars
    BY <1>29 DEF storeVars, Listed
  <1> QED
    BY <1>1, <1>2, <1>3, <1>4, <1>5, <1>6, <1>7, <1>8, <1>9, <1>10, <1>11,
       <1>12, <1>13, <1>14, <1>15, <1>16, <1>17, <1>18, <1>19, <1>20, <1>21,
       <1>22, <1>23, <1>24, <1>25, <1>26, <1>27, <1>28, <1>29
       DEF StoreNext, JobStep, Restic, Sync, DR, Around

(* Sets of snapshots are finite; one attempt's deletions are within its    *)
(* share of the limit.                                                     *)
LEMMA SnapSets ==
  ASSUME NEW S \in SUBSET Snaps
  PROVE  IsFiniteSet(S) /\ Cardinality(S) \in Nat
  <1>1. IsFiniteSet(Snaps)
    BY StoreAssumption, FS_Interval DEF Snaps
  <1> QED
    BY <1>1, FS_Subset, FS_CardinalityType

LEMMA OneMoreAttempt ==
  ASSUME NEW limit \in Nat, NEW attempt \in Nat, 1 <= attempt,
         NEW removed \in SUBSET Snaps, NEW gone \in SUBSET Snaps,
         Cardinality(removed) <= limit * (attempt - 1), Cardinality(gone) <= limit
  PROVE  Cardinality(removed \cup gone) <= limit * attempt
  <1>1. Cardinality(removed \cup gone) <= Cardinality(removed) + Cardinality(gone)
    <2>1. Cardinality(removed \cup gone)
            = Cardinality(removed) + Cardinality(gone) - Cardinality(removed \cap gone)
      BY SnapSets, FS_Union
    <2>2. removed \cap gone \in SUBSET Snaps
      OBVIOUS
    <2> QED
      BY <2>1, <2>2, SnapSets
  <1>2. limit * (attempt - 1) + limit = limit * attempt
    BY SMT
  <1> DEFINE m == limit * (attempt - 1)
  <1>3. m \in Nat /\ limit * attempt = m + limit
    BY <1>2
  <1>4. /\ Cardinality(removed \cup gone) \in Nat
        /\ Cardinality(removed) \in Nat /\ Cardinality(gone) \in Nat
    BY SnapSets
  <1>5. Cardinality(removed) <= m
    OBVIOUS
  <1> HIDE DEF m
  <1> QED
    BY <1>1, <1>3, <1>4, <1>5

Deletes == Counted /\ SyncTakesOnlyWhatWasCounted

LEMMA NothingTaken ==
  ASSUME job'.removed = {}, job'.step # "mirror"
  PROVE  Deletes'
  BY DEF Deletes, Counted, SyncTakesOnlyWhatWasCounted

LEMMA DeletesKept ==
  ASSUME Deletes, UNCHANGED <<local, remote, job>>
  PROVE  Deletes'
  BY DEF Deletes, Counted, SyncTakesOnlyWhatWasCounted, RemoteOnly

LEMMA DeletesDrift ==
  ASSUME StoreTypeOK, Deletes, job' = [job EXCEPT !.drift = TRUE]
  PROVE  Deletes'
  <1>1. /\ job'.step = job.step /\ job'.removed = job.removed /\ job'.drift
        /\ job'.counted = job.counted /\ job'.limit = job.limit
        /\ job'.attempt = job.attempt
    BY JobIs, Drifts
  <1> QED
    BY <1>1 DEF Deletes, Counted, SyncTakesOnlyWhatWasCounted

(* One rclone process took some of what only the remote had: the job goes  *)
(* on to another attempt, or is over.                                      *)
LEMMA SomeTaken ==
  ASSUME StoreTypeOK, Deletes, At("mirror"),
         NEW gone \in SUBSET RemoteOnly, Cardinality(gone) <= job.limit,
         job'.removed = job.removed \cup gone, job'.counted = job.counted,
         job'.limit = job.limit, job'.populated = job.populated,
         job'.drift = job.drift,
         \/ job'.step = "mirror" /\ job'.attempt = job.attempt + 1
         \/ job'.step = "done" /\ job'.attempt = job.attempt,
         job'.step = "mirror" => RemoteOnly' \subseteq RemoteOnly
  PROVE  Deletes'
  <1>1. /\ job.limit \in Nat /\ job.attempt \in Nat /\ 1 <= job.attempt
        /\ job.removed \in SUBSET Snaps /\ gone \in SUBSET Snaps
        /\ Cardinality(job.removed) <= job.limit * (job.attempt - 1)
        /\ Cardinality(job.counted) <= job.limit
    BY JobIs, LeftOver DEF JobType, Deletes, Counted, At
  <1>2. Cardinality(job.removed \cup gone) <= job.limit * job.attempt
    BY <1>1, OneMoreAttempt
  <1>3. ~job.drift =>
          /\ RemoteOnly \cup job'.removed \subseteq job.counted
          /\ job.counted # {} => job.populated
    BY DEF Deletes, Counted, At
  <1>4. CASE job'.step = "mirror" /\ job'.attempt = job.attempt + 1
    <2>1. job'.attempt - 1 = job.attempt /\ 1 <= job'.attempt
      <3>1. job.attempt \in Nat /\ job'.attempt = job.attempt + 1
        BY <1>1, <1>4
      <3> QED
        BY <3>1
    <2>2. Counted'
      BY <1>1, <1>2, <1>3, <1>4, <2>1 DEF Counted
    <2>3. Cardinality(job'.removed) <= job'.limit * job'.attempt
      <3>1. /\ job.limit * job'.attempt = job.limit * job.attempt + job.limit
            /\ job.limit * job.attempt \in Nat
        BY <1>1, <1>4
      <3>2. Cardinality(job'.removed) \in Nat
        BY <1>1, SnapSets
      <3> DEFINE m == job.limit * job.attempt
      <3>3. m \in Nat /\ job.limit * job'.attempt = m + job.limit
        BY <3>1
      <3>4. Cardinality(job'.removed) <= m
        BY <1>2
      <3> HIDE DEF m
      <3> QED
        BY <1>1, <3>2, <3>3, <3>4
    <2>4. ~job.drift => job'.removed \subseteq job.counted
      BY <1>3
    <2> QED
      BY <1>1, <1>3, <2>2, <2>3, <2>4 DEF Deletes, SyncTakesOnlyWhatWasCounted
  <1>5. CASE job'.step = "done" /\ job'.attempt = job.attempt
    BY <1>1, <1>2, <1>3, <1>5 DEF Deletes, Counted, SyncTakesOnlyWhatWasCounted
  <1> QED
    BY <1>4, <1>5

(* A sync deletes what it counted, and no attempt more than the limit.     *)
LEMMA DeletesStep ==
  ASSUME StoreTypeOK, KindStep, Listed, Deletes, [StoreNext]_storeVars
  PROVE  Deletes'
  <1>1. ASSUME NEW kind \in Kinds, NEW allowed \in 0 .. MaxAllowed, Launch(kind, allowed)
        PROVE  Deletes'
    <2>1. job'.removed = {} /\ job'.step # "mirror"
      BY <1>1, NoJobType DEF Launch, NoJob
    <2> QED
      BY <2>1, NothingTaken
  <1>2. CASE Resolve
    <2>1. job'.removed = {} /\ job'.step # "mirror"
      BY <1>2, JobIs, GoesBad DEF Resolve, At, outside, JobType, Deletes,
         Counted
    <2> QED
      BY <2>1, NothingTaken
  <1>3. CASE ResolveRemote
    <2>1. CASE GoBad("done")
      BY <1>3, <2>1, JobIs, GoesBad, StepNames, NothingTaken
         DEF ResolveRemote, At, Kept, Deletes, Counted
    <2>2. CASE job' =
            [job EXCEPT !.step = FirstStep(job.kind), !.conf.remote = conf.remote]
      <3>1. job'.step = FirstStep(job.kind) /\ job'.removed = job.removed
        BY <2>2, JobIs DEF JobType
      <3>2. job.kind \in Kinds /\ job.removed = {}
        BY <1>3, JobIs DEF ResolveRemote, At, KindStep, JobType, Deletes,
           Counted
      <3> QED
        BY <3>1, <3>2, FirstSteps, NothingTaken DEF Kinds
    <2> QED
      BY <1>3, <2>1, <2>2 DEF ResolveRemote
  <1>4. CASE ResolveRefused
    <2>1. job'.removed = {} /\ job'.step # "mirror"
      BY <1>4, JobIs, GoesBad, StepNames DEF ResolveRefused, At, Fault,
         outside, Kept, Deletes, Counted
    <2> QED
      BY <2>1, NothingTaken
  <1>5. CASE JobEnds
    <2>1. job'.removed = {} /\ job'.step # "mirror"
      BY <1>5, NoJobType DEF JobEnds, At, outside
    <2> QED
      BY <2>1, NothingTaken
  <1>6. CASE ResticStarts
    <2>1. job'.removed = {} /\ job'.step # "mirror"
      BY <1>6, JobIs DEF ResticStarts, outside, JobType, Locking, Deletes,
         Counted
    <2> QED
      BY <2>1, NothingTaken
  <1>7. CASE ResticRefused
    <2>1. job'.removed = {} /\ job'.step # "mirror"
      BY <1>7, RefusedGoes, ThenSteps DEF Locking, Deletes, Counted
    <2> QED
      BY <2>1, NothingTaken
  <1>8. CASE ResticWorks
    <2>1. job'.removed = {} /\ job'.step # "mirror"
      BY <1>8, JobIs, Goes, ThenSteps DEF ResticWorks, At, outside, Kept,
         KindStep, Locking, Deletes, Counted
    <2> QED
      BY <2>1, NothingTaken
  <1>9. CASE ResticFails
    <2>1. job'.removed = {} /\ job'.step # "mirror"
      BY <1>9, JobIs, GoesBad, ThenSteps DEF ResticFails, Fault, outside,
         Kept, Locking, Deletes, Counted
    <2> QED
      BY <2>1, NothingTaken
  <1>10. CASE Stage
    <2>1. job'.removed = {} /\ job'.step # "mirror"
      BY <1>10, JobIs, Goes, GoesBad, StepNames, ThenSteps DEF Stage, At,
         Fault, outside, Kept, Locking, Steps, Deletes, Counted
    <2> QED
      BY <2>1, NothingTaken
  <1>11. CASE Unstage
    <2>1. job'.removed = {} /\ job'.step # "mirror"
      BY <1>11, JobIs, Goes, GoesBad, StepNames, ThenSteps DEF Unstage, At,
         Fault, outside, Kept, Deletes, Counted
    <2> QED
      BY <2>1, NothingTaken
  <1>12. CASE Probe
    <2>1. job'.removed = {} /\ job'.step # "mirror"
      BY <1>12, ProbeGoes DEF Onward, Probe, At, Deletes, Counted
    <2> QED
      BY <2>1, NothingTaken
  <1>13. CASE List
    <2>1. job'.removed = {} /\ job'.step # "mirror"
      BY <1>13, ListGoes DEF Onward, List, At, Deletes, Counted
    <2> QED
      BY <2>1, NothingTaken
  <1>14. CASE Ask
    <2>1. job'.removed = {} /\ job'.step # "mirror"
      BY <1>14, JobIs, Goes, GoesBad, StepNames DEF Ask, At, Fault, outside,
         Kept, Deletes, Counted
    <2> QED
      BY <2>1, NothingTaken
  <1>15. CASE Count
    <2>1. CASE GoBad("done")
      BY <1>15, <2>1, JobIs, GoesBad, StepNames, NothingTaken
         DEF Count, At, Kept, Deletes, Counted
    <2>2. CASE /\ ~(Cardinality(RemoteOnly) > Limit)
               /\ job' = [job EXCEPT !.step = "mirror", !.counted = RemoteOnly,
                                      !.limit = Limit, !.removed = {}, !.attempt = 1]
      <3>1. /\ job'.step = "mirror" /\ job'.counted = RemoteOnly /\ job'.limit = Limit
            /\ job'.removed = {} /\ job'.attempt = 1
            /\ job'.populated = job.populated /\ job'.drift = job.drift
        BY <2>2, JobIs DEF JobType
      <3>2. Cardinality(RemoteOnly) <= Limit
        BY <2>2, CapIs
      <3>3. RemoteOnly' = RemoteOnly
        BY <1>15 DEF Count, RemoteOnly
      <3>4. ~job.drift => job.populated \/ RemoteOnly = {}
        BY <1>15 DEF Count, At, Listed, RemoteOnly
      <3>5. Cardinality(job'.removed) <= job'.limit * (job'.attempt - 1)
        BY <3>1, CapIs, FS_EmptySet
      <3> QED
        BY <3>1, <3>2, <3>3, <3>4, <3>5 DEF Deletes, Counted,
           SyncTakesOnlyWhatWasCounted
    <2> QED
      BY <1>15, <2>1, <2>2 DEF Count
  <1>16. CASE MirrorWorks
    <2>1. Took(RemoteOnly, "done", TRUE) /\ Cardinality(RemoteOnly) <= job.limit
      BY <1>16 DEF MirrorWorks
    <2>2. /\ job'.step = "done" /\ job'.removed = job.removed \cup RemoteOnly
          /\ job'.counted = job.counted /\ job'.limit = job.limit
          /\ job'.attempt = job.attempt /\ job'.populated = job.populated
          /\ job'.drift = job.drift
      BY <2>1, JobIs, LeftOver, TookSome, StepNames
    <2> QED
      BY <1>16, <2>1, <2>2, SomeTaken DEF MirrorWorks
  <1>17. CASE MirrorTrips
    <2>1. PICK gone \in SUBSET RemoteOnly :
            Cardinality(gone) = job.limit /\ Took(gone, "done", FALSE)
      BY <1>17 DEF MirrorTrips
    <2>2. gone \in SUBSET Snaps
      BY <2>1, LeftOver
    <2>3. /\ job'.step = "done" /\ job'.removed = job.removed \cup gone
          /\ job'.counted = job.counted /\ job'.limit = job.limit
          /\ job'.attempt = job.attempt /\ job'.populated = job.populated
          /\ job'.drift = job.drift
      BY <2>1, <2>2, JobIs, TookSome, StepNames
    <2>4. Cardinality(gone) <= job.limit
      BY <2>1, <2>2, SnapSets
    <2> QED
      BY <1>17, <2>3, <2>4, SomeTaken DEF MirrorTrips
  <1>18. CASE MirrorFails
    <2>1. PICK gone \in SUBSET RemoteOnly :
            /\ AttemptFails(gone) /\ (gone = {} \/ Cardinality(gone) <= job.limit)
            /\ RemoteOnly' \subseteq RemoteOnly
      <3>1. UNCHANGED local
        BY <1>18 DEF MirrorFails
      <3>2. ASSUME UNCHANGED remote, AttemptFails({})
            PROVE  \E gone \in SUBSET RemoteOnly :
                     /\ AttemptFails(gone) /\ (gone = {} \/ Cardinality(gone) <= job.limit)
                     /\ RemoteOnly' \subseteq RemoteOnly
        BY <3>1, <3>2 DEF RemoteOnly
      <3>3. ASSUME NEW copied \in SUBSET local.snaps, AttemptFails({}),
                   remote' = [remote EXCEPT !.snaps = @ \cup copied,
                                !.state = IF @ = "none" /\ copied # {} THEN "partial" ELSE @]
            PROVE  \E gone \in SUBSET RemoteOnly :
                     /\ AttemptFails(gone) /\ (gone = {} \/ Cardinality(gone) <= job.limit)
                     /\ RemoteOnly' \subseteq RemoteOnly
        <4>1. remote'.snaps = remote.snaps \cup copied
          BY <3>3 DEF StoreTypeOK
        <4> QED
          BY <3>1, <3>3, <4>1 DEF RemoteOnly
      <3>4. ASSUME NEW gone \in SUBSET RemoteOnly, Cardinality(gone) <= job.limit, AttemptFails(gone),
                   remote' = [remote EXCEPT !.snaps = (@ \ gone) \cup local.snaps]
            PROVE  RemoteOnly' \subseteq RemoteOnly
        <4>1. remote'.snaps = (remote.snaps \ gone) \cup local.snaps
          BY <3>4 DEF StoreTypeOK
        <4> QED
          BY <3>1, <4>1 DEF RemoteOnly
      <3> QED
        BY <1>18, <3>2, <3>3, <3>4 DEF MirrorFails
    <2>2. gone \in SUBSET Snaps /\ job.limit \in Nat
      BY <2>1, LeftOver, JobIs DEF JobType
    <2>3. Cardinality(gone) <= job.limit
      BY <2>1, <2>2, FS_EmptySet
    <2>4. /\ job'.removed = job.removed \cup gone
          /\ job'.counted = job.counted /\ job'.limit = job.limit
          /\ job'.populated = job.populated /\ job'.drift = job.drift
          /\ \/ job'.step = job.step /\ job'.attempt = job.attempt + 1
             \/ job'.step = "done" /\ job'.attempt = job.attempt
      BY <2>1, <2>2, JobIs, AttemptsGo
    <2>5. At("mirror")
      BY <1>18 DEF MirrorFails
    <2>6. \/ job'.step = "mirror" /\ job'.attempt = job.attempt + 1
          \/ job'.step = "done" /\ job'.attempt = job.attempt
      BY <2>4, <2>5 DEF At
    <2> QED
      BY <2>1, <2>3, <2>4, <2>5, <2>6, SomeTaken
  <1>19. CASE Find
    <2>1. job'.removed = {} /\ job'.step # "mirror"
      BY <1>19, FindGoes DEF Onward, Find, At, Deletes, Counted
    <2> QED
      BY <2>1, NothingTaken
  <1>20. CASE FetchWorks
    <2>1. job'.removed = {} /\ job'.step # "mirror"
      BY <1>20, JobIs, Goes, StepNames DEF FetchWorks, At, Kept, Deletes,
         Counted
    <2> QED
      BY <2>1, NothingTaken
  <1>21. CASE FetchFails
    <2>1. job'.removed = {} /\ job'.step # "mirror"
      BY <1>21, JobIs, AttemptsGo DEF FetchFails, At, Fault, outside, Deletes,
         Counted
    <2> QED
      BY <2>1, NothingTaken
  <1>22. CASE Open
    <2>1. job'.removed = {} /\ job'.step # "mirror"
      BY <1>22, JobIs, Goes, GoesBad, StepNames DEF Open, At, Fault, outside,
         Kept, JobType, Deletes, Counted
    <2> QED
      BY <2>1, NothingTaken
  <1>23. CASE InitChecks \/ SaveSettings \/ OtherEnds \/ LockAges
    <2>1. UNCHANGED <<local, remote, job>>
      BY <1>23 DEF InitChecks, SaveSettings, OtherEnds, Fault, LockAges
    <2> QED
      BY <2>1, DeletesKept
  <1>24. CASE InitRuns
    <2>1. job' = job /\ remote' = remote /\ (local.state = "repo" => local' = local)
      BY <1>24 DEF InitRuns
    <2>2. ~job.drift /\ job.step = "mirror" => local' = local
      BY <2>1 DEF Listed
    <2> QED
      BY <2>1, <2>2 DEF Deletes, Counted, SyncTakesOnlyWhatWasCounted,
         RemoteOnly
  <1>25. CASE LocalLost
    BY <1>25, DeletesDrift DEF LocalLost
  <1>26. CASE RemoteGains
    BY <1>26, DeletesDrift DEF RemoteGains
  <1>27. CASE Crash
    <2>1. job'.removed = {} /\ job'.step # "mirror"
      BY <1>27, NoJobType DEF Crash, Fault
    <2> QED
      BY <2>1, NothingTaken
  <1>28. ASSUME NEW excl \in BOOLEAN, OtherBegins(excl) PROVE Deletes'
    <2>1. UNCHANGED <<local, remote, job>>
      BY <1>28 DEF OtherBegins, Fault
    <2> QED
      BY <2>1, DeletesKept
  <1>29. CASE UNCHANGED storeVars
    <2>1. UNCHANGED <<local, remote, job>>
      BY <1>29 DEF storeVars
    <2> QED
      BY <2>1, DeletesKept
  <1> QED
    BY <1>1, <1>2, <1>3, <1>4, <1>5, <1>6, <1>7, <1>8, <1>9, <1>10, <1>11,
       <1>12, <1>13, <1>14, <1>15, <1>16, <1>17, <1>18, <1>19, <1>20, <1>21,
       <1>22, <1>23, <1>24, <1>25, <1>26, <1>27, <1>28, <1>29
       DEF StoreNext, JobStep, Restic, Sync, DR, Around

(* A restore that goes on has all the remote held, unless a copy drifted.  *)
LEMMA FetchedStep ==
  ASSUME StoreTypeOK, KindStep, Fetched, [StoreNext]_storeVars
  PROVE  Fetched'
  <1>1. ASSUME NEW kind \in Kinds, NEW allowed \in 0 .. MaxAllowed, Launch(kind, allowed)
        PROVE  Fetched'
    <2>1. \/ job'.step \notin {"open", "reopen", "done"}
          \/ job'.step = "done" /\ (job'.kind # "dr" \/ ~job'.good)
      BY <1>1, NoJobType DEF Launch, NoJob
    <2> QED
      BY <2>1 DEF Fetched
  <1>2. CASE Resolve
    <2>1. \/ job'.step \notin {"open", "reopen", "done"}
          \/ job'.step = "done" /\ (job'.kind # "dr" \/ ~job'.good)
      BY <1>2, JobIs DEF Resolve, At, outside, JobType
    <2> QED
      BY <2>1 DEF Fetched
  <1>3. CASE ResolveRemote
    <2>1. CASE GoBad("done")
      BY <2>1, JobIs, GoesBad, StepNames DEF Fetched
    <2>2. CASE job' =
            [job EXCEPT !.step = FirstStep(job.kind), !.conf.remote = conf.remote]
      <3>1. job'.step = FirstStep(job.kind)
        BY <2>2, JobIs DEF JobType
      <3>2. job.kind \in Kinds
        BY <1>3, JobIs DEF ResolveRemote, At, KindStep, JobType
      <3> QED
        BY <3>1, <3>2, FirstSteps DEF Fetched, Kinds
    <2> QED
      BY <1>3, <2>1, <2>2 DEF ResolveRemote
  <1>4. CASE ResolveRefused
    <2>1. \/ job'.step \notin {"open", "reopen", "done"}
          \/ job'.step = "done" /\ (job'.kind # "dr" \/ ~job'.good)
      BY <1>4, JobIs, GoesBad, StepNames DEF ResolveRefused, At, Fault,
         outside
    <2> QED
      BY <2>1 DEF Fetched
  <1>5. CASE JobEnds
    <2>1. \/ job'.step \notin {"open", "reopen", "done"}
          \/ job'.step = "done" /\ (job'.kind # "dr" \/ ~job'.good)
      BY <1>5, NoJobType DEF JobEnds, At, outside
    <2> QED
      BY <2>1 DEF Fetched
  <1>6. CASE ResticStarts
    <2>1. \/ job'.step \notin {"open", "reopen", "done"}
          \/ job'.step = "done" /\ (job'.kind # "dr" \/ ~job'.good)
      BY <1>6, JobIs DEF ResticStarts, outside, JobType, Locking
    <2> QED
      BY <2>1 DEF Fetched
  <1>7. CASE ResticRefused
    <2>1. \/ job'.step \notin {"open", "reopen", "done"}
          \/ job'.step = "done" /\ (job'.kind # "dr" \/ ~job'.good)
      BY <1>7, RefusedGoes, ThenSteps DEF Locking
    <2> QED
      BY <2>1 DEF Fetched
  <1>8. CASE ResticWorks
    <2>1. \/ job'.step \notin {"open", "reopen", "done"}
          \/ job'.step = "done" /\ (job'.kind # "dr" \/ ~job'.good)
      BY <1>8, JobIs, Goes, ThenSteps DEF ResticWorks, At, outside, Kept,
         KindStep, Locking
    <2> QED
      BY <2>1 DEF Fetched
  <1>9. CASE ResticFails
    <2>1. \/ job'.step \notin {"open", "reopen", "done"}
          \/ job'.step = "done" /\ (job'.kind # "dr" \/ ~job'.good)
      BY <1>9, JobIs, GoesBad, ThenSteps DEF ResticFails, Fault, outside,
         Locking
    <2> QED
      BY <2>1 DEF Fetched
  <1>10. CASE Stage
    <2>1. \/ job'.step \notin {"open", "reopen", "done"}
          \/ job'.step = "done" /\ (job'.kind # "dr" \/ ~job'.good)
      BY <1>10, JobIs, Goes, GoesBad, StepNames, ThenSteps DEF Stage, At,
         Fault, outside, Steps, Locking
    <2> QED
      BY <2>1 DEF Fetched
  <1>11. CASE Unstage
    <2>1. \/ job'.step \notin {"open", "reopen", "done"}
          \/ job'.step = "done" /\ (job'.kind # "dr" \/ ~job'.good)
      BY <1>11, JobIs, Goes, GoesBad, StepNames, ThenSteps DEF Unstage, At,
         Fault, outside, Kept, KindStep
    <2> QED
      BY <2>1 DEF Fetched
  <1>12. CASE Probe
    <2>1. \/ job'.step \notin {"open", "reopen", "done"}
          \/ job'.step = "done" /\ (job'.kind # "dr" \/ ~job'.good)
      BY <1>12, ProbeGoes DEF Onward
    <2> QED
      BY <2>1 DEF Fetched
  <1>13. CASE List
    <2>1. \/ job'.step \notin {"open", "reopen", "done"}
          \/ job'.step = "done" /\ (job'.kind # "dr" \/ ~job'.good)
      BY <1>13, ListGoes DEF Onward
    <2> QED
      BY <2>1 DEF Fetched
  <1>14. CASE Ask
    <2>1. \/ job'.step \notin {"open", "reopen", "done"}
          \/ job'.step = "done" /\ (job'.kind # "dr" \/ ~job'.good)
      BY <1>14, JobIs, Goes, GoesBad, StepNames DEF Ask, At, Fault, outside
    <2> QED
      BY <2>1 DEF Fetched
  <1>15. CASE Count
    <2>1. \/ job'.step \notin {"open", "reopen", "done"}
          \/ job'.step = "done" /\ (job'.kind # "dr" \/ ~job'.good)
      BY <1>15, CountGoes DEF Onward
    <2> QED
      BY <2>1 DEF Fetched
  <1>16. CASE MirrorWorks
    <2>1. job.kind # "dr"
      BY <1>16 DEF MirrorWorks, At, KindStep
    <2>2. job'.kind = job.kind /\ job'.step \in {"mirror", "done"}
      BY <1>16, JobIs, LeftOver, TookSome, StepNames DEF MirrorWorks, At,
         outside
    <2> QED
      BY <2>1, <2>2 DEF Fetched
  <1>17. CASE MirrorTrips
    <2>1. job.kind # "dr"
      BY <1>17 DEF MirrorTrips, At, KindStep
    <2>2. PICK gone \in SUBSET RemoteOnly : Took(gone, "done", FALSE)
      BY <1>17 DEF MirrorTrips
    <2>3. gone \in SUBSET Snaps
      BY <2>2, LeftOver
    <2>4. job'.kind = job.kind /\ job'.step = "done"
      BY <2>2, <2>3, JobIs, TookSome, StepNames
    <2> QED
      BY <2>1, <2>4 DEF Fetched
  <1>18. CASE MirrorFails
    <2>1. job.kind # "dr"
      BY <1>18 DEF MirrorFails, At, KindStep
    <2>2. job'.kind = job.kind /\ job'.step \in {"mirror", "done"}
      BY <1>18, JobIs, LeftOver, AttemptsGo DEF MirrorFails, At, Fault,
         outside
    <2> QED
      BY <2>1, <2>2 DEF Fetched
  <1>19. CASE Find
    <2>1. \/ job'.step \notin {"open", "reopen", "done"}
          \/ job'.step = "done" /\ (job'.kind # "dr" \/ ~job'.good)
      BY <1>19, FindGoes DEF Onward
    <2> QED
      BY <2>1 DEF Fetched
  <1>20. CASE FetchWorks
    <2>1. job'.step = "open" /\ remote' = remote
      BY <1>20, JobIs, Goes, StepNames DEF FetchWorks, At
    <2>2. local'.state \in {"repo", "broken"} /\ local'.snaps = remote.snaps
      BY <1>20 DEF FetchWorks
    <2> QED
      BY <2>1, <2>2 DEF Fetched
  <1>21. CASE FetchFails
    <2>1. \/ job'.step \notin {"open", "reopen", "done"}
          \/ job'.step = "done" /\ (job'.kind # "dr" \/ ~job'.good)
      BY <1>21, JobIs, AttemptsGo DEF FetchFails, At, Fault, outside
    <2> QED
      BY <2>1 DEF Fetched
  <1>22. CASE Open
    <2>1. job.step \in {"open", "reopen"} /\ local' = local /\ remote' = remote
      BY <1>22 DEF Open, At, Fault, outside
    <2>2. \/ job'.step = "done" /\ ~job'.good
          \/ job'.step = "done" /\ Opens /\ job'.drift = job.drift
          \/ job'.step = "reopen" /\ job'.drift = job.drift
      BY <1>22, JobIs, Goes, GoesBad, StepNames DEF Open, At, Fault, outside,
         Kept, JobType
    <2> QED
      BY <2>1, <2>2 DEF Fetched, Opens
  <1>23. CASE InitChecks \/ SaveSettings \/ OtherEnds \/ LockAges
    <2>1. UNCHANGED <<local, remote, job>>
      BY <1>23 DEF InitChecks, SaveSettings, OtherEnds, Fault, LockAges
    <2> QED
      BY <2>1 DEF Fetched
  <1>24. CASE InitRuns
    <2>1. job' = job /\ remote' = remote
          /\ (local.state \in {"repo", "broken"} => local' = local)
      BY <1>24 DEF InitRuns
    <2> QED
      BY <2>1 DEF Fetched
  <1>25. CASE LocalLost
    <2>1. job'.drift
      BY <1>25, JobIs, Drifts DEF LocalLost, Fault
    <2> QED
      BY <2>1 DEF Fetched
  <1>26. CASE RemoteGains
    <2>1. job'.drift
      BY <1>26, JobIs, Drifts DEF RemoteGains, Fault
    <2> QED
      BY <2>1 DEF Fetched
  <1>27. CASE Crash
    <2>1. \/ job'.step \notin {"open", "reopen", "done"}
          \/ job'.step = "done" /\ (job'.kind # "dr" \/ ~job'.good)
      BY <1>27, NoJobType DEF Crash, Fault
    <2> QED
      BY <2>1 DEF Fetched
  <1>28. ASSUME NEW excl \in BOOLEAN, OtherBegins(excl) PROVE Fetched'
    <2>1. UNCHANGED <<local, remote, job>>
      BY <1>28 DEF OtherBegins, Fault
    <2> QED
      BY <2>1 DEF Fetched
  <1>29. CASE UNCHANGED storeVars
    <2>1. UNCHANGED <<local, remote, job>>
      BY <1>29 DEF storeVars
    <2> QED
      BY <2>1 DEF Fetched
  <1> QED
    BY <1>1, <1>2, <1>3, <1>4, <1>5, <1>6, <1>7, <1>8, <1>9, <1>10, <1>11,
       <1>12, <1>13, <1>14, <1>15, <1>16, <1>17, <1>18, <1>19, <1>20, <1>21,
       <1>22, <1>23, <1>24, <1>25, <1>26, <1>27, <1>28, <1>29
       DEF StoreNext, JobStep, Restic, Sync, DR, Around

-----------------------------------------------------------------------------
LEMMA StoreStarts == StoreInit => StoreIInv
  <1> SUFFICES ASSUME StoreInit PROVE StoreIInv
    OBVIOUS
  <1>1. StoreTypeOK
    <2>1. 1 \in Snaps /\ 0 \in 0 .. MaxFaults /\ 0 \in 0 .. MaxSaves
          /\ 0 \in 0 .. MaxSnaps /\ 1 \in 0 .. MaxSnaps
      <3>1. MaxSnaps \in Nat \ {0} /\ MaxFaults \in Nat /\ MaxSaves \in Nat
        BY StoreAssumption
      <3> QED
        BY <3>1 DEF Snaps
    <2>2. /\ local \in [state : LocalStates, snaps : SUBSET Snaps]
          /\ remote \in [state : RemoteStates, snaps : SUBSET Snaps, locks : SUBSET BOOLEAN]
          /\ conf \in Conf /\ written \in 0 .. MaxSnaps
      <3>1. CASE /\ local = [state |-> "gone", snaps |-> {}]
                 /\ remote = [state |-> "none", snaps |-> {}, locks |-> {}]
                 /\ written = 0 /\ conf = [syncAfter |-> FALSE, remote |-> FALSE]
        BY <2>1, <3>1 DEF LocalStates, RemoteStates, Conf
      <3>2. CASE /\ local = [state |-> "repo", snaps |-> {1}]
                 /\ remote = [state |-> "repo", snaps |-> {1}, locks |-> {}]
                 /\ written = 1 /\ conf = [syncAfter |-> TRUE, remote |-> TRUE]
        BY <2>1, <3>2 DEF LocalStates, RemoteStates, Conf
      <3> QED
        BY <3>1, <3>2 DEF StoreInit
    <2>3. job \in JobType
      BY NoJobType DEF StoreInit
    <2> QED
      BY <2>1, <2>2, <2>3 DEF StoreInit, StoreTypeOK, JobType
  <1>2. KindStep
    BY NoJobType DEF StoreInit, KindStep
  <1> QED
    BY <1>1, <1>2, NoJobType
       DEF StoreInit, StoreIInv, OtherIsLocked, ExclusiveIsAlone, PlaintextIsKnown,
           Listed, Counted, SyncTakesOnlyWhatWasCounted, Fetched

LEMMA StoreStep == StoreIInv /\ [StoreNext]_storeVars => StoreIInv'
  <1> SUFFICES ASSUME StoreIInv, [StoreNext]_storeVars PROVE StoreIInv'
    OBVIOUS
  <1> USE DEF StoreIInv
  <1>1. StoreTypeOK' /\ KindStep' /\ OtherIsLocked' /\ ExclusiveIsAlone'
    BY StoreTypeStep, KindsStep, OtherStep, AloneStep
  <1>2. PlaintextIsKnown' /\ Listed' /\ Fetched'
    BY PlainStep, ListedStep, FetchedStep
  <1>3. Deletes'
    BY DeletesStep DEF Deletes
  <1> QED
    BY <1>1, <1>2, <1>3 DEF Deletes

(* A restic of Capstan never shares the repository with another process    *)
(* when either needs it alone, and a plaintext copy of the database that   *)
(* outlives its step is a failure of the run (runLocking, backupDatabase). *)
THEOREM StoreSafe == StoreSpec => []StoreInv
  <1>1. StoreIInv => StoreInv
    BY DEF StoreIInv, StoreInv
  <1> QED
    BY <1>1, StoreStarts, StoreStep, PTL DEF StoreSpec

(* A sync deletes from the remote only what it counted, within the limit   *)
(* for each attempt, and nothing for a repository that opened empty        *)
(* (runSyncInternal and Sync).                                             *)
THEOREM SyncCounted == StoreSpec => []SyncTakesOnlyWhatWasCounted
  <1>1. StoreIInv => SyncTakesOnlyWhatWasCounted
    BY DEF StoreIInv
  <1> QED
    BY <1>1, StoreStarts, StoreStep, PTL DEF StoreSpec

(* What a step of a disaster restore may do to what the copies hold.       *)
Spares ==
  job.kind = "dr" =>
    /\ job'.step # job.step \/ job'.attempt # job.attempt => Held \subseteq Held'
    /\ job'.step = "done" => job'.kind = "dr"
    /\ remote.snaps \subseteq remote'.snaps

LEMMA NoneIsLost ==
  ASSUME StoreTypeOK, KindStep, [StoreNext]_storeVars
  PROVE  Spares
  <1>1. ASSUME NEW kind \in Kinds, NEW allowed \in 0 .. MaxAllowed, Launch(kind, allowed)
        PROVE  Spares
    <2>1. job.kind # "dr"
      BY <1>1 DEF Launch, At, KindStep
    <2> QED
      BY <2>1 DEF Spares
  <1>2. CASE Resolve
    <2>1. UNCHANGED <<local, remote, kept>>
      BY <1>2 DEF Resolve, At, outside
    <2>2. job'.kind = job.kind
      BY <1>2, JobIs DEF Resolve, At, outside, JobType
    <2> QED
      BY <2>1, <2>2 DEF Spares, Held
  <1>3. CASE ResolveRemote
    <2>1. UNCHANGED <<remote, kept>> /\ local'.snaps = local.snaps
      BY <1>3 DEF ResolveRemote, At, outside, StoreTypeOK
    <2>2. job'.kind = job.kind
      BY <1>3, JobIs, GoesBad, StepNames DEF ResolveRemote, At, outside, Kept,
         JobType
    <2> QED
      BY <2>1, <2>2 DEF Spares, Held
  <1>4. CASE ResolveRefused
    <2>1. UNCHANGED <<local, remote, kept>>
      BY <1>4 DEF ResolveRefused, At, Fault, outside
    <2>2. job'.kind = job.kind
      BY <1>4, JobIs, GoesBad, StepNames DEF ResolveRefused, At, Fault,
         outside, Kept
    <2> QED
      BY <2>1, <2>2 DEF Spares, Held
  <1>5. CASE JobEnds
    <2>1. UNCHANGED <<local, remote, kept>>
      BY <1>5 DEF JobEnds, At, outside
    <2>2. job'.step # "done"
      BY <1>5, NoJobType DEF JobEnds, At, outside
    <2> QED
      BY <2>1, <2>2 DEF Spares, Held
  <1>6. CASE ResticStarts
    <2>1. UNCHANGED <<local, remote, kept>>
      BY <1>6 DEF ResticStarts, outside
    <2>2. job'.kind = job.kind
      BY <1>6, JobIs DEF ResticStarts, outside, Kept, JobType
    <2> QED
      BY <2>1, <2>2 DEF Spares, Held
  <1>7. CASE ResticRefused
    <2>1. UNCHANGED <<local, remote, kept>>
      BY <1>7 DEF ResticRefused, outside
    <2>2. job'.kind = job.kind
      BY <1>7, RefusedGoes
    <2> QED
      BY <2>1, <2>2 DEF Spares, Held
  <1>8. CASE ResticWorks
    <2>1. job.kind # "dr"
      BY <1>8 DEF ResticWorks, At, outside, KindStep, Locking
    <2> QED
      BY <2>1 DEF Spares
  <1>9. CASE ResticFails
    <2>1. UNCHANGED <<local, remote, kept>>
      BY <1>9 DEF ResticFails, Fault, outside
    <2>2. job'.kind = job.kind
      BY <1>9, JobIs, GoesBad, ThenSteps DEF ResticFails, Fault, outside, Kept
    <2> QED
      BY <2>1, <2>2 DEF Spares, Held
  <1>10. CASE    Stage \/ Unstage \/ Probe \/ List \/ Ask \/ Count
              \/ MirrorWorks \/ MirrorTrips \/ MirrorFails
    <2>1. job.kind # "dr"
      BY <1>10 DEF Stage, At, Fault, outside, Unstage, Probe, List, Ask,
         Count, MirrorWorks, MirrorTrips, MirrorFails, KindStep
    <2> QED
      BY <2>1 DEF Spares
  <1>11. CASE Find
    <2>1. UNCHANGED <<local, remote, kept>>
      BY <1>11 DEF Find, At, Fault, outside
    <2>2. job'.kind = job.kind
      BY <1>11, FindGoes DEF Find, At, Fault, outside, Onward
    <2> QED
      BY <2>1, <2>2 DEF Spares, Held
  <1>12. CASE FetchWorks
    <2>1. remote' = remote /\ local'.snaps = remote.snaps
          /\ kept' = kept \cup (local.snaps \ remote.snaps)
      BY <1>12 DEF FetchWorks
    <2>2. job'.kind = job.kind
      BY <1>12, JobIs, Goes, StepNames DEF FetchWorks, Kept
    <2> QED
      BY <2>1, <2>2 DEF Spares, Held
  <1>13. CASE FetchFails
    <2>1. remote' = remote /\ kept' = kept /\ local.snaps \subseteq local'.snaps
      BY <1>13 DEF FetchFails, At, Fault, outside
    <2>2. job'.kind = job.kind
      BY <1>13, JobIs, AttemptsGo DEF FetchFails, At, Fault, outside
    <2> QED
      BY <2>1, <2>2 DEF Spares, Held
  <1>14. CASE Open
    <2>1. UNCHANGED <<local, remote, kept>>
      BY <1>14 DEF Open, At, Fault, outside
    <2>2. job'.kind = job.kind
      BY <1>14, JobIs, Goes, GoesBad, StepNames DEF Open, At, Fault, outside,
         Kept, JobType
    <2> QED
      BY <2>1, <2>2 DEF Spares, Held
  <1>15. CASE InitChecks \/ SaveSettings \/ OtherEnds \/ LockAges
    <2>1. job' = job
      BY <1>15 DEF InitChecks, SaveSettings, OtherEnds, Fault, LockAges
    <2>2. UNCHANGED <<local, remote, kept>>
      BY <1>15 DEF InitChecks, SaveSettings, OtherEnds, Fault, LockAges
    <2> QED
      BY <2>1, <2>2 DEF Spares, Held
  <1>16. CASE InitRuns
    <2>1. job' = job /\ remote' = remote
      BY <1>16 DEF InitRuns
    <2> QED
      BY <2>1 DEF Spares
  <1>17. CASE LocalLost
    <2>1. remote' = remote /\ job'.step = job.step /\ job'.kind = job.kind
          /\ job'.attempt = job.attempt
      BY <1>17, JobIs, Drifts DEF LocalLost
    <2> QED
      BY <2>1 DEF Spares
  <1>18. CASE RemoteGains
    <2>1. remote.snaps \subseteq remote'.snaps /\ job'.step = job.step /\ job'.kind = job.kind
          /\ job'.attempt = job.attempt
      BY <1>18, JobIs, Drifts DEF RemoteGains, StoreTypeOK
    <2> QED
      BY <2>1 DEF Spares
  <1>19. CASE Crash
    <2>1. UNCHANGED <<local, remote, kept>>
      BY <1>19 DEF Crash, Fault
    <2>2. job'.step # "done"
      BY <1>19, NoJobType DEF Crash, Fault
    <2> QED
      BY <2>1, <2>2 DEF Spares, Held
  <1>20. ASSUME NEW excl \in BOOLEAN, OtherBegins(excl) PROVE Spares
    <2>1. job' = job
      BY <1>20 DEF OtherBegins, Fault
    <2>2. UNCHANGED <<local, remote, kept>>
      BY <1>20 DEF OtherBegins, Fault
    <2> QED
      BY <2>1, <2>2 DEF Spares, Held
  <1>21. CASE UNCHANGED storeVars
    <2>1. job' = job
      BY <1>21 DEF storeVars
    <2>2. UNCHANGED <<local, remote, kept>>
      BY <1>21 DEF storeVars
    <2> QED
      BY <2>1, <2>2 DEF Spares, Held
  <1> QED
    BY <1>1, <1>2, <1>3, <1>4, <1>5, <1>6, <1>7, <1>8, <1>9, <1>10, <1>11,
       <1>12, <1>13, <1>14, <1>15, <1>16, <1>17, <1>18, <1>19, <1>20, <1>21
       DEF StoreNext, JobStep, Restic, Sync, DR, Around

(* A disaster restore loses no snapshot that any copy holds, and one that  *)
(* reports success leaves a repository that opens and holds all that the   *)
(* remote held (RunDRRestore and RestoreRepo).                             *)
THEOREM RestoreSafe == StoreSpec => RestoreIsSafe
  <1> DEFINE Safe ==
        /\ job.kind = "dr" /\ (job'.step # job.step \/ job'.attempt # job.attempt)
              => Held \subseteq Held'
        /\ job.kind = "dr" /\ job'.step = "done" /\ job'.good /\ ~job'.drift
              => local'.state = "repo" /\ remote.snaps \subseteq local'.snaps
  <1>1. ASSUME StoreIInv, [StoreNext]_storeVars PROVE Safe
    <2>1. Spares /\ Fetched'
      BY <1>1, NoneIsLost, FetchedStep DEF StoreIInv
    <2> QED
      BY <2>1 DEF Spares, Fetched
  <1>2. StoreIInv /\ [StoreNext]_storeVars => [Safe]_storeVars
    BY <1>1
  <1> QED
    BY <1>2, StoreStarts, StoreStep, PTL DEF StoreSpec, RestoreIsSafe
=============================================================================
