--------------------------- MODULE BackupScheduler ---------------------------
(***************************************************************************)
(* services.BackupSchedulerService: the timer that begins scheduled backup *)
(* cycles, the weekly repository check at the end of a cycle, the settings *)
(* saves that re-arm the timer, and shutdown.                              *)
(*                                                                         *)
(* Each arming is a generation: its goroutine has its own timer and done   *)
(* channel, so done is closed exactly when another generation, or none, is *)
(* armed.  Instants of time are left out, with the field nextFire that     *)
(* only tests read: a waiting timer may fire.  Every critical section of   *)
(* mu is one step; lifecycleMu makes a Stop, a Start and the whole of      *)
(* Close exclude each other.                                               *)
(***************************************************************************)
EXTENDS Integers, FiniteSets

CONSTANTS Saves,      \* settings saves that change the schedule
          Timings,    \* the intervals and the times of day there are to set
          Off,        \* interval mode with an interval of zero
          Cycles,     \* names for cycle goroutines; a name is reused
          None,
          MaxGens     \* bound: how often the scheduler is armed

ASSUME SavesAssumption == None \notin Saves /\ Off \notin Timings
ASSUME GensAssumption == MaxGens \in Nat \ {0}

VARIABLES
  stored,    \* the schedule in the settings table
  save,      \* save[v]: where a save is
  want,      \* want[v]: the schedule a save has read back, to arm it
  saver,     \* the holder of BackupHandler.schedulerMu, or None
  gens,      \* generations so far
  config,    \* config[g]: the schedule generation g was armed with
  loop,      \* loop[g]: where the goroutine of g is
  armed,     \* the generation whose done channel is open, or 0
  stopped, running, verifying,
  cycle,     \* cycle[c]: where a cycle goroutine is
  guard,     \* BackupService.busy: "free" or who has it
  check,     \* the run LaunchVerify started: "none", "launched", "running"
  closing,   \* Close: "open", "waiting", "quiet" or "gaveUp"
  unseen     \* history: a fire was skipped unrecorded during a check

saveVars == <<stored, save, want, saver>>
armVars  == <<gens, config, armed>>
workVars == <<cycle, guard, check>>
vars == <<stored, save, want, saver, gens, config, loop, armed,
          stopped, running, verifying, cycle, guard, check, closing, unseen>>

Schedules == Timings \cup {Off}
Gens == 1..MaxGens
CycleStages == {"idle", "starting", "backup", "deciding", "launching", "waiting",
                "verified", "ending", "leaving"}

(* main.go has armed the stored schedule before it serves a request.       *)
Init ==
  /\ stored \in Schedules
  /\ save = [v \in Saves |-> "idle"]
  /\ want = [v \in Saves |-> Off]
  /\ saver = None
  /\ gens = IF stored = Off THEN 0 ELSE 1
  /\ armed = gens
  /\ config = [g \in Gens |-> IF g = armed THEN stored ELSE Off]
  /\ loop = [g \in Gens |-> IF g = armed THEN "waiting" ELSE "none"]
  /\ stopped = FALSE /\ running = FALSE /\ verifying = FALSE
  /\ cycle = [c \in Cycles |-> "idle"]
  /\ guard = "free" /\ check = "none"
  /\ closing = "open" /\ unseen = FALSE

LifecycleFree == closing # "waiting"

-----------------------------------------------------------------------------
(* A settings save: the rows in one transaction, then StopScheduler and    *)
(* StartScheduler under schedulerMu.                                       *)
WriteSettings(v, schedule) ==
  /\ save[v] = "idle"
  /\ stored' = schedule
  /\ save' = [save EXCEPT ![v] = "written"]
  /\ UNCHANGED <<want, saver, loop, stopped, running, verifying, closing, unseen>>
  /\ UNCHANGED armVars /\ UNCHANGED workVars

(* stopLocked: commits to stopped, and closes the done channel.            *)
StopLocked == stopped' = TRUE /\ armed' = 0

(* MUTANT: the pair of calls has no schedulerMu around it.                 *)
StopSchedulerUnserialised(v) ==
  /\ save[v] = "written" /\ LifecycleFree
  /\ saver' = v
  /\ StopLocked
  /\ save' = [save EXCEPT ![v] = "stopped"]
  /\ UNCHANGED <<stored, want, gens, config, loop, running, verifying, closing, unseen>>
  /\ UNCHANGED workVars

StopScheduler(v) ==
  /\ save[v] = "written" /\ saver = None /\ LifecycleFree
  /\ saver' = v
  /\ StopLocked
  /\ save' = [save EXCEPT ![v] = "stopped"]
  /\ UNCHANGED <<stored, want, gens, config, loop, running, verifying, closing, unseen>>
  /\ UNCHANGED workVars

(* StartScheduler resolves the settings; unreadable ones arm nothing.      *)
ReadSettings(v) ==
  /\ save[v] = "stopped"
  /\ \/ want' = [want EXCEPT ![v] = stored] /\ save' = [save EXCEPT ![v] = "read"]
        /\ UNCHANGED saver
     \/ save' = [save EXCEPT ![v] = "refused"] /\ saver' = None /\ UNCHANGED want
  /\ UNCHANGED <<stored, loop, stopped, running, verifying, closing, unseen>>
  /\ UNCHANGED armVars /\ UNCHANGED workVars

(* Start or StartScheduled, a no-op once Close has latched the scheduler.  *)
Arm(v) ==
  /\ save[v] = "read" /\ LifecycleFree
  /\ save' = [save EXCEPT ![v] = "done"] /\ saver' = None
  /\ want' = [want EXCEPT ![v] = Off]
  /\ IF want[v] = Off \/ closing # "open"
     THEN UNCHANGED <<gens, config, loop, armed, stopped>>
     ELSE /\ gens < MaxGens
          /\ gens' = gens + 1 /\ armed' = gens + 1
          /\ config' = [config EXCEPT ![gens + 1] = want[v]]
          /\ loop' = [loop EXCEPT ![gens + 1] = "waiting"]
          /\ stopped' = FALSE
  /\ UNCHANGED <<stored, running, verifying, closing, unseen>>
  /\ UNCHANGED workVars

-----------------------------------------------------------------------------
(* The goroutine of one generation.  Its timer delivers nothing once       *)
(* stopped, but what it has delivered is handled.                          *)
Fire(g) ==
  /\ loop[g] = "waiting" /\ armed = g
  /\ loop' = [loop EXCEPT ![g] = "fired"]
  /\ UNCHANGED <<stopped, running, verifying, closing, unseen>>
  /\ UNCHANGED saveVars /\ UNCHANGED armVars /\ UNCHANGED workVars

LoopEnds(g) ==
  /\ loop[g] = "waiting" /\ armed # g
  /\ loop' = [loop EXCEPT ![g] = "ended"]
  /\ UNCHANGED <<stopped, running, verifying, closing, unseen>>
  /\ UNCHANGED saveVars /\ UNCHANGED armVars /\ UNCHANGED workVars

MayBegin == ~stopped /\ ~running

(* beginCycle, one critical section; a fire that finds a cycle running is  *)
(* skipped, with a history row if that cycle waits for its check.          *)
BeginCycle(g) ==
  /\ loop[g] = "fired"
  /\ loop' = [loop EXCEPT ![g] = "begun"]
  /\ \/ /\ MayBegin
        /\ \E c \in Cycles : cycle[c] = "idle" /\ cycle' = [cycle EXCEPT ![c] = "starting"]
        /\ running' = TRUE
        /\ UNCHANGED unseen
     \/ /\ ~MayBegin
        /\ unseen' = (unseen \/ (~stopped /\ ~verifying /\ check # "none"))
        /\ UNCHANGED <<cycle, running>>
  /\ UNCHANGED <<stopped, verifying, guard, check, closing>>
  /\ UNCHANGED saveVars /\ UNCHANGED armVars

(* MUTANT: the goroutine ends when it finds a cycle running.               *)
AdvanceUnlessRunning(g) ==
  /\ loop[g] = "begun"
  /\ loop' = [loop EXCEPT ![g] = IF running THEN "ended" ELSE "waiting"]
  /\ UNCHANGED <<stopped, running, verifying, closing, unseen>>
  /\ UNCHANGED saveVars /\ UNCHANGED armVars /\ UNCHANGED workVars

(* The loop goes on, whether or not a cycle began.                         *)
Advance(g) ==
  /\ loop[g] = "begun"
  /\ loop' = [loop EXCEPT ![g] = "waiting"]
  /\ UNCHANGED <<stopped, running, verifying, closing, unseen>>
  /\ UNCHANGED saveVars /\ UNCHANGED armVars /\ UNCHANGED workVars

-----------------------------------------------------------------------------
(* A cycle: RunBackup, then the weekly check if it is on and due.          *)
CycleGoes(c, from, to) ==
  /\ cycle[c] = from /\ cycle' = [cycle EXCEPT ![c] = to]
  /\ UNCHANGED <<loop, stopped, closing, unseen>>
  /\ UNCHANGED saveVars /\ UNCHANGED armVars

(* RunBackup gets the global guard, or is refused and a row says so.       *)
RunBackup(c) ==
  /\ \/ guard = "free" /\ guard' = "backup" /\ CycleGoes(c, "starting", "backup")
     \/ guard' = guard /\ CycleGoes(c, "starting", "ending")
  /\ UNCHANGED <<running, verifying, check>>

BackupEnds(c) ==
  /\ CycleGoes(c, "backup", "deciding") \/ CycleGoes(c, "backup", "ending")
  /\ guard' = "free"
  /\ UNCHANGED <<running, verifying, check>>

CheckIsDue(c) ==
  /\ CycleGoes(c, "deciding", "launching")
  /\ verifying' = TRUE
  /\ UNCHANGED <<running, guard, check>>

NoCheck(c) ==
  /\ CycleGoes(c, "deciding", "ending")
  /\ UNCHANGED <<running, verifying, guard, check>>

LaunchVerify(c) ==
  /\ \/ check' = "launched" /\ CycleGoes(c, "launching", "waiting")
     \/ check' = check /\ CycleGoes(c, "launching", "verified")
  /\ UNCHANGED <<running, verifying, guard>>

(* The wait ends with the check, or with the scheduler's context.          *)
WaitEnds(c) ==
  /\ check = "none" \/ closing # "open"
  /\ CycleGoes(c, "waiting", "verified")
  /\ UNCHANGED <<running, verifying, guard, check>>

Verified(c) ==
  /\ CycleGoes(c, "verified", "ending")
  /\ verifying' = FALSE
  /\ UNCHANGED <<running, guard, check>>

(* The two deferred calls: running, then the WaitGroup.                    *)
CycleEnds(c) ==
  /\ CycleGoes(c, "ending", "leaving")
  /\ running' = FALSE
  /\ UNCHANGED <<verifying, guard, check>>

CycleLeaves(c) ==
  /\ CycleGoes(c, "leaving", "idle")
  /\ UNCHANGED <<running, verifying, guard, check>>

(* The check's goroutine in the registry, refused when the guard is taken. *)
CheckBegins ==
  /\ check = "launched"
  /\ \/ guard = "free" /\ guard' = "check" /\ check' = "running"
     \/ guard # "free" /\ check' = "none" /\ UNCHANGED guard
  /\ UNCHANGED <<loop, stopped, running, verifying, cycle, closing, unseen>>
  /\ UNCHANGED saveVars /\ UNCHANGED armVars

CheckEnds ==
  /\ check = "running"
  /\ check' = "none" /\ guard' = "free"
  /\ UNCHANGED <<loop, stopped, running, verifying, cycle, closing, unseen>>
  /\ UNCHANGED saveVars /\ UNCHANGED armVars

(* A manual backup, restore, sync, prune or check.                         *)
OtherJob ==
  /\ \/ guard = "free" /\ guard' = "other"
     \/ guard = "other" /\ guard' = "free"
  /\ UNCHANGED <<loop, stopped, running, verifying, cycle, check, closing, unseen>>
  /\ UNCHANGED saveVars /\ UNCHANGED armVars

-----------------------------------------------------------------------------
(* Close at shutdown: latched, stopped, the context cancelled; it waits    *)
(* for the cycle, ten seconds at most.                                     *)
Close ==
  /\ closing = "open"
  /\ closing' = "waiting"
  /\ StopLocked
  /\ UNCHANGED <<gens, config, loop, running, verifying, unseen>>
  /\ UNCHANGED saveVars /\ UNCHANGED workVars

CloseReturns ==
  /\ closing = "waiting"
  /\ \/ (\A c \in Cycles : cycle[c] = "idle") /\ closing' = "quiet"
     \/ closing' = "gaveUp"
  /\ UNCHANGED <<loop, stopped, running, verifying, unseen>>
  /\ UNCHANGED saveVars /\ UNCHANGED armVars /\ UNCHANGED workVars

-----------------------------------------------------------------------------
SaveStep(v) == StopScheduler(v) \/ ReadSettings(v) \/ Arm(v)
LoopStep(g) == Fire(g) \/ LoopEnds(g) \/ BeginCycle(g) \/ Advance(g)
CycleStep(c) ==
  \/ RunBackup(c) \/ BackupEnds(c)
  \/ CheckIsDue(c) \/ NoCheck(c) \/ LaunchVerify(c) \/ WaitEnds(c) \/ Verified(c)
  \/ CycleEnds(c) \/ CycleLeaves(c)

Next ==
  \/ \E v \in Saves : (\E s \in Schedules : WriteSettings(v, s)) \/ SaveStep(v)
  \/ \E g \in Gens : LoopStep(g)
  \/ \E c \in Cycles : CycleStep(c)
  \/ CheckBegins \/ CheckEnds \/ OtherJob
  \/ Close \/ CloseReturns

Spec == Init /\ [][Next]_vars

(* Goroutines are scheduled and timers fire; a backup has its deadline     *)
(* (backupCycleTimeout), a check too (verifyTimeout), as every other job.  *)
(* Nobody has to save settings or to shut down.                            *)
FairSpec ==
  /\ Spec
  /\ \A v \in Saves : WF_vars(SaveStep(v))
  /\ \A g \in Gens : WF_vars(LoopStep(g))
  /\ \A c \in Cycles : WF_vars(CycleStep(c))
  /\ WF_vars(CheckBegins) /\ WF_vars(CheckEnds) /\ WF_vars(CloseReturns)

-----------------------------------------------------------------------------
TypeOK ==
  /\ stored \in Schedules
  /\ save \in [Saves -> {"idle", "written", "stopped", "read", "refused", "done"}]
  /\ want \in [Saves -> Schedules]
  /\ saver \in Saves \cup {None}
  /\ gens \in 0..MaxGens
  /\ config \in [Gens -> Schedules]
  /\ loop \in [Gens -> {"none", "waiting", "fired", "begun", "ended"}]
  /\ armed \in 0..MaxGens
  /\ stopped \in BOOLEAN /\ running \in BOOLEAN /\ verifying \in BOOLEAN /\ unseen \in BOOLEAN
  /\ cycle \in [Cycles -> CycleStages]
  /\ guard \in {"free", "backup", "check", "other"}
  /\ check \in {"none", "launched", "running"}
  /\ closing \in {"open", "waiting", "quiet", "gaveUp"}

(* Single flight across re-armings: whatever goroutine of whatever         *)
(* schedule fires, one cycle at most is between its guard and its end.     *)
OneCycleAtATime ==
  \A c, d \in Cycles :
    cycle[c] \notin {"idle", "leaving"} /\ cycle[d] \notin {"idle", "leaving"} => c = d

(* Close that returned without giving up has left no cycle, and none       *)
(* begins afterwards, though a save or a late fire may still come.         *)
ClosedMeansQuiet == closing = "quiet" => \A c \in Cycles : cycle[c] = "idle"

(* A backup that falls due while the weekly check is launched or running   *)
(* is never skipped without its history row (agent-os-ffaj).               *)
NoUnseenSkip == ~unseen

(* When no save is under way, the armed schedule is the saved one: the     *)
(* last of two overlapping saves wins in the database and in the scheduler.*)
SavedScheduleIsArmed ==
  (\A v \in Saves : save[v] \in {"idle", "done"}) /\ closing = "open"
    => IF stored = Off THEN armed = 0
       ELSE armed # 0 /\ config[armed] = stored

(* A schedule that stays armed goes on beginning cycles: no skipped,       *)
(* refused or failed cycle ends its goroutine, and none, with or without   *)
(* its check, leaves the single-flight flag set.                           *)
ArmedKeepsBacking ==
  \A g \in Gens : <>[](armed = g) => []<>(\E c \in Cycles : cycle[c] = "starting")

(* A save is answered, whatever cycle runs and whoever shuts down: the two *)
(* mutexes and the wait of Close do not deadlock.                          *)
EverySaveReturns == \A v \in Saves : save[v] = "written" ~> save[v] \in {"done", "refused"}

(* What no fire, save, check or shutdown may break.                        *)
SchedulerInv ==
  TypeOK /\ OneCycleAtATime /\ ClosedMeansQuiet /\ NoUnseenSkip /\ SavedScheduleIsArmed

(* Nothing that may be refused, fail or wait stops the scheduler or a save.*)
SchedulerLives == ArmedKeepsBacking /\ EverySaveReturns

=============================================================================
