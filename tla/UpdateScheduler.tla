--------------------------- MODULE UpdateScheduler --------------------------
(***************************************************************************)
(* What makes updates be looked for and applied (services/scheduler.go):   *)
(* the ticks, the scans users ask for, the loop that applies at a set time *)
(* and the calls that stop, restart and close all of it, with the saves of *)
(* the settings that make those calls.  What an apply does is in           *)
(* AutoUpdate; here it takes a while and ends.                             *)
(***************************************************************************)
EXTENDS Integers

CONSTANTS
  Tasks,      \* goroutines of ticks and of scans that users ask for
  Loops,      \* goroutines of runApplyLoop
  Saves,      \* requests that save the settings
  Intervals,  \* scan intervals; Nil is the interval 0, no scans
  Closer,     \* main.go at shutdown
  Nil

ASSUME SchedulerAssumption ==
  /\ Nil \notin Tasks \cup Loops \cup Saves \cup Intervals \cup {Closer}
  /\ Tasks \cap Loops = {} /\ Closer \notin Saves

Modes == {"immediate", "scheduled"}
Rates == Intervals \cup {Nil}

VARIABLES
  task,   \* where a task is
  loop,   \* where an apply loop is
  now,    \* the loop that Stop and ReloadApplySchedule reach
  flag,   \* SchedulerService.scanning, with the goroutine that set it
  timer,  \* the current loop's next instant: armed, come, to be read again
  stored, \* the settings update_apply_mode and update_scan_interval
  save,   \* how far a save is, and what it still has to tell the scheduler
  life    \* the ticker's interval, stopped, closed, who holds lifecycleMu,
          \* whether all was waited for

schedVars == <<task, loop, now, flag, timer, stored, save, life>>

(* The types of the variables. *)
SchedTypeOK ==
  /\ task \in [Tasks -> {"idle", "begun", "cycle", "scan", "mode", "apply"}]
  /\ loop \in [Loops -> {"off", "wait", "late", "apply"}]
  /\ now \in Loops \cup {Nil}
  /\ flag \in Tasks \cup Loops \cup {Nil}
  /\ timer \in [armed : BOOLEAN, due : BOOLEAN, rearm : BOOLEAN, known : BOOLEAN]
  /\ stored \in [mode : Modes, interval : Rates]
  /\ save \in [Saves -> [step : {"idle", "written", "halting", "reload"},
                       changed : BOOLEAN, to : Rates, reload : BOOLEAN]]
  /\ life \in [rate : Rates, stopped : BOOLEAN, closed : BOOLEAN, joined : BOOLEAN,
               by : Saves \cup {Closer, Nil}]

(* loadApplySchedule and nextApplyInstant, when the settings can be read. *)
Timer(known) ==
  [armed |-> known /\ stored.mode = "scheduled", due |-> FALSE, rearm |-> FALSE, known |-> known]

NoTimer == [armed |-> FALSE, due |-> FALSE, rearm |-> FALSE, known |-> FALSE]
NoSave == [step |-> "idle", changed |-> FALSE, to |-> Nil, reload |-> FALSE]

(* After main.go started the scheduler; it cannot if the stored interval is *)
(* 0 or could not be read.                                                  *)
SchedInit ==
  /\ task = [k \in Tasks |-> "idle"]
  /\ now \in Loops \cup {Nil}
  /\ loop = [l \in Loops |-> IF l = now THEN "wait" ELSE "off"]
  /\ flag = Nil
  /\ stored \in [mode : Modes, interval : Rates]
  /\ now # Nil => stored.interval # Nil
  /\ \E known \in BOOLEAN : timer = IF now = Nil THEN NoTimer ELSE Timer(known)
  /\ save = [v \in Saves |-> NoSave]
  /\ life = [rate |-> IF now = Nil THEN Nil ELSE stored.interval, stopped |-> FALSE, closed |-> FALSE, joined |-> FALSE, by |-> Nil]

TaskGoes(k, from, to) == task[k] = from /\ task' = [task EXCEPT ![k] = to]

(***************************************************************************)
(* Ticks and scans.                                                        *)
(***************************************************************************)
MayBegin == ~life.stopped

Tick(k) ==
  /\ now # Nil /\ MayBegin
  /\ TaskGoes(k, "idle", "begun")
  /\ UNCHANGED <<loop, now, flag, timer, stored, save, life>>

RunScan(k) ==
  /\ IF flag = Nil
       THEN TaskGoes(k, "begun", "cycle") /\ flag' = k
       ELSE TaskGoes(k, "begun", "idle") /\ UNCHANGED flag
  /\ UNCHANGED <<loop, now, timer, stored, save, life>>

StartBackgroundScan(k) ==
  /\ MayBegin /\ flag = Nil
  /\ TaskGoes(k, "idle", "scan")
  /\ flag' = k
  /\ UNCHANGED <<loop, now, timer, stored, save, life>>

(* performScan, failed or not, and the deferred reset of the flag. *)
ScanFails(k) ==
  /\ task[k] \in {"cycle", "scan"}
  /\ TaskGoes(k, task[k], "idle")
  /\ flag' = Nil
  /\ UNCHANGED <<loop, now, timer, stored, save, life>>

ScanReturns(k) ==
  /\ task[k] \in {"cycle", "scan"}
  /\ TaskGoes(k, task[k], IF task[k] = "cycle" THEN "mode" ELSE "idle")
  /\ flag' = Nil
  /\ UNCHANGED <<loop, now, timer, stored, save, life>>

(* The rest of runCycle: a scheduled or unreadable mode applies nothing. *)
ReadMode(k) ==
  /\ \E known \in BOOLEAN :
       TaskGoes(k, "mode", IF known /\ stored.mode = "immediate" THEN "apply" ELSE "idle")
  /\ UNCHANGED <<loop, now, flag, timer, stored, save, life>>

ApplyReturns(k) ==
  /\ TaskGoes(k, "apply", "idle")
  /\ UNCHANGED <<loop, now, flag, timer, stored, save, life>>

TaskWorks(k) == RunScan(k) \/ ScanFails(k) \/ ScanReturns(k) \/ ReadMode(k) \/ ApplyReturns(k)

(***************************************************************************)
(* The apply loop.                                                         *)
(***************************************************************************)
Waits(l) == l = now /\ loop[l] = "wait"

InstantComes(l) ==
  /\ Waits(l) /\ timer.armed /\ ~timer.due
  /\ timer' = [timer EXCEPT !.due = TRUE]
  /\ UNCHANGED <<task, loop, now, flag, stored, save, life>>

MayApply == MayBegin /\ flag = Nil

(* A stopped loop that its timer has woken is late: it still tries. *)
Fires(l) == (Waits(l) /\ timer.due) \/ loop[l] = "late"

ApplyNow(l) ==
  /\ Fires(l) /\ MayApply
  /\ loop' = [loop EXCEPT ![l] = "apply"]
  /\ flag' = l
  /\ UNCHANGED <<task, now, timer, stored, save, life>>

(* MUTANT: a deferred apply is over for the day. *)
AfterDeferralSkipped(t) == [t EXCEPT !.due = FALSE]

(* applyNow returned false: the instant stays in the past and is retried. *)
AfterDeferral(t) == t

ApplyDeferred(l) ==
  /\ Fires(l) /\ ~MayApply
  /\ IF loop[l] = "late"
       THEN loop' = [loop EXCEPT ![l] = "off"] /\ UNCHANGED timer
       ELSE timer' = AfterDeferral(timer) /\ UNCHANGED loop
  /\ UNCHANGED <<task, now, flag, stored, save, life>>

(* MUTANT: the deferred reset is missing. *)
ApplyEndsKeepingFlag(l) ==
  /\ loop[l] = "apply"
  /\ loop' = [loop EXCEPT ![l] = IF l = now THEN "wait" ELSE "off"]
  /\ timer' = IF l = now THEN [timer EXCEPT !.due = FALSE] ELSE timer
  /\ UNCHANGED <<task, now, flag, stored, save, life>>

(* A loop that was stopped while it applied sees that now. *)
ApplyEnds(l) ==
  /\ loop[l] = "apply"
  /\ flag' = Nil
  /\ loop' = [loop EXCEPT ![l] = IF l = now THEN "wait" ELSE "off"]
  /\ timer' = IF l = now THEN [timer EXCEPT !.due = FALSE] ELSE timer
  /\ UNCHANGED <<task, now, stored, save, life>>

Rearm(l) ==
  /\ Waits(l) /\ timer.rearm
  /\ \E known \in BOOLEAN : timer' = Timer(known)
  /\ UNCHANGED <<task, loop, now, flag, stored, save, life>>

LoopWorks(l) == ApplyNow(l) \/ ApplyEnds(l) \/ Rearm(l)

(***************************************************************************)
(* A save: the settings, then Restart or Stop if the interval changed,     *)
(* then ReloadApplySchedule if it says anything of the schedule.           *)
(***************************************************************************)
(* scanIntervalMu is held from before the read of the old interval to the  *)
(* end of the save.                                                        *)
MayChange == \A v \in Saves : ~save[v].changed

WriteSettings(v, m, i, reload) ==
  /\ save[v] = NoSave
  /\ i # stored.interval => MayChange
  /\ m # stored.mode => reload
  /\ i # stored.interval \/ reload
  /\ stored' = [mode |-> m, interval |-> i]
  /\ save' = [save EXCEPT ![v] =
       IF i = stored.interval
         THEN [step |-> "reload", changed |-> FALSE, to |-> Nil, reload |-> TRUE]
         ELSE [step |-> "written", changed |-> TRUE, to |-> i, reload |-> reload]]
  /\ UNCHANGED <<task, loop, now, flag, timer, life>>

(* The interval is dealt with. *)
Onward(v) ==
  save' = [save EXCEPT ![v] = IF @.reload THEN [@ EXCEPT !.step = "reload"] ELSE NoSave]

(* stopLocked up to its wait: no ticker, and no loop that waits. *)
StopLocked(by, closed) ==
  /\ life' = [rate |-> Nil, stopped |-> TRUE, closed |-> closed, joined |-> FALSE, by |-> by]
  /\ now' = Nil
  /\ \E to \in {"off", "late"} :
       /\ to = "late" => timer.due
       /\ loop' = [l \in Loops |-> IF Waits(l) THEN to ELSE loop[l]]
  /\ timer' = NoTimer

Halt(v) ==
  /\ save[v].step = "written" /\ life.by = Nil
  /\ IF life.closed /\ save[v].to # Nil
       THEN Onward(v) /\ UNCHANGED <<life, now, loop, timer>>
       ELSE save' = [save EXCEPT ![v].step = "halting"] /\ StopLocked(v, life.closed)
  /\ UNCHANGED <<task, flag, stored>>

Quiet == (\A k \in Tasks : task[k] = "idle") /\ (\A l \in Loops : loop[l] # "apply")

(* The bounded wait is over; a restart goes on to startLocked. *)
StartLocked(known) ==
  \E l \in Loops :
    /\ loop[l] = "off"
    /\ loop' = [loop EXCEPT ![l] = "wait"]
    /\ now' = l
    /\ timer' = Timer(known)

HaltReturns(v) ==
  /\ save[v].step = "halting"
  /\ Onward(v)
  /\ \E waited \in BOOLEAN :
       /\ waited => Quiet
       /\ life' = [life EXCEPT !.by = Nil, !.joined = waited /\ save[v].to = Nil,
                               !.stopped = (save[v].to = Nil), !.rate = save[v].to]
  /\ IF save[v].to = Nil
       THEN UNCHANGED <<loop, now, timer>>
       ELSE \E known \in BOOLEAN : StartLocked(known)
  /\ UNCHANGED <<task, flag, stored>>

(* MUTANT: the channel has no room, so only a waiting loop gets a re-arm. *)
ReloadUnbuffered(v) ==
  /\ save[v].step = "reload"
  /\ save' = [save EXCEPT ![v] = NoSave]
  /\ timer' = [timer EXCEPT !.rearm = @ \/ (\E l \in Loops : Waits(l))]
  /\ UNCHANGED <<task, loop, now, flag, stored, life>>

(* The channel holds one re-arm, so a loop that is applying gets it later. *)
ReloadApplySchedule(v) ==
  /\ save[v].step = "reload"
  /\ save' = [save EXCEPT ![v] = NoSave]
  /\ timer' = [timer EXCEPT !.rearm = now # Nil]
  /\ UNCHANGED <<task, loop, now, flag, stored, life>>

Close ==
  /\ ~life.closed /\ life.by = Nil
  /\ StopLocked(Closer, TRUE)
  /\ UNCHANGED <<task, flag, stored, save>>

CloseReturns ==
  /\ life.by = Closer
  /\ \E waited \in BOOLEAN :
       /\ waited => Quiet
       /\ life' = [life EXCEPT !.by = Nil, !.joined = waited]
  /\ UNCHANGED <<task, loop, now, flag, timer, stored, save>>

SchedNext ==
  \/ \E k \in Tasks : Tick(k) \/ StartBackgroundScan(k) \/ TaskWorks(k)
  \/ \E l \in Loops : InstantComes(l) \/ ApplyDeferred(l) \/ LoopWorks(l)
  \/ \E v \in Saves :
       \/ \E m \in Modes, i \in Rates, reload \in BOOLEAN : WriteSettings(v, m, i, reload)
       \/ Halt(v) \/ HaltReturns(v) \/ ReloadApplySchedule(v)
  \/ Close \/ CloseReturns

SchedSpec == SchedInit /\ [][SchedNext]_schedVars

(* Goroutines that can take a step take it: scans and applies run under *)
(* deadlines, and a waiting loop wakes at least once per hop.           *)
Fairness ==
  /\ \A k \in Tasks : WF_schedVars(TaskWorks(k))
  /\ \A l \in Loops : WF_schedVars(LoopWorks(l))

FairSchedSpec == SchedSpec /\ Fairness

(***************************************************************************)
(* Properties.                                                             *)
(***************************************************************************)
(* A scan and a scheduled apply are never under way together, nor two of   *)
(* either, across restarts too: each holds `scanning` from its first step  *)
(* to its last (scheduler.go:535-600, 888-911).                            *)
ScanAndApplyTakeTurns ==
  /\ \A k \in Tasks : task[k] \in {"cycle", "scan"} => flag = k
  /\ \A l \in Loops : loop[l] = "apply" => flag = l

(* Once a stop or a close has waited for everything, nothing runs until a  *)
(* restart: no tick, no request and no timer gets in behind the wait       *)
(* (scheduler.go:374-381, 562-571, 888-897).                               *)
StoppedMeansQuiet == (life.stopped /\ life.joined) => Quiet

(* A saved schedule reaches the loop: with no save under way, a waiting    *)
(* loop that has nothing to read again is armed for what is stored, unless *)
(* it could not read it (scheduler.go:330-353, 782-790).                   *)
SavedModeIsArmed ==
  (now # Nil /\ (\A v \in Saves : save[v] = NoSave)) =>
    \/ timer.rearm \/ ~timer.known
    \/ timer.armed = (stored.mode = "scheduled")

(* The scheduler ends up with the interval that is stored: a save that has *)
(* told it of a new interval leaves no other one stored behind its back    *)
(* (settings.go:770-791, 832-838).                                         *)
StoredIntervalRuns ==
  [][\A v \in Saves : (save[v].step = "halting" /\ save'[v].step # "halting") =>
       life'.rate = stored'.interval]_schedVars

(* An instant of the schedule that has come is not lost to a scan that was *)
(* under way: it stays due until an apply has run for it, the settings are *)
(* read again, or the scheduler stops (scheduler.go:793-803).              *)
DueIsNotLost ==
  [][(timer.due /\ ~timer'.due) =>
       (\E l \in Loops : loop[l] = "apply" /\ l = now) \/ timer.rearm \/ life'.stopped]_schedVars

(* A due apply waits for ever only if scans go on for ever: none of those  *)
(* who set `scanning` leaves it set.                                       *)
DueIsApplied ==
  <>[](timer.due /\ \A l \in Loops : loop[l] # "apply")
    => []<>(\E k \in Tasks : task[k] \in {"cycle", "scan"})

(* What no tick, scan, apply, save, restart or close may break. *)
UpdaterInv == SchedTypeOK /\ ScanAndApplyTakeTurns /\ StoppedMeansQuiet /\ SavedModeIsArmed

(* Neither what was saved nor an instant that has come is lost on the way. *)
NothingSavedIsLost == StoredIntervalRuns /\ DueIsNotLost
=============================================================================
