---------------------------- MODULE BackupRunner ----------------------------
(***************************************************************************)
(* services.BackupRunnerRegistry: durable backup, restore, sync, prune and *)
(* verify runs, the database row each one has, the clients that watch      *)
(* them over a WebSocket, shutdown, and the sweep at the next boot.        *)
(*                                                                         *)
(* A run's service call is abstracted to what the registry sees of it: the *)
(* lines it emits and the result it returns.  Log lines are numbered from  *)
(* 1; the replay buffer holds the lines dropped+1 .. logged, so a buffer   *)
(* is two numbers.                                                         *)
(***************************************************************************)
EXTENDS Integers, Sequences, FiniteSets

CONSTANTS Runs,          \* run IDs
          Clients,       \* WebSocket clients
          MaxLines,      \* bound: lines a run emits
          ReplayBufMax,  \* replayBufMax
          MaxAttachers,  \* maxAttachersPerRun
          MaxBoots       \* bound: restarts of the server

ASSUME BoundsAssumption ==
  /\ MaxLines \in Nat /\ MaxBoots \in Nat
  /\ ReplayBufMax \in Nat \ {0} /\ MaxAttachers \in Nat \ {0}

VARIABLES
  row,        \* row[r]: backup_runs.status of r, or "absent"
  faulted,    \* runs whose terminal row could not be written (history)
  kind,       \* kind[r]: who writes the terminal row (see Kinds)
  pc,         \* pc[r]: the goroutine of r
  result,     \* result[r]: what the service call came to
  owesRow,    \* runs whose terminal row the registry has to write itself
  outcome,    \* durableRun.outcome
  registry,   \* the runs in reg.runs
  emitted, logged, dropped,
  attachers,  \* durableRun.attachers
  stopped,    \* beginStop has committed
  joined,     \* StopWithTimeout has seen every goroutine finish
  up, boots,
  client      \* client[c]: one client of the WebSocket route

runVars    == <<kind, pc, result, owesRow, outcome>>
logVars    == <<emitted, logged, dropped>>
dbVars     == <<row, faulted>>
serverVars == <<stopped, joined, up, boots>>
vars == <<row, faulted, kind, pc, result, owesRow, outcome, registry, emitted,
          logged, dropped, attachers, stopped, joined, up, boots, client>>

(* "backup" runs write their own row (BackupService.finaliseRun), every    *)
(* other launched operation ("op") leaves it to the registry, and a        *)
(* "scheduled" backup runs without the registry (BackupService.RunBackup). *)
Kinds == {"backup", "op", "scheduled"}
Outcomes == {"success", "partial", "failed", "skipped"}
Terminal == Outcomes \cup {"interrupted"}

Stages == {"none",      \* not launched
           "created",   \* row written, registerAndAdd not yet reached
           "refused",   \* registerAndAdd refused it: the server is stopping
           "exec",      \* inside the service call
           "finalised", \* the service has written the row (a sync may follow)
           "returned",  \* the call is over, finish() waits for the drain
           "flushed",   \* every line is in the replay buffer
           "persisted", \* outcome set, row written or given up
           "done",      \* done is closed and the WaitGroup released
           "lost"}      \* the process died under it
Registered == {"exec", "finalised", "returned", "flushed", "persisted"}

NoRun == "norun"
IdleClient == [at |-> "idle", run |-> NoRun, cursor |-> 0, got |-> <<>>,
               streamed |-> FALSE, told |-> "unset", guessed |-> FALSE]

Init ==
  /\ row = [r \in Runs |-> "absent"] /\ faulted = {}
  /\ kind = [r \in Runs |-> "op"]
  /\ pc = [r \in Runs |-> "none"]
  /\ result = [r \in Runs |-> "unset"]
  /\ owesRow = {}
  /\ outcome = [r \in Runs |-> "unset"]
  /\ registry = {}
  /\ emitted = [r \in Runs |-> 0]
  /\ logged = [r \in Runs |-> 0]
  /\ dropped = [r \in Runs |-> 0]
  /\ attachers = [r \in Runs |-> 0]
  /\ stopped = FALSE /\ joined = FALSE /\ up = TRUE /\ boots = 0
  /\ client = [c \in Clients |-> IdleClient]

-----------------------------------------------------------------------------
(* Launching.  The row comes first, so a run the registry then refuses is  *)
(* left "running" for the next boot's sweep.                               *)
CreateBackupRun(r, k) ==
  /\ up /\ pc[r] = "none"
  /\ row' = [row EXCEPT ![r] = "running"]
  /\ kind' = [kind EXCEPT ![r] = k]
  /\ pc' = [pc EXCEPT ![r] = IF k = "scheduled" THEN "exec" ELSE "created"]
  /\ UNCHANGED <<faulted, result, owesRow, outcome, registry, attachers, client>>
  /\ UNCHANGED <<logVars, serverVars>>

(* A scheduled backup that was refused before it began, or a scheduler     *)
(* that could not be armed, gets a row of its own, already finished.       *)
RecordUnstartedCycle(r, status) ==
  /\ up /\ pc[r] = "none"
  /\ row' = [row EXCEPT ![r] = status]
  /\ kind' = [kind EXCEPT ![r] = "scheduled"]
  /\ pc' = [pc EXCEPT ![r] = "done"]
  /\ UNCHANGED <<faulted, result, owesRow, outcome, registry, attachers, client>>
  /\ UNCHANGED <<logVars, serverVars>>

(* MUTANT: a launch that races the shutdown is registered all the same.    *)
RegisterWhileStopping(r) ==
  /\ pc[r] = "created"
  /\ pc' = [pc EXCEPT ![r] = "exec"] /\ registry' = registry \cup {r}
  /\ UNCHANGED <<kind, result, owesRow, outcome, attachers, client>>
  /\ UNCHANGED <<dbVars, logVars, serverVars>>

RegisterAndAdd(r) ==
  /\ pc[r] = "created"
  /\ IF stopped
     THEN pc' = [pc EXCEPT ![r] = "refused"] /\ UNCHANGED registry
     ELSE pc' = [pc EXCEPT ![r] = "exec"] /\ registry' = registry \cup {r}
  /\ UNCHANGED <<kind, result, owesRow, outcome, attachers, client>>
  /\ UNCHANGED <<dbVars, logVars, serverVars>>

-----------------------------------------------------------------------------
(* The service call.                                                       *)
Emit(r) ==
  /\ pc[r] \in {"exec", "finalised"} /\ kind[r] # "scheduled"
  /\ emitted[r] < MaxLines
  /\ emitted' = [emitted EXCEPT ![r] = @ + 1]
  /\ UNCHANGED <<logged, dropped, registry, attachers, client>>
  /\ UNCHANGED <<dbVars, runVars, serverVars>>

(* drainLoop's goroutine appends the next line; a full buffer slides.      *)
AppendLog(r) ==
  /\ pc[r] \in {"exec", "finalised", "returned"}
  /\ logged[r] < emitted[r]
  /\ logged' = [logged EXCEPT ![r] = @ + 1]
  /\ dropped' = IF logged[r] - dropped[r] >= ReplayBufMax
                THEN [dropped EXCEPT ![r] = @ + 1] ELSE dropped
  /\ UNCHANGED <<emitted, registry, attachers, client>>
  /\ UNCHANGED <<dbVars, runVars, serverVars>>

(* UpdateBackupRun: it takes effect, or the fault is only logged.          *)
WriteRow(r, status) ==
  \/ /\ row[r] # "absent"
     /\ row' = [row EXCEPT ![r] = status]
     /\ UNCHANGED faulted
  \/ faulted' = faulted \cup {r} /\ UNCHANGED row

(* executeBackupRun ends with finaliseRun; the post-backup sync comes      *)
(* after it, and its failure is a second write.                            *)
ServiceFinalises(r, s) ==
  /\ pc[r] = "exec" /\ kind[r] \in {"backup", "scheduled"}
  /\ s \in {"success", "partial", "failed"}
  /\ WriteRow(r, s)
  /\ result' = [result EXCEPT ![r] = s]
  /\ pc' = [pc EXCEPT ![r] = "finalised"]
  /\ UNCHANGED <<kind, owesRow, outcome, registry, attachers, client>>
  /\ UNCHANGED <<logVars, serverVars>>

AfterFailedSync(s) == IF s = "success" THEN "partial" ELSE s

SyncFails(r) ==
  /\ pc[r] = "finalised"
  /\ WriteRow(r, AfterFailedSync(result[r]))
  /\ result' = [result EXCEPT ![r] = AfterFailedSync(@)]
  /\ pc' = [pc EXCEPT ![r] = "returned"]
  /\ UNCHANGED <<kind, owesRow, outcome, registry, attachers, client>>
  /\ UNCHANGED <<logVars, serverVars>>

ServiceReturns(r) ==
  /\ pc[r] = "finalised"
  /\ pc' = [pc EXCEPT ![r] = "returned"]
  /\ UNCHANGED <<kind, result, owesRow, outcome, registry, attachers, client>>
  /\ UNCHANGED <<dbVars, logVars, serverVars>>

(* The call ends without having written the row: any other operation's     *)
(* result, or a backup refused before it began (busy, unavailable).        *)
ServiceEnds(r, s) ==
  /\ pc[r] = "exec"
  /\ \/ kind[r] = "op" /\ s \in Outcomes
     \/ kind[r] = "backup" /\ s = "failed"
  /\ result' = [result EXCEPT ![r] = s]
  /\ owesRow' = owesRow \cup {r}
  /\ pc' = [pc EXCEPT ![r] = "returned"]
  /\ UNCHANGED <<kind, outcome, registry, attachers, client>>
  /\ UNCHANGED <<dbVars, logVars, serverVars>>

(* A panic in the service call: finish() still runs, then recoverExec.     *)
Panic(r) ==
  /\ pc[r] \in {"exec", "finalised"} /\ kind[r] # "scheduled"
  /\ result' = [result EXCEPT ![r] = "failed"]
  /\ owesRow' = owesRow \cup {r}
  /\ pc' = [pc EXCEPT ![r] = "returned"]
  /\ UNCHANGED <<kind, outcome, registry, attachers, client>>
  /\ UNCHANGED <<dbVars, logVars, serverVars>>

(* finish(): close out and wait for the drain goroutine.                   *)
Flush(r) ==
  /\ pc[r] = "returned"
  /\ logged[r] = emitted[r]
  /\ pc' = [pc EXCEPT ![r] = IF kind[r] = "scheduled" THEN "done" ELSE "flushed"]
  /\ UNCHANGED <<kind, result, owesRow, outcome, registry, attachers, client>>
  /\ UNCHANGED <<dbVars, logVars, serverVars>>

(* The outcome is set and the owed row written, both before done closes.   *)
Finalise(r) ==
  /\ pc[r] = "flushed"
  /\ outcome' = [outcome EXCEPT ![r] = result[r]]
  /\ IF r \in owesRow THEN WriteRow(r, result[r]) ELSE UNCHANGED dbVars
  /\ pc' = [pc EXCEPT ![r] = "persisted"]
  /\ UNCHANGED <<kind, result, owesRow, registry, attachers, client>>
  /\ UNCHANGED <<logVars, serverVars>>

(* close(dr.done), then wg.Done: the last two deferred calls.              *)
CloseDone(r) ==
  /\ pc[r] = "persisted"
  /\ pc' = [pc EXCEPT ![r] = "done"]
  /\ UNCHANGED <<kind, result, owesRow, outcome, registry, attachers, client>>
  /\ UNCHANGED <<dbVars, logVars, serverVars>>

-----------------------------------------------------------------------------
(* evictFinished on one entry: only a finished run whose row is gone or    *)
(* has a finish time (written with the terminal status) older than the     *)
(* retention; a row still "running" keeps its entry.                       *)
MayEvict(r) == pc[r] = "done" /\ row[r] \in {"absent"} \cup Terminal

Evict(r) ==
  /\ up /\ ~stopped
  /\ r \in registry /\ MayEvict(r)
  /\ registry' = registry \ {r}
  /\ UNCHANGED <<attachers, client>>
  /\ UNCHANGED <<dbVars, runVars, logVars, serverVars>>

(* History retention deletes the row of a run days old, which no client    *)
(* is still being answered about.                                          *)
DeleteOldRow(r) ==
  /\ up /\ pc[r] \in {"done", "refused", "lost"} /\ row[r] # "absent"
  /\ \A c \in Clients : client[c].run = r => client[c].at \in {"told", "refused", "gone"}
  /\ row' = [row EXCEPT ![r] = "absent"]
  /\ UNCHANGED <<faulted, registry, attachers, client>>
  /\ UNCHANGED <<runVars, logVars, serverVars>>

-----------------------------------------------------------------------------
(* One client of /ws/backups/<action>/:runId.  at: "idle", "copied" (the   *)
(* replay buffer copied, done not yet looked at), "live", "leaving" (gone, *)
(* its forwarder not yet), "ended" (Live closed, outcome not yet looked    *)
(* up), "told", "refused", "gone".                                         *)
(* MUTANT: the cursor is an index into log, which slides (agent-os-7ifk).  *)
BufferedByIndex(r, from) ==
  LET first == dropped[r] + from
  IN  [i \in 1..(logged[r] - first) |-> first + i]

Buffered(r, from) ==  \* linesFrom(cursor): the lines after cursor still held
  LET first == IF from > dropped[r] THEN from ELSE dropped[r]
  IN  [i \in 1..(logged[r] - first) |-> first + i]

UnchangedButClient ==
  /\ UNCHANGED <<registry, attachers>>
  /\ UNCHANGED <<dbVars, runVars, logVars, serverVars>>

(* Attach without a registry entry: the row answers, and a row that is not *)
(* terminal is reported as a failed run whose state was lost.              *)
FromDatabase(r) == IF row[r] \in Terminal THEN row[r] ELSE "failed"

AttachToRow(c, r) ==
  /\ up /\ client[c].at = "idle"
  /\ r \notin registry /\ row[r] # "absent"
  /\ client' = [client EXCEPT ![c] =
       [@ EXCEPT !.at = "told", !.run = r, !.told = FromDatabase(r),
                 !.guessed = row[r] = "running"]]
  /\ UnchangedButClient

(* Attach to an entry: snapshot() copies the buffer under the run's mutex, *)
(* and looks at done after releasing it.                                   *)
AttachCopies(c, r) ==
  /\ up /\ client[c].at = "idle"
  /\ r \in registry
  /\ client' = [client EXCEPT ![c] =
       [@ EXCEPT !.at = "copied", !.run = r, !.got = Buffered(r, 0),
                 !.cursor = logged[r]]]
  /\ UnchangedButClient

AttachDecides(c) ==
  LET r == client[c].run IN
  /\ up /\ client[c].at = "copied"
  /\ \/ /\ pc[r] = "done"
        /\ client' = [client EXCEPT ![c].at = "told", ![c].told = outcome[r]]
        /\ UNCHANGED attachers
     \/ /\ pc[r] # "done" /\ attachers[r] < MaxAttachers
        /\ client' = [client EXCEPT ![c].at = "live", ![c].streamed = TRUE]
        /\ attachers' = [attachers EXCEPT ![r] = @ + 1]
     \/ /\ pc[r] # "done" /\ attachers[r] >= MaxAttachers
        /\ client' = [client EXCEPT ![c].at = "refused"]
        /\ UNCHANGED attachers
  /\ UNCHANGED registry
  /\ UNCHANGED <<dbVars, runVars, logVars, serverVars>>

(* forwardLive's poll: everything from the cursor on.                      *)
Poll(c) ==
  LET r == client[c].run IN
  /\ up /\ client[c].at = "live"
  /\ client[c].cursor < logged[r]
  /\ client' = [client EXCEPT ![c].got = @ \o Buffered(r, client[c].cursor),
                              ![c].cursor = logged[r]]
  /\ UnchangedButClient

(* done is closed: forwardLive flushes the tail, gives its slot back and   *)
(* only then closes Live.                                                  *)
ForwarderEnds(c) ==
  LET r == client[c].run IN
  /\ up /\ client[c].at = "live" /\ pc[r] = "done"
  /\ client' = [client EXCEPT ![c].got = @ \o Buffered(r, client[c].cursor),
                              ![c].cursor = logged[r], ![c].at = "ended"]
  /\ attachers' = [attachers EXCEPT ![r] = @ - 1]
  /\ UNCHANGED registry
  /\ UNCHANGED <<dbVars, runVars, logVars, serverVars>>

(* MUTANT: the outcome is looked up in the registry only.                  *)
TellOutcomeFromRegistry(c) ==
  LET r == client[c].run IN
  /\ up /\ client[c].at = "ended" /\ r \in registry
  /\ client' = [client EXCEPT ![c].at = "told", ![c].told = outcome[r]]
  /\ UnchangedButClient

(* wsAttach looks the outcome up and sends the done frame.                 *)
TellOutcome(c) ==
  LET r == client[c].run IN
  /\ up /\ client[c].at = "ended"
  /\ client' = [client EXCEPT ![c].at = "told",
       ![c].told = IF r \in registry THEN outcome[r]
                   ELSE IF row[r] = "absent" THEN "failed"
                   ELSE FromDatabase(r)]
  /\ UnchangedButClient

Leave(c) ==
  /\ up /\ client[c].at \in {"copied", "live"}
  /\ client' = [client EXCEPT ![c].at = IF @ = "live" THEN "leaving" ELSE "gone"]
  /\ UnchangedButClient

(* The forwarder sees clientGone and exits.                                *)
ForwarderSeesGone(c) ==
  LET r == client[c].run IN
  /\ up /\ client[c].at = "leaving"
  /\ client' = [client EXCEPT ![c].at = "gone"]
  /\ attachers' = [attachers EXCEPT ![r] = @ - 1]
  /\ UNCHANGED registry
  /\ UNCHANGED <<dbVars, runVars, logVars, serverVars>>

-----------------------------------------------------------------------------
(* Shutdown, the end of the process, and the next boot.                    *)
BeginStop ==
  /\ up /\ ~stopped
  /\ stopped' = TRUE
  /\ UNCHANGED <<joined, up, boots, registry, attachers, client>>
  /\ UNCHANGED <<dbVars, runVars, logVars>>

Adding == {r \in Runs : pc[r] \in Registered /\ kind[r] # "scheduled"}

WaitReturns ==
  /\ up /\ stopped /\ ~joined
  /\ Adding = {}
  /\ joined' = TRUE
  /\ UNCHANGED <<stopped, up, boots, registry, attachers, client>>
  /\ UNCHANGED <<dbVars, runVars, logVars>>

(* The process ends: killed, or StopWithTimeout gave up waiting.           *)
Crash ==
  /\ up /\ boots < MaxBoots
  /\ up' = FALSE
  /\ registry' = {}
  /\ pc' = [r \in Runs |-> IF pc[r] \in {"none", "done", "refused"} THEN pc[r] ELSE "lost"]
  /\ attachers' = [r \in Runs |-> 0]
  /\ client' = [c \in Clients |-> IdleClient]
  /\ UNCHANGED <<kind, result, owesRow, outcome, stopped, joined, boots>>
  /\ UNCHANGED <<dbVars, logVars>>

(* MUTANT: the sweep forgets its WHERE clause.                             *)
SweepEverything == [r \in Runs |-> IF row[r] = "absent" THEN "absent" ELSE "interrupted"]

(* SweepInterruptedBackupRuns, at every boot; its failure is only logged.  *)
Sweep == [r \in Runs |-> IF row[r] = "running" THEN "interrupted" ELSE row[r]]

Boot ==
  /\ ~up
  /\ up' = TRUE /\ stopped' = FALSE /\ joined' = FALSE
  /\ boots' = boots + 1
  /\ \/ row' = Sweep /\ UNCHANGED faulted
     \/ faulted' = faulted \cup {r \in Runs : row[r] = "running"} /\ UNCHANGED row
  /\ UNCHANGED <<registry, attachers, client>>
  /\ UNCHANGED <<runVars, logVars>>

-----------------------------------------------------------------------------
RunStep(r) ==
  \/ RegisterAndAdd(r) \/ AppendLog(r)
  \/ \E s \in Outcomes : ServiceFinalises(r, s) \/ ServiceEnds(r, s)
  \/ SyncFails(r) \/ ServiceReturns(r) \/ Panic(r)
  \/ Flush(r) \/ Finalise(r) \/ CloseDone(r)

ClientStep(c) ==
  AttachDecides(c) \/ Poll(c) \/ ForwarderEnds(c) \/ TellOutcome(c) \/ ForwarderSeesGone(c)

Next ==
  \/ \E r \in Runs : \/ \E k \in Kinds : CreateBackupRun(r, k)
                     \/ \E s \in {"skipped", "failed"} : RecordUnstartedCycle(r, s)
                     \/ RunStep(r) \/ Emit(r) \/ Evict(r) \/ DeleteOldRow(r)
  \/ \E c \in Clients : \/ \E r \in Runs : AttachToRow(c, r) \/ AttachCopies(c, r)
                        \/ ClientStep(c) \/ Leave(c)
  \/ BeginStop \/ WaitReturns \/ Crash \/ Boot

Spec == Init /\ [][Next]_vars

(* The goroutine of a run is scheduled and its service call returns (every *)
(* restic and rclone child has a deadline), the forwarders and the handler *)
(* of a client are scheduled, and the GC ticks.  Nobody has to launch,     *)
(* attach, leave, stop or crash.                                           *)
FairSpec ==
  /\ Spec
  /\ \A r \in Runs : WF_vars(RunStep(r)) /\ WF_vars(Evict(r))
  /\ \A c \in Clients : WF_vars(ClientStep(c))

-----------------------------------------------------------------------------
TypeOK ==
  /\ row \in [Runs -> Terminal \cup {"absent", "running"}]
  /\ faulted \subseteq Runs /\ owesRow \subseteq Runs /\ registry \subseteq Runs
  /\ kind \in [Runs -> Kinds]
  /\ pc \in [Runs -> Stages]
  /\ result \in [Runs -> Outcomes \cup {"unset"}]
  /\ outcome \in [Runs -> Outcomes \cup {"unset"}]
  /\ emitted \in [Runs -> Nat] /\ logged \in [Runs -> Nat] /\ dropped \in [Runs -> Nat]
  /\ attachers \in [Runs -> Int]
  /\ stopped \in BOOLEAN /\ joined \in BOOLEAN /\ up \in BOOLEAN
  /\ boots \in 0..MaxBoots

(* When done is closed the row already says what the clients will be told: *)
(* after a panic, a refused call and a failed post-backup sync as well.    *)
OutcomePersisted ==
  \A r \in Runs :
    pc[r] = "done" /\ kind[r] # "scheduled" /\ r \notin faulted
      => row[r] \in {outcome[r], "absent"}

(* No row is left "running" with nothing behind it: a panic finalises it,  *)
(* a refusal waits for the next boot, and the boot sweeps what a crash     *)
(* cut off.                                                                *)
NoStrandedRow ==
  \A r \in Runs :
    up /\ row[r] = "running" /\ r \notin faulted
      => \/ pc[r] \in Registered \cup {"created"}
         \/ pc[r] = "refused" /\ stopped

(* Once Stop's wait has returned, no run goroutine is left or starts: the  *)
(* database may be closed.                                                 *)
JoinedMeansQuiet == joined /\ up => Adding = {}

(* A client is told an outcome only when the run is over, and told what    *)
(* the run's record says: never the "success" a backup writes before the   *)
(* post-backup sync that may still take it back.                           *)
ToldOnlyWhenOver ==
  \A c \in Clients :
    LET r == client[c].run IN
    client[c].at = "told" /\ ~client[c].guessed /\ kind[r] # "scheduled"
      => /\ pc[r] \in {"done", "lost", "refused"}
         /\ pc[r] = "done" /\ r \notin faulted => client[c].told = outcome[r]

Received(c) == {client[c].got[i] : i \in DOMAIN client[c].got}

(* A client that streamed to the end received every line once, in order,   *)
(* but for lines the buffer had already let go.                            *)
StreamIsComplete ==
  \A c \in Clients :
    LET r == client[c].run  got == client[c].got IN
    client[c].streamed /\ client[c].at \in {"ended", "told"}
      => /\ \A n \in 1..logged[r] : n \in Received(c) \/ n <= dropped[r]
         /\ \A i \in 1..Len(got) - 1 : got[i] < got[i + 1]

(* The slots of a run are the forwarders that run now: no exit leaks one,  *)
(* and none is given back twice.                                           *)
SlotsAreForwarders ==
  \A r \in Runs :
    /\ attachers[r] = Cardinality({c \in Clients : client[c].run = r
                                      /\ client[c].at \in {"live", "leaving"}})
    /\ attachers[r] <= MaxAttachers

(* Every attached client gets its end: a done frame, a refusal, or it left.*)
EveryClientIsAnswered ==
  \A c \in Clients :
    client[c].at \in {"copied", "live", "leaving", "ended"}
      ~> client[c].at \in {"told", "refused", "gone", "idle"}

(* What keeps the registry safe, whatever fails and whenever it stops.     *)
RunnerInv ==
  TypeOK /\ OutcomePersisted /\ NoStrandedRow /\ JoinedMeansQuiet /\ SlotsAreForwarders

(* What a client reads and is told is what the run did.                    *)
StreamsAreTrue == ToldOnlyWhenOver /\ StreamIsComplete

(* What the history shows of a run: see RunRecord.                         *)
Record == INSTANCE RunRecord WITH status <- row
RecordSpec == Record!Spec

=============================================================================
