------------------------- MODULE BackupRunnerProofs -------------------------
(***************************************************************************)
(* Theorems about the backup runner registry, for any runs and clients,    *)
(* any number of lines and any bounds of the buffer and of the slots.      *)
(***************************************************************************)
EXTENDS BackupRunner, TLAPS, FiniteSetTheorems

(* What the row, the call's result and the outcome say of each other at    *)
(* every stage of a run, unless a terminal write of it has failed.         *)
Writing == {"success", "partial", "failed"}

Written(r, status) == row[r] = status \/ r \in faulted

RowFollowsRun(r) ==
  /\ pc[r] = "none" => row[r] = "absent"
  /\ pc[r] \in {"created", "exec"} => row[r] = "running"
  /\ pc[r] = "finalised" =>
       result[r] \in Writing /\ row[r] \in {"running", result[r]} /\ Written(r, result[r])
  /\ pc[r] \in {"returned", "flushed"} =>
       /\ result[r] \in Outcomes /\ row[r] # "absent"
       /\ r \notin owesRow => Written(r, result[r])
       /\ r \in owesRow => \/ row[r] = "running"
                           \/ result[r] = "failed" /\ row[r] \in Writing
  /\ pc[r] = "persisted" =>
       outcome[r] \in Outcomes /\ row[r] # "absent" /\ Written(r, outcome[r])
  /\ pc[r] = "done" =>
       /\ kind[r] # "scheduled" =>
            outcome[r] \in Outcomes /\ (row[r] = "absent" \/ Written(r, outcome[r]))
       /\ row[r] = "running" => r \in faulted

RowFollows == \A r \in Runs : RowFollowsRun(r)

(* Only runs of the registry, past their call, can owe their row to it.    *)
OwedByRegistry ==
  \A r \in owesRow : kind[r] # "scheduled" /\ pc[r] \notin {"none", "created", "exec", "finalised"}

RowInv == RowFollows /\ OwedByRegistry /\ NoStrandedRow

(* Only runs that go through the registry wait to enter it; it has an      *)
(* entry for each of them that is under way, none of them starts once Stop *)
(* has committed, and nothing runs while the server is down.               *)
LifeInv ==
  /\ \A r \in Runs : pc[r] = "created" => kind[r] # "scheduled"
  /\ \A r \in Runs : r \in registry => kind[r] # "scheduled" /\ pc[r] \in Registered \cup {"done"}
  /\ \A r \in Runs : pc[r] \in Registered /\ kind[r] # "scheduled" => r \in registry
  /\ joined => stopped
  /\ JoinedMeansQuiet
  /\ ~up => boots < MaxBoots /\ \A r \in Runs : pc[r] \in {"none", "done", "refused", "lost"}


(* The clients: what they are, and what they know of their run.            *)
Watching == {"copied", "live", "leaving", "ended"}

ClientRecord ==
  [at : Watching \cup {"idle", "told", "refused", "gone"}, run : Runs \cup {NoRun},
   cursor : Nat, got : Seq(Nat), streamed : BOOLEAN, told : Terminal \cup {"unset"},
   guessed : BOOLEAN]

ClientTypes == client \in [Clients -> ClientRecord]

(* A client that watches has a run of the registry's, under way or done,   *)
(* whose row cannot be deleted while its outcome is still to be asked for. *)
KnowsRun(c) ==
  LET r == client[c].run IN
  /\ client[c].at # "idle" => r \in Runs /\ pc[r] # "none"
  /\ client[c].at \in Watching =>
       kind[r] # "scheduled" /\ pc[r] \in Registered \cup {"done"}
  /\ client[c].at \in {"live", "leaving", "ended"} => row[r] # "absent"
  /\ client[c].at = "ended" => pc[r] = "done"
  /\ client[c].at \in {"idle", "copied"} => ~client[c].streamed
  /\ client[c].at = "told" /\ client[c].streamed => pc[r] = "done"

ClientsKnow == \A c \in Clients : KnowsRun(c)

(* What ToldOnlyWhenOver says of one client.                               *)
ToldTruly(c) ==
  LET r == client[c].run IN
  client[c].at = "told" /\ ~client[c].guessed /\ kind[r] # "scheduled"
    => /\ pc[r] \in {"done", "lost", "refused"}
       /\ pc[r] = "done" /\ r \notin faulted => client[c].told = outcome[r]

ClientInv == ClientTypes /\ ClientsKnow /\ ToldOnlyWhenOver

(* A client has every line up to its cursor that the buffer has not let    *)
(* go, and none beyond it, in order.                                       *)
HasUpTo(c, r) ==
  LET got == client[c].got IN
  /\ client[c].cursor <= logged[r]
  /\ \A n \in 1..client[c].cursor : n \in Received(c) \/ n <= dropped[r]
  /\ \A i \in 1..Len(got) : got[i] <= client[c].cursor
  /\ \A i \in 1..Len(got) - 1 : got[i] < got[i + 1]

StreamOf(c) ==
  LET r == client[c].run  got == client[c].got IN
  /\ client[c].at \in Watching => HasUpTo(c, r)
  /\ client[c].at = "idle" => got = <<>>
  /\ client[c].at = "ended" => client[c].cursor = logged[r]
  /\ client[c].streamed /\ client[c].at = "told" =>
       /\ \A n \in 1..logged[r] : n \in Received(c) \/ n <= dropped[r]
       /\ \A i \in 1..Len(got) - 1 : got[i] < got[i + 1]

StreamInv ==
  (\A r \in Runs : dropped[r] <= logged[r]) /\ (\A c \in Clients : StreamOf(c))

Forwarders(r) == {c \in Clients : client[c].run = r /\ client[c].at \in {"live", "leaving"}}

SlotsOf(r) ==
  /\ IsFiniteSet(Forwarders(r)) /\ attachers[r] = Cardinality(Forwarders(r))
  /\ attachers[r] <= MaxAttachers

SlotsInv == \A r \in Runs : SlotsOf(r)


-----------------------------------------------------------------------------
(* A counter per run stays one when one of them moves.                     *)
LEMMA Counting ==
  ASSUME NEW S, NEW f, NEW x
  PROVE  /\ [s \in S |-> 0] \in [S -> Nat] /\ [s \in S |-> 0] \in [S -> Int]
         /\ f \in [S -> Nat] => [f EXCEPT ![x] = @ + 1] \in [S -> Nat]
         /\ f \in [S -> Int] => /\ [f EXCEPT ![x] = @ + 1] \in [S -> Int]
                               /\ [f EXCEPT ![x] = @ - 1] \in [S -> Int]
  <1>1. \A n \in Int : n + 1 \in Int /\ n - 1 \in Int
    OBVIOUS
  <1>2. \A n \in Nat : n + 1 \in Nat
    OBVIOUS
  <1>3. f \in [S -> Nat] => [f EXCEPT ![x] = @ + 1] \in [S -> Nat]
    BY <1>2
  <1>4. f \in [S -> Int] => [f EXCEPT ![x] = @ + 1] \in [S -> Int]
    BY <1>1
  <1>5. f \in [S -> Int] => [f EXCEPT ![x] = @ - 1] \in [S -> Int]
    BY <1>1
  <1>6. [s \in S |-> 0] \in [S -> Nat] /\ [s \in S |-> 0] \in [S -> Int]
    OBVIOUS
  <1> QED
    BY <1>3, <1>4, <1>5, <1>6

(* There is a first boot, and one after any that is not the last.          *)
LEMMA NextBoot ==
  /\ 0 \in 0 .. MaxBoots
  /\ \A n \in 0 .. MaxBoots : n < MaxBoots => n + 1 \in 0 .. MaxBoots
  BY BoundsAssumption

(* Every step preserves the types; a boot is counted only after a crash,   *)
(* which leaves room for it.                                               *)
LEMMA TypeStep ==
  ASSUME TypeOK, LifeInv, RowInv, [Next]_vars
  PROVE  TypeOK'
  <1> USE DEF TypeOK, Kinds, Stages, Outcomes, Terminal
  <1>1. ASSUME NEW r \in Runs, NEW k \in Kinds, CreateBackupRun(r, k)
        PROVE  TypeOK'
    BY <1>1 DEF CreateBackupRun, logVars, serverVars
  <1>2. ASSUME NEW r \in Runs, NEW s \in {"skipped", "failed"}, RecordUnstartedCycle(r, s)
        PROVE  TypeOK'
    BY <1>2 DEF RecordUnstartedCycle, logVars, serverVars
  <1>3. ASSUME NEW r \in Runs, RegisterAndAdd(r) PROVE TypeOK'
    BY <1>3 DEF RegisterAndAdd, dbVars, logVars, serverVars
  <1>4. ASSUME NEW r \in Runs, AppendLog(r) PROVE TypeOK'
    <2>1. logged' \in [Runs -> Nat]
      BY <1>4, Counting DEF AppendLog
    <2>2. dropped' \in [Runs -> Nat]
      BY <1>4, Counting DEF AppendLog
    <2> QED
      BY <1>4, <2>1, <2>2 DEF AppendLog, dbVars, runVars, serverVars
  <1>5. ASSUME NEW r \in Runs, NEW s \in Outcomes, ServiceFinalises(r, s)
        PROVE  TypeOK'
    BY <1>5 DEF ServiceFinalises, WriteRow, logVars, serverVars
  <1>6. ASSUME NEW r \in Runs, NEW s \in Outcomes, ServiceEnds(r, s)
        PROVE  TypeOK'
    BY <1>6 DEF ServiceEnds, dbVars, logVars, serverVars
  <1>7. ASSUME NEW r \in Runs, SyncFails(r) PROVE TypeOK'
    <2>1. pc[r] = "finalised" /\ result[r] \in Writing
      BY <1>7 DEF SyncFails, RowInv, RowFollows, RowFollowsRun
    <2>2. AfterFailedSync(result[r]) \in Outcomes
      BY <2>1 DEF AfterFailedSync, Writing
    <2>3. result' \in [Runs -> Outcomes \cup {"unset"}] /\ pc' \in [Runs -> Stages]
      BY <1>7, <2>2 DEF SyncFails
    <2>4. row' \in [Runs -> Terminal \cup {"absent", "running"}] /\ faulted' \subseteq Runs
      BY <1>7, <2>2 DEF SyncFails, WriteRow
    <2> QED
      BY <1>7, <2>3, <2>4 DEF SyncFails, logVars, serverVars
  <1>8. ASSUME NEW r \in Runs, ServiceReturns(r) PROVE TypeOK'
    BY <1>8 DEF ServiceReturns, dbVars, logVars, serverVars
  <1>9. ASSUME NEW r \in Runs, Panic(r) PROVE TypeOK'
    BY <1>9 DEF Panic, dbVars, logVars, serverVars
  <1>10. ASSUME NEW r \in Runs, Flush(r) PROVE TypeOK'
    BY <1>10 DEF Flush, dbVars, logVars, serverVars
  <1>11. ASSUME NEW r \in Runs, Finalise(r) PROVE TypeOK'
    <2>1. pc[r] = "flushed" /\ result[r] \in Outcomes
      BY <1>11 DEF Finalise, RowInv, RowFollows, RowFollowsRun
    <2>2. outcome' \in [Runs -> Outcomes \cup {"unset"}] /\ pc' \in [Runs -> Stages]
      BY <1>11, <2>1 DEF Finalise
    <2>3. row' \in [Runs -> Terminal \cup {"absent", "running"}] /\ faulted' \subseteq Runs
      BY <1>11, <2>1 DEF Finalise, WriteRow, dbVars
    <2> QED
      BY <1>11, <2>2, <2>3 DEF Finalise, logVars, serverVars
  <1>12. ASSUME NEW r \in Runs, CloseDone(r) PROVE TypeOK'
    BY <1>12 DEF CloseDone, dbVars, logVars, serverVars
  <1>13. ASSUME NEW r \in Runs, Emit(r) PROVE TypeOK'
    <2>1. emitted' \in [Runs -> Nat]
      BY <1>13, Counting DEF Emit
    <2> QED
      BY <1>13, <2>1 DEF Emit, dbVars, runVars, serverVars
  <1>14. ASSUME NEW r \in Runs, Evict(r) PROVE TypeOK'
    BY <1>14 DEF Evict, MayEvict, dbVars, runVars, logVars, serverVars
  <1>15. ASSUME NEW r \in Runs, DeleteOldRow(r) PROVE TypeOK'
    BY <1>15 DEF DeleteOldRow, runVars, logVars, serverVars
  <1>16. ASSUME NEW c \in Clients, NEW r \in Runs, AttachToRow(c, r)
        PROVE  TypeOK'
    BY <1>16 DEF AttachToRow, FromDatabase, UnchangedButClient, runVars, logVars, dbVars, serverVars
  <1>17. ASSUME NEW c \in Clients, NEW r \in Runs, AttachCopies(c, r)
        PROVE  TypeOK'
    BY <1>17 DEF AttachCopies, UnchangedButClient, runVars, logVars, dbVars, serverVars
  <1>18. ASSUME NEW c \in Clients, AttachDecides(c) PROVE TypeOK'
    <2>1. \/ attachers' = attachers
          \/ attachers' = [attachers EXCEPT ![client[c].run] = @ + 1]
      BY <1>18 DEF AttachDecides
    <2>2. attachers' \in [Runs -> Int]
      <3>1. CASE attachers' = attachers
        BY <3>1
      <3>2. CASE attachers' = [attachers EXCEPT ![client[c].run] = @ + 1]
        <4>1. attachers \in [Runs -> Int]
          OBVIOUS
        <4> HIDE DEF TypeOK
        <4> QED
          BY <3>2, <4>1, Counting
      <3> QED
        BY <2>1, <3>1, <3>2
    <2> QED
      BY <1>18, <2>2 DEF AttachDecides, runVars, logVars, dbVars, serverVars
  <1>19. ASSUME NEW c \in Clients, Poll(c) PROVE TypeOK'
    BY <1>19 DEF Poll, UnchangedButClient, runVars, logVars, dbVars, serverVars
  <1>20. ASSUME NEW c \in Clients, ForwarderEnds(c) PROVE TypeOK'
    <2>1. attachers' \in [Runs -> Int]
      BY <1>20, Counting DEF ForwarderEnds
    <2> QED
      BY <1>20, <2>1 DEF ForwarderEnds, runVars, logVars, dbVars, serverVars
  <1>21. ASSUME NEW c \in Clients, TellOutcome(c) PROVE TypeOK'
    BY <1>21 DEF TellOutcome, FromDatabase, UnchangedButClient, runVars, logVars, dbVars, serverVars
  <1>22. ASSUME NEW c \in Clients, ForwarderSeesGone(c) PROVE TypeOK'
    <2>1. attachers' \in [Runs -> Int]
      BY <1>22, Counting DEF ForwarderSeesGone
    <2> QED
      BY <1>22, <2>1 DEF ForwarderSeesGone, runVars, logVars, dbVars, serverVars
  <1>23. ASSUME NEW c \in Clients, Leave(c) PROVE TypeOK'
    BY <1>23 DEF Leave, UnchangedButClient, runVars, logVars, dbVars, serverVars
  <1>24. CASE BeginStop
    BY <1>24 DEF BeginStop, dbVars, runVars, logVars
  <1>25. CASE WaitReturns
    BY <1>25 DEF WaitReturns, dbVars, runVars, logVars
  <1>26. CASE Crash
    <2>1. pc' \in [Runs -> Stages] /\ attachers' \in [Runs -> Int]
      BY <1>26, Counting DEF Crash
    <2> QED
      BY <1>26, <2>1 DEF Crash, dbVars, logVars
  <1>27. CASE Boot
    <2>1. boots \in 0 .. MaxBoots /\ boots < MaxBoots /\ boots' = boots + 1
      BY <1>27 DEF Boot, LifeInv
    <2>2. boots' \in 0 .. MaxBoots
      BY <2>1, NextBoot
    <2>3. row' \in [Runs -> Terminal \cup {"absent", "running"}] /\ faulted' \subseteq Runs
      BY <1>27 DEF Boot, Sweep
    <2> QED
      BY <1>27, <2>2, <2>3 DEF Boot, runVars, logVars
  <1>28. CASE UNCHANGED vars
    BY <1>28 DEF vars, runVars, logVars, dbVars, serverVars
  <1> HIDE DEF TypeOK, Kinds, Stages, Outcomes, Terminal
  <1>29. CASE \E r \in Runs : RunStep(r)
    BY <1>29, <1>3, <1>4, <1>5, <1>6, <1>7, <1>8, <1>9, <1>10, <1>11, <1>12 DEF RunStep
  <1>30. CASE \E c \in Clients : ClientStep(c)
    BY <1>30, <1>18, <1>19, <1>20, <1>21, <1>22 DEF ClientStep
  <1> QED
    BY <1>1, <1>2, <1>13, <1>14, <1>15, <1>16, <1>17, <1>23, <1>24, <1>25,
       <1>26, <1>27, <1>28, <1>29, <1>30 DEF Next

(* The initial states have their types.                                    *)
LEMMA TypeInit == Init => TypeOK
  <1> SUFFICES ASSUME Init PROVE TypeOK
    OBVIOUS
  <1> USE DEF Init, Kinds, Stages, Outcomes, Terminal
  <1>1. row \in [Runs -> Terminal \cup {"absent", "running"}] /\ kind \in [Runs -> Kinds]
    OBVIOUS
  <1>2. pc \in [Runs -> Stages]
    OBVIOUS
  <1>3. /\ result \in [Runs -> Outcomes \cup {"unset"}]
        /\ outcome \in [Runs -> Outcomes \cup {"unset"}]
    OBVIOUS
  <1>4. /\ emitted \in [Runs -> Nat] /\ logged \in [Runs -> Nat] /\ dropped \in [Runs -> Nat]
        /\ attachers \in [Runs -> Int]
    BY Counting
  <1>5. boots \in 0 .. MaxBoots
    BY NextBoot
  <1>6. /\ faulted \subseteq Runs /\ owesRow \subseteq Runs /\ registry \subseteq Runs
        /\ stopped \in BOOLEAN /\ joined \in BOOLEAN /\ up \in BOOLEAN
    OBVIOUS
  <1> QED
    BY <1>1, <1>2, <1>3, <1>4, <1>5, <1>6 DEF TypeOK

-----------------------------------------------------------------------------
(* Every step keeps the registry's life: who is in it, and that nothing    *)
(* runs after the join or while the server is down.                        *)
LEMMA LifeStep ==
  ASSUME TypeOK, LifeInv, [Next]_vars
  PROVE  LifeInv'
  <1> USE DEF TypeOK, LifeInv, JoinedMeansQuiet, Adding, Registered, Kinds, Stages
  <1>1. ASSUME NEW r \in Runs, NEW k \in Kinds, CreateBackupRun(r, k)
        PROVE  LifeInv'
    <2>1. /\ up /\ pc[r] = "none" /\ r \notin registry /\ registry' = registry
          /\ \A q \in Runs : q # r => pc'[q] = pc[q] /\ kind'[q] = kind[q]
          /\ up' /\ (joined' <=> joined) /\ (stopped' <=> stopped)
      BY <1>1 DEF CreateBackupRun, serverVars
    <2>2. /\ pc'[r] = IF k = "scheduled" THEN "exec" ELSE "created"
          /\ kind'[r] = k
      BY <1>1 DEF CreateBackupRun
    <2>3. Adding' = Adding
      <3>1. \A q \in Runs : q \in Adding' <=> q \in Adding
        BY <2>1, <2>2
      <3>2. Adding' \subseteq Runs /\ Adding \subseteq Runs
        OBVIOUS
      <3> HIDE DEF Adding
      <3> QED
        BY <3>1, <3>2
    <2>5. (joined' => stopped') /\ JoinedMeansQuiet'
      <3> HIDE DEF Adding, TypeOK
      <3> QED
        BY <2>1, <2>3
    <2>6. \A q \in Runs : pc'[q] = "created" => kind'[q] # "scheduled"
      BY <2>1, <2>2
    <2>7. \A q \in Runs : q \in registry' => kind'[q] # "scheduled" /\ pc'[q] \in Registered \cup {"done"}
      BY <2>1, <2>2
    <2>8. \A q \in Runs : pc'[q] \in Registered /\ kind'[q] # "scheduled" => q \in registry'
      BY <2>1, <2>2
    <2>9. up'
      BY <2>1
    <2> QED
      BY <2>5, <2>6, <2>7, <2>8, <2>9
  <1>2. ASSUME NEW r \in Runs, NEW s \in {"skipped", "failed"}, RecordUnstartedCycle(r, s)
        PROVE  LifeInv'
    BY <1>2 DEF RecordUnstartedCycle, logVars, serverVars
  <1>3. ASSUME NEW r \in Runs, RegisterAndAdd(r) PROVE LifeInv'
    <2>1. /\ pc[r] = "created" /\ joined' = joined /\ stopped' = stopped /\ up' = up
          /\ kind' = kind /\ boots' = boots
          /\ \A q \in Runs : q # r => pc'[q] = pc[q]
      BY <1>3 DEF RegisterAndAdd, serverVars
    <2>2. CASE stopped
      <3>1. pc'[r] = "refused" /\ registry' = registry
        BY <1>3, <2>2 DEF RegisterAndAdd
      <3> QED
        BY <2>1, <3>1
    <2>3. CASE ~stopped
      <3>1. pc'[r] = "exec" /\ registry' = registry \cup {r}
        BY <1>3, <2>3 DEF RegisterAndAdd
      <3> QED
        BY <2>1, <2>3, <3>1
    <2> QED
      BY <2>2, <2>3
  <1>4. ASSUME NEW r \in Runs, AppendLog(r) PROVE LifeInv'
    BY <1>4 DEF AppendLog, dbVars, runVars, serverVars
  <1>5. ASSUME NEW r \in Runs, NEW s \in Outcomes, ServiceFinalises(r, s)
        PROVE  LifeInv'
    BY <1>5 DEF ServiceFinalises, WriteRow, logVars, serverVars
  <1>6. ASSUME NEW r \in Runs, NEW s \in Outcomes, ServiceEnds(r, s)
        PROVE  LifeInv'
    BY <1>6 DEF ServiceEnds, dbVars, logVars, serverVars
  <1>7. ASSUME NEW r \in Runs, SyncFails(r) PROVE LifeInv'
    BY <1>7 DEF SyncFails, AfterFailedSync, WriteRow, logVars, serverVars
  <1>8. ASSUME NEW r \in Runs, ServiceReturns(r) PROVE LifeInv'
    BY <1>8 DEF ServiceReturns, dbVars, logVars, serverVars
  <1>9. ASSUME NEW r \in Runs, Panic(r) PROVE LifeInv'
    BY <1>9 DEF Panic, dbVars, logVars, serverVars
  <1>10. ASSUME NEW r \in Runs, Flush(r) PROVE LifeInv'
    BY <1>10 DEF Flush, dbVars, logVars, serverVars
  <1>11. ASSUME NEW r \in Runs, Finalise(r) PROVE LifeInv'
    BY <1>11 DEF Finalise, WriteRow, dbVars, logVars, serverVars
  <1>12. ASSUME NEW r \in Runs, CloseDone(r) PROVE LifeInv'
    BY <1>12 DEF CloseDone, dbVars, logVars, serverVars
  <1>13. ASSUME NEW r \in Runs, Emit(r) PROVE LifeInv'
    BY <1>13 DEF Emit, dbVars, runVars, serverVars
  <1>14. ASSUME NEW r \in Runs, Evict(r) PROVE LifeInv'
    BY <1>14 DEF Evict, MayEvict, dbVars, runVars, logVars, serverVars
  <1>15. ASSUME NEW r \in Runs, DeleteOldRow(r) PROVE LifeInv'
    BY <1>15 DEF DeleteOldRow, runVars, logVars, serverVars
  <1>16. ASSUME NEW c \in Clients, NEW r \in Runs, AttachToRow(c, r)
        PROVE  LifeInv'
    BY <1>16 DEF AttachToRow, FromDatabase, UnchangedButClient, runVars, logVars, dbVars, serverVars
  <1>17. ASSUME NEW c \in Clients, NEW r \in Runs, AttachCopies(c, r)
        PROVE  LifeInv'
    BY <1>17 DEF AttachCopies, UnchangedButClient, runVars, logVars, dbVars, serverVars
  <1>18. ASSUME NEW c \in Clients, AttachDecides(c) PROVE LifeInv'
    BY <1>18 DEF AttachDecides, runVars, logVars, dbVars, serverVars
  <1>19. ASSUME NEW c \in Clients, Poll(c) PROVE LifeInv'
    BY <1>19 DEF Poll, UnchangedButClient, runVars, logVars, dbVars, serverVars
  <1>20. ASSUME NEW c \in Clients, ForwarderEnds(c) PROVE LifeInv'
    BY <1>20 DEF ForwarderEnds, runVars, logVars, dbVars, serverVars
  <1>21. ASSUME NEW c \in Clients, TellOutcome(c) PROVE LifeInv'
    BY <1>21 DEF TellOutcome, FromDatabase, UnchangedButClient, runVars, logVars, dbVars, serverVars
  <1>22. ASSUME NEW c \in Clients, ForwarderSeesGone(c) PROVE LifeInv'
    BY <1>22 DEF ForwarderSeesGone, runVars, logVars, dbVars, serverVars
  <1>23. ASSUME NEW c \in Clients, Leave(c) PROVE LifeInv'
    BY <1>23 DEF Leave, UnchangedButClient, runVars, logVars, dbVars, serverVars
  <1>24. CASE BeginStop
    BY <1>24 DEF BeginStop, dbVars, runVars, logVars
  <1>25. CASE WaitReturns
    BY <1>25 DEF WaitReturns, dbVars, runVars, logVars
  <1>26. CASE Crash
    BY <1>26 DEF Crash, dbVars, logVars
  <1>27. CASE Boot
    BY <1>27 DEF Boot, Sweep, runVars, logVars
  <1>28. CASE UNCHANGED vars
    BY <1>28 DEF vars, runVars, logVars, dbVars, serverVars
  <1> HIDE DEF TypeOK, LifeInv, JoinedMeansQuiet, Adding, Registered, Kinds, Stages
  <1>29. CASE \E r \in Runs : RunStep(r)
    BY <1>29, <1>3, <1>4, <1>5, <1>6, <1>7, <1>8, <1>9, <1>10, <1>11, <1>12 DEF RunStep
  <1>30. CASE \E c \in Clients : ClientStep(c)
    BY <1>30, <1>18, <1>19, <1>20, <1>21, <1>22 DEF ClientStep
  <1> QED
    BY <1>1, <1>2, <1>13, <1>14, <1>15, <1>16, <1>17, <1>23, <1>24, <1>25,
       <1>26, <1>27, <1>28, <1>29, <1>30 DEF Next

-----------------------------------------------------------------------------
(* Every step keeps the rows in step with the runs.                        *)
LEMMA RowStep ==
  ASSUME TypeOK, LifeInv, RowInv, [Next]_vars
  PROVE  RowInv'
  <1> USE DEF TypeOK, RowInv, RowFollows, RowFollowsRun, OwedByRegistry, NoStrandedRow,
          Written, Writing, Registered, Kinds, Outcomes, Terminal
  <1>1. ASSUME NEW r \in Runs, NEW k \in Kinds, CreateBackupRun(r, k)
        PROVE  RowInv'
    BY <1>1 DEF CreateBackupRun, logVars, serverVars
  <1>2. ASSUME NEW r \in Runs, NEW s \in {"skipped", "failed"}, RecordUnstartedCycle(r, s)
        PROVE  RowInv'
    BY <1>2 DEF RecordUnstartedCycle, logVars, serverVars
  <1>3. ASSUME NEW r \in Runs, RegisterAndAdd(r) PROVE RowInv'
    <2>1. CASE stopped
      <3>1. RowFollows'
        BY <1>3, <2>1 DEF RegisterAndAdd, dbVars, logVars, serverVars
      <3>2. OwedByRegistry'
        BY <1>3, <2>1 DEF RegisterAndAdd, dbVars, logVars, serverVars
      <3>3. NoStrandedRow'
        BY <1>3, <2>1 DEF RegisterAndAdd, dbVars, logVars, serverVars
      <3> QED
        BY <3>1, <3>2, <3>3
    <2>2. CASE ~stopped
      <3>1. RowFollows'
        BY <1>3, <2>2 DEF RegisterAndAdd, dbVars, logVars, serverVars
      <3>2. OwedByRegistry'
        BY <1>3, <2>2 DEF RegisterAndAdd, dbVars, logVars, serverVars
      <3>3. NoStrandedRow'
        BY <1>3, <2>2 DEF RegisterAndAdd, dbVars, logVars, serverVars
      <3> QED
        BY <3>1, <3>2, <3>3
    <2> QED
      BY <2>1, <2>2
  <1>4. ASSUME NEW r \in Runs, AppendLog(r) PROVE RowInv'
    BY <1>4 DEF AppendLog, dbVars, runVars, serverVars
  <1>5. ASSUME NEW r \in Runs, NEW s \in Outcomes, ServiceFinalises(r, s)
        PROVE  RowInv'
    <2>1. CASE row' = [row EXCEPT ![r] = s] /\ faulted' = faulted
      BY <1>5, <2>1 DEF ServiceFinalises, logVars, serverVars
    <2>2. CASE faulted' = faulted \cup {r} /\ row' = row
      BY <1>5, <2>2 DEF ServiceFinalises, logVars, serverVars
    <2> QED
      BY <1>5, <2>1, <2>2 DEF ServiceFinalises, WriteRow
  <1>6. ASSUME NEW r \in Runs, NEW s \in Outcomes, ServiceEnds(r, s)
        PROVE  RowInv'
    BY <1>6 DEF ServiceEnds, dbVars, logVars, serverVars
  <1>7. ASSUME NEW r \in Runs, SyncFails(r) PROVE RowInv'
    <2> DEFINE s == AfterFailedSync(result[r])
    <2>1. s \in Writing /\ pc[r] = "finalised" /\ r \notin owesRow
      BY <1>7 DEF SyncFails, AfterFailedSync
    <2>2. result' = [result EXCEPT ![r] = s] /\ WriteRow(r, s)
      BY <1>7 DEF SyncFails
    <2> HIDE DEF s
    <2>3. CASE row' = [row EXCEPT ![r] = s] /\ faulted' = faulted
      <3>1. RowFollows'
        <4>1. RowFollowsRun(r)'
          BY <1>7, <2>1, <2>2, <2>3 DEF SyncFails, logVars, serverVars
        <4>2. \A q \in Runs \ {r} : RowFollowsRun(q)'
          <5>1. \A q \in Runs \ {r} : /\ pc'[q] = pc[q] /\ kind'[q] = kind[q]
                                      /\ row'[q] = row[q] /\ result'[q] = result[q]
                                      /\ outcome'[q] = outcome[q]
            BY <1>7, <2>2, <2>3 DEF SyncFails
          <5>2. owesRow' = owesRow /\ \A q \in Runs \ {r} : q \in faulted' <=> q \in faulted
            BY <1>7, <2>3 DEF SyncFails
          <5>3. \A q \in Runs \ {r} : RowFollowsRun(q)
            BY DEF RowInv, RowFollows
          <5>4. ASSUME NEW q \in Runs \ {r} PROVE RowFollowsRun(q)'
            <6>1. RowFollowsRun(q)
              BY <5>3
            <6>2. /\ pc'[q] = pc[q] /\ kind'[q] = kind[q] /\ row'[q] = row[q]
                  /\ result'[q] = result[q] /\ outcome'[q] = outcome[q] /\ owesRow' = owesRow
                  /\ q \in faulted' <=> q \in faulted
              BY <5>1, <5>2
            <6> HIDE DEF TypeOK, RowInv
            <6> QED
              BY <6>1, <6>2
          <5> QED
            BY <5>4
        <4> QED
          BY <4>1, <4>2
      <3>2. OwedByRegistry'
        BY <1>7, <2>1, <2>2, <2>3 DEF SyncFails, logVars, serverVars
      <3>3. NoStrandedRow'
        BY <1>7, <2>1, <2>2, <2>3 DEF SyncFails, logVars, serverVars
      <3> QED
        BY <3>1, <3>2, <3>3
    <2>4. CASE faulted' = faulted \cup {r} /\ row' = row
      <3>1. RowFollows'
        <4>1. RowFollowsRun(r)'
          BY <1>7, <2>1, <2>2, <2>4 DEF SyncFails, logVars, serverVars
        <4>2. \A q \in Runs \ {r} : RowFollowsRun(q)'
          <5>1. \A q \in Runs \ {r} : /\ pc'[q] = pc[q] /\ kind'[q] = kind[q]
                                      /\ row'[q] = row[q] /\ result'[q] = result[q]
                                      /\ outcome'[q] = outcome[q]
            BY <1>7, <2>2, <2>4 DEF SyncFails
          <5>2. owesRow' = owesRow /\ \A q \in Runs \ {r} : q \in faulted' <=> q \in faulted
            BY <1>7, <2>4 DEF SyncFails
          <5>3. \A q \in Runs \ {r} : RowFollowsRun(q)
            BY DEF RowInv, RowFollows
          <5>4. ASSUME NEW q \in Runs \ {r} PROVE RowFollowsRun(q)'
            <6>1. RowFollowsRun(q)
              BY <5>3
            <6>2. /\ pc'[q] = pc[q] /\ kind'[q] = kind[q] /\ row'[q] = row[q]
                  /\ result'[q] = result[q] /\ outcome'[q] = outcome[q] /\ owesRow' = owesRow
                  /\ q \in faulted' <=> q \in faulted
              BY <5>1, <5>2
            <6> HIDE DEF TypeOK, RowInv
            <6> QED
              BY <6>1, <6>2
          <5> QED
            BY <5>4
        <4> QED
          BY <4>1, <4>2
      <3>2. OwedByRegistry'
        BY <1>7, <2>1, <2>2, <2>4 DEF SyncFails, logVars, serverVars
      <3>3. NoStrandedRow'
        BY <1>7, <2>1, <2>2, <2>4 DEF SyncFails, logVars, serverVars
      <3> QED
        BY <3>1, <3>2, <3>3
    <2> QED
      BY <2>2, <2>3, <2>4 DEF WriteRow
  <1>8. ASSUME NEW r \in Runs, ServiceReturns(r) PROVE RowInv'
    BY <1>8 DEF ServiceReturns, dbVars, logVars, serverVars
  <1>9. ASSUME NEW r \in Runs, Panic(r) PROVE RowInv'
    <2>1. row[r] \in {"running"} \cup Writing
      BY <1>9 DEF Panic
    <2> QED
      BY <1>9, <2>1 DEF Panic, dbVars, logVars, serverVars
  <1>10. ASSUME NEW r \in Runs, Flush(r) PROVE RowInv'
    BY <1>10 DEF Flush, dbVars, logVars, serverVars
  <1>11. ASSUME NEW r \in Runs, Finalise(r) PROVE RowInv'
    <2>1. pc[r] = "flushed" /\ result[r] \in Outcomes /\ pc' = [pc EXCEPT ![r] = "persisted"]
      BY <1>11 DEF Finalise
    <2>2. CASE r \in owesRow /\ row' = [row EXCEPT ![r] = result[r]] /\ faulted' = faulted
      <3>1. RowFollows'
        <4>1. RowFollowsRun(r)'
          BY <1>11, <2>1, <2>2 DEF Finalise, logVars, serverVars
        <4>2. \A q \in Runs \ {r} : RowFollowsRun(q)'
          BY <1>11, <2>1, <2>2 DEF Finalise, logVars, serverVars
        <4> QED
          BY <4>1, <4>2
      <3>2. OwedByRegistry'
        BY <1>11, <2>1, <2>2 DEF Finalise, logVars, serverVars
      <3>3. NoStrandedRow'
        BY <1>11, <2>1, <2>2 DEF Finalise, logVars, serverVars
      <3> QED
        BY <3>1, <3>2, <3>3
    <2>3. CASE r \in owesRow /\ faulted' = faulted \cup {r} /\ row' = row
      BY <1>11, <2>1, <2>3 DEF Finalise, logVars, serverVars
    <2>4. CASE r \notin owesRow /\ UNCHANGED dbVars
      <3>1. RowFollows'
        <4>1. RowFollowsRun(r)'
          BY <1>11, <2>1, <2>4 DEF Finalise, dbVars, logVars, serverVars
        <4>2. \A q \in Runs \ {r} : RowFollowsRun(q)'
          BY <1>11, <2>1, <2>4 DEF Finalise, dbVars, logVars, serverVars
        <4> QED
          BY <4>1, <4>2
      <3>2. OwedByRegistry'
        BY <1>11, <2>1, <2>4 DEF Finalise, dbVars, logVars, serverVars
      <3>3. NoStrandedRow'
        BY <1>11, <2>1, <2>4 DEF Finalise, dbVars, logVars, serverVars
      <3> QED
        BY <3>1, <3>2, <3>3
    <2> QED
      BY <1>11, <2>2, <2>3, <2>4 DEF Finalise, WriteRow
  <1>12. ASSUME NEW r \in Runs, CloseDone(r) PROVE RowInv'
    BY <1>12 DEF CloseDone, dbVars, logVars, serverVars
  <1>13. ASSUME NEW r \in Runs, Emit(r) PROVE RowInv'
    BY <1>13 DEF Emit, dbVars, runVars, serverVars
  <1>14. ASSUME NEW r \in Runs, Evict(r) PROVE RowInv'
    BY <1>14 DEF Evict, MayEvict, dbVars, runVars, logVars, serverVars
  <1>15. ASSUME NEW r \in Runs, DeleteOldRow(r) PROVE RowInv'
    BY <1>15 DEF DeleteOldRow, runVars, logVars, serverVars
  <1>16. ASSUME NEW c \in Clients, NEW r \in Runs, AttachToRow(c, r)
        PROVE  RowInv'
    BY <1>16 DEF AttachToRow, FromDatabase, UnchangedButClient, runVars, logVars, dbVars, serverVars
  <1>17. ASSUME NEW c \in Clients, NEW r \in Runs, AttachCopies(c, r)
        PROVE  RowInv'
    BY <1>17 DEF AttachCopies, UnchangedButClient, runVars, logVars, dbVars, serverVars
  <1>18. ASSUME NEW c \in Clients, AttachDecides(c) PROVE RowInv'
    BY <1>18 DEF AttachDecides, runVars, logVars, dbVars, serverVars
  <1>19. ASSUME NEW c \in Clients, Poll(c) PROVE RowInv'
    BY <1>19 DEF Poll, UnchangedButClient, runVars, logVars, dbVars, serverVars
  <1>20. ASSUME NEW c \in Clients, ForwarderEnds(c) PROVE RowInv'
    BY <1>20 DEF ForwarderEnds, runVars, logVars, dbVars, serverVars
  <1>21. ASSUME NEW c \in Clients, TellOutcome(c) PROVE RowInv'
    BY <1>21 DEF TellOutcome, FromDatabase, UnchangedButClient, runVars, logVars, dbVars, serverVars
  <1>22. ASSUME NEW c \in Clients, ForwarderSeesGone(c) PROVE RowInv'
    BY <1>22 DEF ForwarderSeesGone, runVars, logVars, dbVars, serverVars
  <1>23. ASSUME NEW c \in Clients, Leave(c) PROVE RowInv'
    BY <1>23 DEF Leave, UnchangedButClient, runVars, logVars, dbVars, serverVars
  <1>24. CASE BeginStop
    BY <1>24 DEF BeginStop, dbVars, runVars, logVars
  <1>25. CASE WaitReturns
    BY <1>25 DEF WaitReturns, dbVars, runVars, logVars
  <1>26. CASE Crash
    BY <1>26 DEF Crash, dbVars, logVars
  <1>27. CASE Boot
    <2>1. CASE row' = Sweep /\ faulted' = faulted
      BY <1>27, <2>1 DEF Boot, Sweep, LifeInv, runVars, logVars
    <2>2. CASE faulted' = faulted \cup {q \in Runs : row[q] = "running"} /\ row' = row
      BY <1>27, <2>2 DEF Boot, LifeInv, runVars, logVars
    <2> QED
      BY <1>27, <2>1, <2>2 DEF Boot
  <1>28. CASE UNCHANGED vars
    BY <1>28 DEF vars, runVars, logVars, dbVars, serverVars
  <1> HIDE DEF TypeOK, RowInv, RowFollows, RowFollowsRun, OwedByRegistry, NoStrandedRow, Written, Writing, Registered, Kinds, Outcomes, Terminal
  <1>29. CASE \E r \in Runs : RunStep(r)
    BY <1>29, <1>3, <1>4, <1>5, <1>6, <1>7, <1>8, <1>9, <1>10, <1>11, <1>12 DEF RunStep
  <1>30. CASE \E c \in Clients : ClientStep(c)
    BY <1>30, <1>18, <1>19, <1>20, <1>21, <1>22 DEF ClientStep
  <1> QED
    BY <1>1, <1>2, <1>13, <1>14, <1>15, <1>16, <1>17, <1>23, <1>24, <1>25,
       <1>26, <1>27, <1>28, <1>29, <1>30 DEF Next

-----------------------------------------------------------------------------
(* What the buffer hands out after a cursor: the lines after it that are   *)
(* still held, in order.                                                   *)
LEMMA BufferedLines ==
  ASSUME NEW r, NEW from \in Nat, logged[r] \in Nat, dropped[r] \in Nat,
         from <= logged[r], dropped[r] <= logged[r]
  PROVE  LET first == IF from > dropped[r] THEN from ELSE dropped[r] IN
         /\ Buffered(r, from) \in Seq(Nat)
         /\ Len(Buffered(r, from)) = logged[r] - first
         /\ \A i \in 1 .. (logged[r] - first) : Buffered(r, from)[i] = first + i
  <1> DEFINE first == IF from > dropped[r] THEN from ELSE dropped[r]
  <1>1. first \in Nat /\ logged[r] - first \in Nat
    OBVIOUS
  <1>2. Buffered(r, from) = [i \in 1 .. (logged[r] - first) |-> first + i]
    BY DEF Buffered
  <1> HIDE DEF first
  <1>3. \A i \in 1 .. (logged[r] - first) : first + i \in Nat
    BY <1>1
  <1> DEFINE n == logged[r] - first
  <1> HIDE DEF n
  <1>4. Buffered(r, from) \in Seq(Nat) /\ Len(Buffered(r, from)) = n
    <2>1. n \in Nat /\ Buffered(r, from) = [i \in 1 .. n |-> first + i]
      BY <1>1, <1>2 DEF n
    <2>2. \A i \in 1 .. n : first + i \in Nat
      BY <1>3 DEF n
    <2> QED
      BY <2>1, <2>2
  <1>5. \A i \in 1 .. (logged[r] - first) : Buffered(r, from)[i] = first + i
    BY <1>2
  <1> QED
    BY <1>4, <1>5 DEF first, n

(* A sequence of lines has those up to cur, but for the first lo ones,     *)
(* which may have been let go, and none beyond, in order.                  *)
HasLines(s, cur, lo) ==
  /\ \A n \in 1 .. cur : (\E i \in DOMAIN s : s[i] = n) \/ n <= lo
  /\ \A i \in 1 .. Len(s) : s[i] <= cur
  /\ \A i \in 1 .. Len(s) - 1 : s[i] < s[i + 1]

LinesAfter(t, first, hi) ==
  Len(t) = hi - first /\ \A i \in 1 .. (hi - first) : t[i] = first + i

(* Appending the lines beyond cur that are still held, up to hi, to those  *)
(* up to cur gives those up to hi.                                         *)
LEMMA ReadOn ==
  ASSUME NEW s \in Seq(Nat), NEW t \in Seq(Nat), NEW cur \in Nat, NEW lo \in Nat,
         NEW hi \in Nat, NEW first \in Nat,
         first = IF cur > lo THEN cur ELSE lo, cur <= hi, lo <= hi,
         LinesAfter(t, first, hi), HasLines(s, cur, lo)
  PROVE  HasLines(s \o t, hi, lo)
  <1> DEFINE u == s \o t
             ls == Len(s)
             lt == Len(t)
  <1>1. ls \in Nat /\ lt \in Nat /\ lt = hi - first
    BY DEF LinesAfter
  <1>2. u \in Seq(Nat)
    OBVIOUS
  <1>3. Len(u) = ls + lt
    OBVIOUS
  <1>4. DOMAIN u = 1 .. (ls + lt) /\ DOMAIN s = 1 .. ls
    BY <1>2, <1>3
  <1>5. \A i \in 1 .. ls : u[i] = s[i] /\ s[i] \in Nat
    OBVIOUS
  <1>6. \A i \in 1 .. lt : u[ls + i] = first + i
    <2>1. \A i \in 1 .. lt : t[i] = first + i
      BY <1>1 DEF LinesAfter
    <2>2. \A i \in 1 .. lt : u[ls + i] = t[i]
      OBVIOUS
    <2> QED
      BY <2>1, <2>2
  <1>12. \A n \in 1 .. cur : (\E i \in DOMAIN s : s[i] = n) \/ n <= lo
    BY DEF HasLines
  <1>13. \A i \in 1 .. ls : s[i] <= cur
    BY DEF HasLines
  <1>14. \A i \in 1 .. ls - 1 : s[i] < s[i + 1]
    BY DEF HasLines
  <1> HIDE DEF u, ls, lt
  <1>7. \A i \in 1 .. (ls + lt) : i > ls =>
           i - ls \in 1 .. lt /\ u[i] = first + (i - ls)
    <2> TAKE i \in 1 .. (ls + lt)
    <2> HAVE i > ls
    <2>1. i - ls \in 1 .. lt /\ ls + (i - ls) = i
      BY <1>1
    <2> QED
      BY <2>1, <1>6
  <1>8. ASSUME NEW n \in 1 .. hi, n > lo
        PROVE  \E i \in DOMAIN u : u[i] = n
    <2>1. CASE n <= cur
      <3>1. n \in 1 .. cur /\ ~(n <= lo)
        BY <1>8, <2>1
      <3>3. PICK i \in DOMAIN s : s[i] = n
        BY <3>1, <1>12
      <3>2. i \in 1 .. ls /\ i \in DOMAIN u
        BY <1>1, <1>4
      <3> QED
        BY <3>3, <3>2, <1>5
    <2>2. CASE n > cur
      <3>1. n - first \in 1 .. lt
        BY <1>8, <2>2, <1>1
      <3>2. u[ls + (n - first)] = n
        BY <3>1, <1>6
      <3>3. ls + (n - first) \in DOMAIN u
        BY <3>1, <1>1, <1>4
      <3> QED
        BY <3>2, <3>3
    <2> QED
      BY <2>1, <2>2
  <1>9. ASSUME NEW i \in 1 .. (ls + lt) PROVE u[i] <= hi
    <2>1. CASE i > ls
      BY <2>1, <1>1, <1>7
    <2>2. CASE i <= ls
      BY <2>2, <1>1, <1>5, <1>13
    <2> QED
      BY <2>1, <2>2, <1>1
  <1>10. ASSUME NEW i \in 1 .. (ls + lt) - 1 PROVE u[i] < u[i + 1]
    <2>1. CASE i < ls
      <3>1. i \in 1 .. ls /\ i + 1 \in 1 .. ls /\ i \in 1 .. ls - 1
        BY <2>1, <1>1
      <3>2. s[i] < s[i + 1]
        BY <3>1, <1>14
      <3> QED
        BY <3>1, <3>2, <1>5
    <2>2. CASE i = ls
      <3>1. u[i] <= cur
        <4>1. i \in 1 .. ls
          BY <2>2, <1>1
        <4>2. s[i] <= cur
          BY <4>1, <1>13
        <4> QED
          BY <4>1, <4>2, <1>5
      <3>2. i + 1 \in 1 .. (ls + lt) /\ u[i + 1] = first + 1
        BY <2>2, <1>1, <1>7
      <3>3. u[i] \in Nat
        BY <2>2, <1>1, <1>5
      <3> QED
        BY <3>1, <3>2, <3>3
    <2>3. CASE i > ls
      <3>1. i \in 1 .. (ls + lt) /\ i + 1 \in 1 .. (ls + lt)
        BY <1>1
      <3>2. u[i] = first + (i - ls) /\ u[i + 1] = first + ((i + 1) - ls)
        <4>1. i > ls /\ i + 1 > ls
          BY <2>3, <1>1
        <4>2. u[i] = first + (i - ls)
          BY <3>1, <4>1, <1>7
        <4>3. u[i + 1] = first + ((i + 1) - ls)
          BY <3>1, <4>1, <1>7
        <4> QED
          BY <4>2, <4>3
      <3> QED
        BY <3>2, <1>1
    <2> QED
      BY <2>1, <2>2, <2>3, <1>1
  <1>11. \A n \in 1 .. hi : (\E i \in DOMAIN u : u[i] = n) \/ n <= lo
    BY <1>8
  <1> QED
    BY <1>2, <1>3, <1>9, <1>10, <1>11 DEF HasLines, u

-----------------------------------------------------------------------------
(* A new client has received nothing.                                      *)
LEMMA NothingYet ==
  <<>> \in Seq(Nat) /\ Len(<<>>) = 0 /\ 0 \in Nat /\ \A n \in Nat : 0 <= n
  OBVIOUS

(* A client that watches can append what its run's buffer holds.           *)
LEMMA BufferSeq ==
  ASSUME TypeOK, ClientTypes, ClientsKnow, StreamInv, NEW c \in Clients,
         client[c].at \in Watching
  PROVE  client[c].got \o Buffered(client[c].run, client[c].cursor) \in Seq(Nat)
  <1> DEFINE r == client[c].run
  <1>1. r \in Runs /\ logged[r] \in Nat /\ dropped[r] \in Nat /\ dropped[r] <= logged[r]
    BY DEF ClientsKnow, KnowsRun, Watching, TypeOK, StreamInv, StreamOf
  <1>2. client[c].cursor \in Nat /\ client[c].cursor <= logged[r] /\ client[c].got \in Seq(Nat)
    BY DEF ClientTypes, ClientRecord, StreamInv, StreamOf, HasUpTo
  <1> HIDE DEF r
  <1>3. Buffered(r, client[c].cursor) \in Seq(Nat)
    BY <1>1, <1>2, BufferedLines
  <1> QED
    BY <1>2, <1>3 DEF r

(* Every step keeps the clients' types.                                    *)
LEMMA ClientTypeStep ==
  ASSUME TypeOK, ClientTypes, ClientsKnow, StreamInv, [Next]_vars
  PROVE  ClientTypes'
  <1> USE DEF ClientTypes, ClientRecord, Watching, NoRun, Outcomes
  <1>1. ASSUME NEW r \in Runs, NEW k \in Kinds, CreateBackupRun(r, k)
        PROVE  ClientTypes'
    BY <1>1 DEF CreateBackupRun, logVars, serverVars
  <1>2. ASSUME NEW r \in Runs, NEW s \in {"skipped", "failed"}, RecordUnstartedCycle(r, s)
        PROVE  ClientTypes'
    BY <1>2 DEF RecordUnstartedCycle, logVars, serverVars
  <1>3. ASSUME NEW r \in Runs, RegisterAndAdd(r) PROVE ClientTypes'
    BY <1>3 DEF RegisterAndAdd, dbVars, logVars, serverVars
  <1>4. ASSUME NEW r \in Runs, AppendLog(r) PROVE ClientTypes'
    BY <1>4 DEF AppendLog, dbVars, runVars, serverVars
  <1>5. ASSUME NEW r \in Runs, NEW s \in Outcomes, ServiceFinalises(r, s)
        PROVE  ClientTypes'
    BY <1>5 DEF ServiceFinalises, WriteRow, logVars, serverVars
  <1>6. ASSUME NEW r \in Runs, NEW s \in Outcomes, ServiceEnds(r, s)
        PROVE  ClientTypes'
    BY <1>6 DEF ServiceEnds, dbVars, logVars, serverVars
  <1>7. ASSUME NEW r \in Runs, SyncFails(r) PROVE ClientTypes'
    BY <1>7 DEF SyncFails, AfterFailedSync, WriteRow, logVars, serverVars
  <1>8. ASSUME NEW r \in Runs, ServiceReturns(r) PROVE ClientTypes'
    BY <1>8 DEF ServiceReturns, dbVars, logVars, serverVars
  <1>9. ASSUME NEW r \in Runs, Panic(r) PROVE ClientTypes'
    BY <1>9 DEF Panic, dbVars, logVars, serverVars
  <1>10. ASSUME NEW r \in Runs, Flush(r) PROVE ClientTypes'
    BY <1>10 DEF Flush, dbVars, logVars, serverVars
  <1>11. ASSUME NEW r \in Runs, Finalise(r) PROVE ClientTypes'
    BY <1>11 DEF Finalise, WriteRow, dbVars, logVars, serverVars
  <1>12. ASSUME NEW r \in Runs, CloseDone(r) PROVE ClientTypes'
    BY <1>12 DEF CloseDone, dbVars, logVars, serverVars
  <1>13. ASSUME NEW r \in Runs, Emit(r) PROVE ClientTypes'
    BY <1>13 DEF Emit, dbVars, runVars, serverVars
  <1>14. ASSUME NEW r \in Runs, Evict(r) PROVE ClientTypes'
    BY <1>14 DEF Evict, MayEvict, dbVars, runVars, logVars, serverVars
  <1>15. ASSUME NEW r \in Runs, DeleteOldRow(r) PROVE ClientTypes'
    BY <1>15 DEF DeleteOldRow, runVars, logVars, serverVars
  <1>16. ASSUME NEW c \in Clients, NEW r \in Runs, AttachToRow(c, r)
        PROVE  ClientTypes'
    <2> DEFINE told == FromDatabase(r)
               guessed == row[r] = "running"
    <2>1. told \in Terminal \cup {"unset"}
      BY DEF FromDatabase, TypeOK, Terminal
    <2>2. guessed \in BOOLEAN
      OBVIOUS
    <2>3. client' = [client EXCEPT ![c] = [@ EXCEPT !.at = "told", !.run = r,
                                                   !.told = told, !.guessed = guessed]]
      BY <1>16 DEF AttachToRow
    <2> HIDE DEF told, guessed
    <2>4. [client[c] EXCEPT !.at = "told", !.run = r, !.told = told, !.guessed = guessed]
            \in ClientRecord
      BY <2>1, <2>2
    <2> QED
      BY <2>3, <2>4
  <1>17. ASSUME NEW c \in Clients, NEW r \in Runs, AttachCopies(c, r)
        PROVE  ClientTypes'
    <2>1. logged[r] \in Nat /\ dropped[r] \in Nat /\ dropped[r] <= logged[r]
      BY DEF TypeOK, StreamInv
    <2>2. Buffered(r, 0) \in Seq(Nat)
      <3>1. 0 \in Nat /\ 0 <= logged[r]
        BY <2>1, NothingYet
      <3> QED
        BY <2>1, <3>1, BufferedLines
    <2>3. [client[c] EXCEPT !.at = "copied", !.run = r, !.got = Buffered(r, 0),
                            !.cursor = logged[r]] \in ClientRecord
      BY <2>1, <2>2
    <2> HIDE DEF ClientRecord
    <2> QED
      BY <1>17, <2>3 DEF AttachCopies
  <1>18. ASSUME NEW c \in Clients, AttachDecides(c) PROVE ClientTypes'
    <2>1. client[c].run \in Runs
      BY <1>18 DEF AttachDecides, ClientsKnow, KnowsRun
    <2>2. outcome[client[c].run] \in Terminal \cup {"unset"}
      BY <2>1 DEF TypeOK, Terminal
    <2>3. [client[c] EXCEPT !.at = "told", !.told = outcome[client[c].run]] \in ClientRecord
      BY <2>2
    <2>4. [client[c] EXCEPT !.at = "live", !.streamed = TRUE] \in ClientRecord
      OBVIOUS
    <2>5. [client[c] EXCEPT !.at = "refused"] \in ClientRecord
      OBVIOUS
    <2>6. \/ client' = [client EXCEPT ![c] = [@ EXCEPT !.at = "told", !.told = outcome[client[c].run]]]
          \/ client' = [client EXCEPT ![c] = [@ EXCEPT !.at = "live", !.streamed = TRUE]]
          \/ client' = [client EXCEPT ![c] = [@ EXCEPT !.at = "refused"]]
      BY <1>18 DEF AttachDecides
    <2> HIDE DEF ClientRecord
    <2> QED
      BY <2>3, <2>4, <2>5, <2>6
  <1>19. ASSUME NEW c \in Clients, Poll(c) PROVE ClientTypes'
    <2>1. client[c].got \o Buffered(client[c].run, client[c].cursor) \in Seq(Nat)
      BY <1>19, BufferSeq DEF Poll
    <2>2. logged[client[c].run] \in Nat
      BY <1>19 DEF Poll, ClientsKnow, KnowsRun, TypeOK
    <2> QED
      BY <1>19, <2>1, <2>2 DEF Poll
  <1>20. ASSUME NEW c \in Clients, ForwarderEnds(c) PROVE ClientTypes'
    <2> DEFINE got == client[c].got \o Buffered(client[c].run, client[c].cursor)
    <2>1. got \in Seq(Nat)
      BY <1>20, BufferSeq DEF ForwarderEnds
    <2>2. logged[client[c].run] \in Nat
      BY <1>20 DEF ForwarderEnds, ClientsKnow, KnowsRun, TypeOK
    <2>3. client' = [client EXCEPT ![c] = [@ EXCEPT !.got = got, !.cursor = logged[client[c].run],
                                                   !.at = "ended"]]
      BY <1>20 DEF ForwarderEnds
    <2> HIDE DEF got
    <2>4. [client[c] EXCEPT !.got = got, !.cursor = logged[client[c].run], !.at = "ended"]
            \in ClientRecord
      BY <2>1, <2>2
    <2> QED
      BY <2>3, <2>4
  <1>21. ASSUME NEW c \in Clients, TellOutcome(c) PROVE ClientTypes'
    <2>1. client[c].run \in Runs
      BY <1>21 DEF TellOutcome, ClientsKnow, KnowsRun
    <2>2. /\ outcome[client[c].run] \in Terminal \cup {"unset"}
          /\ FromDatabase(client[c].run) \in Terminal \cup {"unset"}
          /\ "failed" \in Terminal \cup {"unset"}
      BY <2>1 DEF TypeOK, FromDatabase, Terminal
    <2>3. PICK told \in Terminal \cup {"unset"} :
            client' = [client EXCEPT ![c] = [@ EXCEPT !.at = "told", !.told = told]]
      BY <1>21, <2>2 DEF TellOutcome
    <2>4. [client[c] EXCEPT !.at = "told", !.told = told] \in ClientRecord
      OBVIOUS
    <2> QED
      BY <2>3, <2>4
  <1>22. ASSUME NEW c \in Clients, ForwarderSeesGone(c) PROVE ClientTypes'
    <2>1. [client[c] EXCEPT !.at = "gone"] \in ClientRecord
      OBVIOUS
    <2>2. client' = [client EXCEPT ![c] = [@ EXCEPT !.at = "gone"]]
      BY <1>22 DEF ForwarderSeesGone
    <2> HIDE DEF ClientRecord
    <2> QED
      BY <2>1, <2>2
  <1>23. ASSUME NEW c \in Clients, Leave(c) PROVE ClientTypes'
    <2>1. ASSUME NEW to \in {"leaving", "gone"}
          PROVE  [client[c] EXCEPT !.at = to] \in ClientRecord
      OBVIOUS
    <2>2. \E to \in {"leaving", "gone"} :
            client' = [client EXCEPT ![c] = [@ EXCEPT !.at = to]]
      BY <1>23 DEF Leave
    <2> HIDE DEF ClientRecord
    <2> QED
      BY <2>1, <2>2
  <1>24. CASE BeginStop
    BY <1>24 DEF BeginStop, dbVars, runVars, logVars
  <1>25. CASE WaitReturns
    BY <1>25 DEF WaitReturns, dbVars, runVars, logVars
  <1>26. CASE Crash
    <2>1. IdleClient \in ClientRecord
      BY NothingYet DEF IdleClient
    <2> QED
      BY <1>26, <2>1 DEF Crash
  <1>27. CASE Boot
    BY <1>27 DEF Boot, Sweep, runVars, logVars
  <1>28. CASE UNCHANGED vars
    BY <1>28 DEF vars, runVars, logVars, dbVars, serverVars
  <1> HIDE DEF ClientTypes, ClientRecord, Watching, Outcomes
  <1>29. CASE \E r \in Runs : RunStep(r)
    BY <1>29, <1>3, <1>4, <1>5, <1>6, <1>7, <1>8, <1>9, <1>10, <1>11, <1>12 DEF RunStep
  <1>30. CASE \E c \in Clients : ClientStep(c)
    BY <1>30, <1>18, <1>19, <1>20, <1>21, <1>22 DEF ClientStep
  <1> QED
    BY <1>1, <1>2, <1>13, <1>14, <1>15, <1>16, <1>17, <1>23, <1>24, <1>25,
       <1>26, <1>27, <1>28, <1>29, <1>30 DEF Next

-----------------------------------------------------------------------------
(* What every step keeps of a run for the clients that know it: once       *)
(* launched it is never as if it had not been, a run of the registry's     *)
(* goes on until it is done, and what is over stays as it ended.           *)
RunMovesOn(r) ==
  /\ pc[r] # "none" => pc'[r] # "none" /\ kind'[r] = kind[r]
  /\ pc[r] \in Registered \cup {"done"} => pc'[r] \in Registered \cup {"done"}
  /\ pc[r] \in {"done", "lost", "refused"} => pc'[r] = pc[r] /\ outcome'[r] = outcome[r]
  /\ r \in faulted => r \in faulted'
  /\ row[r] # "absent" => row'[r] # "absent"

(* What a client knows stays true while the runs only move on.             *)
LEMMA OthersKnow ==
  ASSUME ClientsKnow, ToldOnlyWhenOver, NEW c \in Clients,
         \A r \in Runs : RunMovesOn(r), client'[c] = client[c]
  PROVE  KnowsRun(c)' /\ ToldTruly(c)'
  <1>1. KnowsRun(c) /\ ToldTruly(c)
    BY DEF ClientsKnow, ToldOnlyWhenOver, ToldTruly
  <1>2. CASE client[c].at = "idle"
    BY <1>1, <1>2 DEF KnowsRun, ToldTruly, Watching
  <1>3. CASE client[c].at # "idle"
    <2>1. client[c].run \in Runs /\ RunMovesOn(client[c].run)
      BY <1>1, <1>3 DEF KnowsRun
    <2> QED
      BY <1>1, <2>1 DEF KnowsRun, ToldTruly, RunMovesOn, Watching
  <1> QED
    BY <1>2, <1>3

(* A step that changes no client and lets the runs move on keeps what the  *)
(* clients know.                                                           *)
LEMMA RunsMove ==
  ASSUME ClientsKnow, ToldOnlyWhenOver, \A r \in Runs : RunMovesOn(r), client' = client
  PROVE  (ClientsKnow /\ ToldOnlyWhenOver)'
  BY OthersKnow DEF ClientsKnow, ToldOnlyWhenOver, ToldTruly

(* So does a step of one client whose own knowledge is kept.               *)
LEMMA ClientMoves ==
  ASSUME ClientsKnow, ToldOnlyWhenOver, NEW c \in Clients,
         UNCHANGED <<kind, pc, outcome>>, UNCHANGED dbVars,
         \A d \in Clients : d # c => client'[d] = client[d],
         KnowsRun(c)' /\ ToldTruly(c)'
  PROVE  (ClientsKnow /\ ToldOnlyWhenOver)'
  <1>1. \A r \in Runs : RunMovesOn(r)
    BY DEF RunMovesOn, dbVars
  <1>2. \A d \in Clients : KnowsRun(d)' /\ ToldTruly(d)'
    BY <1>1, OthersKnow
  <1> QED
    BY <1>2 DEF ClientsKnow, ToldOnlyWhenOver, ToldTruly

(* Every step keeps what the clients know true of their runs.              *)
LEMMA ClientStepKeeps ==
  ASSUME TypeOK, LifeInv, RowInv, ClientInv, [Next]_vars
  PROVE  (ClientsKnow /\ ToldOnlyWhenOver)'
  <1> USE DEF ClientInv
  <1>1. ASSUME NEW r \in Runs, NEW k \in Kinds, CreateBackupRun(r, k)
        PROVE  (ClientsKnow /\ ToldOnlyWhenOver)'
    <2>1. \A q \in Runs : RunMovesOn(q)
      BY <1>1 DEF RunMovesOn, TypeOK, Registered, Outcomes, RowInv, RowFollows, RowFollowsRun,
             CreateBackupRun, logVars, serverVars
    <2> QED
      BY <1>1, <2>1, RunsMove DEF CreateBackupRun
  <1>2. ASSUME NEW r \in Runs, NEW s \in {"skipped", "failed"}, RecordUnstartedCycle(r, s)
        PROVE  (ClientsKnow /\ ToldOnlyWhenOver)'
    <2>1. \A q \in Runs : RunMovesOn(q)
      BY <1>2 DEF RunMovesOn, TypeOK, Registered, Outcomes, RowInv, RowFollows, RowFollowsRun,
             RecordUnstartedCycle, logVars, serverVars
    <2> QED
      BY <1>2, <2>1, RunsMove DEF RecordUnstartedCycle
  <1>3. ASSUME NEW r \in Runs, RegisterAndAdd(r)
        PROVE  (ClientsKnow /\ ToldOnlyWhenOver)'
    <2>1. \A q \in Runs : q # r => RunMovesOn(q)
      BY <1>3 DEF RunMovesOn, RegisterAndAdd, TypeOK, dbVars
    <2>2. RunMovesOn(r)
      BY <1>3 DEF RunMovesOn, RegisterAndAdd, TypeOK, dbVars, Registered
    <2> QED
      BY <1>3, <2>1, <2>2, RunsMove DEF RegisterAndAdd
  <1>4. ASSUME NEW r \in Runs, AppendLog(r)
        PROVE  (ClientsKnow /\ ToldOnlyWhenOver)'
    <2>1. \A q \in Runs : RunMovesOn(q)
      BY <1>4 DEF RunMovesOn, TypeOK, Registered, Outcomes, RowInv, RowFollows, RowFollowsRun,
             AppendLog, dbVars, runVars, serverVars
    <2> QED
      BY <1>4, <2>1, RunsMove DEF AppendLog
  <1>5. ASSUME NEW r \in Runs, NEW s \in Outcomes, ServiceFinalises(r, s)
        PROVE  (ClientsKnow /\ ToldOnlyWhenOver)'
    <2>1. \A q \in Runs : RunMovesOn(q)
      BY <1>5 DEF RunMovesOn, TypeOK, Registered, Outcomes, RowInv, RowFollows, RowFollowsRun,
             ServiceFinalises, WriteRow, logVars, serverVars
    <2> QED
      BY <1>5, <2>1, RunsMove DEF ServiceFinalises
  <1>6. ASSUME NEW r \in Runs, NEW s \in Outcomes, ServiceEnds(r, s)
        PROVE  (ClientsKnow /\ ToldOnlyWhenOver)'
    <2>1. \A q \in Runs : RunMovesOn(q)
      BY <1>6 DEF RunMovesOn, TypeOK, Registered, Outcomes, RowInv, RowFollows, RowFollowsRun,
             ServiceEnds, dbVars, logVars, serverVars
    <2> QED
      BY <1>6, <2>1, RunsMove DEF ServiceEnds
  <1>7. ASSUME NEW r \in Runs, SyncFails(r)
        PROVE  (ClientsKnow /\ ToldOnlyWhenOver)'
    <2>1. \A q \in Runs : RunMovesOn(q)
      BY <1>7 DEF RunMovesOn, TypeOK, Registered, Outcomes, RowInv, RowFollows, RowFollowsRun,
             SyncFails, AfterFailedSync, WriteRow, logVars, serverVars
    <2> QED
      BY <1>7, <2>1, RunsMove DEF SyncFails
  <1>8. ASSUME NEW r \in Runs, ServiceReturns(r)
        PROVE  (ClientsKnow /\ ToldOnlyWhenOver)'
    <2>1. \A q \in Runs : RunMovesOn(q)
      BY <1>8 DEF RunMovesOn, TypeOK, Registered, Outcomes, RowInv, RowFollows, RowFollowsRun,
             ServiceReturns, dbVars, logVars, serverVars
    <2> QED
      BY <1>8, <2>1, RunsMove DEF ServiceReturns
  <1>9. ASSUME NEW r \in Runs, Panic(r)
        PROVE  (ClientsKnow /\ ToldOnlyWhenOver)'
    <2>1. \A q \in Runs : RunMovesOn(q)
      BY <1>9 DEF RunMovesOn, TypeOK, Registered, Outcomes, RowInv, RowFollows, RowFollowsRun,
             Panic, dbVars, logVars, serverVars
    <2> QED
      BY <1>9, <2>1, RunsMove DEF Panic
  <1>10. ASSUME NEW r \in Runs, Flush(r)
        PROVE  (ClientsKnow /\ ToldOnlyWhenOver)'
    <2>1. \A q \in Runs : RunMovesOn(q)
      BY <1>10 DEF RunMovesOn, TypeOK, Registered, Outcomes, RowInv, RowFollows, RowFollowsRun,
             Flush, dbVars, logVars, serverVars
    <2> QED
      BY <1>10, <2>1, RunsMove DEF Flush
  <1>11. ASSUME NEW r \in Runs, Finalise(r)
        PROVE  (ClientsKnow /\ ToldOnlyWhenOver)'
    <2>1. \A q \in Runs : RunMovesOn(q)
      BY <1>11 DEF RunMovesOn, TypeOK, Registered, Outcomes, RowInv, RowFollows, RowFollowsRun,
             Finalise, WriteRow, dbVars, logVars, serverVars
    <2> QED
      BY <1>11, <2>1, RunsMove DEF Finalise
  <1>12. ASSUME NEW r \in Runs, CloseDone(r)
        PROVE  (ClientsKnow /\ ToldOnlyWhenOver)'
    <2>1. \A q \in Runs : RunMovesOn(q)
      BY <1>12 DEF RunMovesOn, TypeOK, Registered, Outcomes, RowInv, RowFollows, RowFollowsRun,
             CloseDone, dbVars, logVars, serverVars
    <2> QED
      BY <1>12, <2>1, RunsMove DEF CloseDone
  <1>13. ASSUME NEW r \in Runs, Emit(r)
        PROVE  (ClientsKnow /\ ToldOnlyWhenOver)'
    <2>1. \A q \in Runs : RunMovesOn(q)
      BY <1>13 DEF RunMovesOn, TypeOK, Registered, Outcomes, RowInv, RowFollows, RowFollowsRun,
             Emit, dbVars, runVars, serverVars
    <2> QED
      BY <1>13, <2>1, RunsMove DEF Emit
  <1>14. ASSUME NEW r \in Runs, Evict(r)
        PROVE  (ClientsKnow /\ ToldOnlyWhenOver)'
    <2>1. \A q \in Runs : RunMovesOn(q)
      BY <1>14 DEF RunMovesOn, TypeOK, Registered, Outcomes, RowInv, RowFollows, RowFollowsRun,
             Evict, MayEvict, dbVars, runVars, logVars, serverVars
    <2> QED
      BY <1>14, <2>1, RunsMove DEF Evict
  <1>15. ASSUME NEW r \in Runs, DeleteOldRow(r)
        PROVE  (ClientsKnow /\ ToldOnlyWhenOver)'
    <2>1. \A q \in Runs : q # r => RunMovesOn(q)
      BY <1>15 DEF DeleteOldRow, RunMovesOn, runVars
    <2>2. \A c \in Clients : KnowsRun(c)' /\ ToldTruly(c)'
      <3> TAKE c \in Clients
      <3>1. KnowsRun(c) /\ ToldTruly(c) /\ client' = client
        BY <1>15 DEF DeleteOldRow, ClientsKnow, ToldOnlyWhenOver, ToldTruly
      <3>2. client[c].run = r => client[c].at \in {"told", "refused", "gone"}
        BY <1>15 DEF DeleteOldRow
      <3> QED
        BY <1>15, <3>1, <3>2 DEF DeleteOldRow, KnowsRun, ToldTruly, Watching, runVars
    <2> QED
      BY <2>2 DEF ClientsKnow, ToldOnlyWhenOver, ToldTruly
  <1>16. ASSUME NEW c \in Clients, NEW r \in Runs, AttachToRow(c, r)
        PROVE  (ClientsKnow /\ ToldOnlyWhenOver)'
    <2>1. KnowsRun(c) /\ ToldTruly(c) /\ client[c] \in ClientRecord
      BY DEF ClientsKnow, ToldOnlyWhenOver, ToldTruly, ClientTypes
    <2>2. /\ UNCHANGED <<kind, pc, outcome>> /\ UNCHANGED dbVars
          /\ \A d \in Clients : d # c => client'[d] = client[d]
      BY <1>16 DEF AttachToRow, UnchangedButClient, runVars, ClientTypes
    <2>3. /\ client'[c].at = "told" /\ client'[c].run = r
          /\ client'[c].told = FromDatabase(r)
          /\ client'[c].guessed = (row[r] = "running") /\ client'[c].streamed = client[c].streamed
      BY <1>16, <2>1 DEF AttachToRow, ClientTypes, ClientRecord
    <2>5. row[r] # "running" /\ kind[r] # "scheduled" =>
            /\ pc[r] \in {"done", "lost", "refused"}
            /\ pc[r] = "done" /\ r \notin faulted => FromDatabase(r) = outcome[r]
      BY <1>16 DEF AttachToRow, TypeOK, Stages, Terminal, FromDatabase, LifeInv, Registered,
                RowInv, RowFollows, RowFollowsRun, Written
    <2>6. row[r] # "absent" /\ client[c].at = "idle" /\ pc[r] # "none"
      BY <1>16 DEF AttachToRow, RowInv, RowFollows, RowFollowsRun
    <2>4. KnowsRun(c)' /\ ToldTruly(c)'
      BY <1>16, <2>1, <2>2, <2>3, <2>5, <2>6 DEF KnowsRun, ToldTruly, Watching, dbVars
    <2> QED
      BY <2>2, <2>4, ClientMoves
  <1>17. ASSUME NEW c \in Clients, NEW r \in Runs, AttachCopies(c, r)
        PROVE  (ClientsKnow /\ ToldOnlyWhenOver)'
    <2>1. KnowsRun(c) /\ ToldTruly(c) /\ client[c] \in ClientRecord
      BY DEF ClientsKnow, ToldOnlyWhenOver, ToldTruly, ClientTypes
    <2>2. /\ UNCHANGED <<kind, pc, outcome>> /\ UNCHANGED dbVars
          /\ \A d \in Clients : d # c => client'[d] = client[d]
      BY <1>17 DEF AttachCopies, UnchangedButClient, runVars, ClientTypes
    <2>3. /\ client[c].at = "idle" /\ r \in registry
          /\ client'[c].at = "copied" /\ client'[c].run = r
          /\ client'[c].streamed = client[c].streamed
      BY <1>17, <2>1 DEF AttachCopies, ClientTypes, ClientRecord
    <2>4. KnowsRun(c)' /\ ToldTruly(c)'
      BY <1>17, <2>1, <2>2, <2>3 DEF KnowsRun, ToldTruly, Watching, dbVars, LifeInv, Registered
    <2> QED
      BY <2>2, <2>4, ClientMoves
  <1>18. ASSUME NEW c \in Clients, AttachDecides(c)
        PROVE  (ClientsKnow /\ ToldOnlyWhenOver)'
    <2> DEFINE r == client[c].run
    <2>1. KnowsRun(c) /\ ToldTruly(c) /\ client[c] \in ClientRecord /\ client[c].at = "copied"
      BY <1>18 DEF AttachDecides, ClientsKnow, ToldOnlyWhenOver, ToldTruly, ClientTypes
    <2>2. /\ UNCHANGED <<kind, pc, outcome>> /\ UNCHANGED dbVars
          /\ \A d \in Clients : d # c => client'[d] = client[d]
      BY <1>18 DEF AttachDecides, runVars, ClientTypes
    <2>3. r \in Runs /\ (pc[r] # "done" => row[r] # "absent")
      <3>1. r \in Runs /\ (pc[r] # "done" => pc[r] \in Registered)
        BY <2>1 DEF KnowsRun, Watching
      <3>2. RowFollowsRun(r)
        BY <3>1 DEF RowInv, RowFollows
      <3> HIDE DEF r
      <3>3. pc[r] \in Registered => row[r] # "absent"
        BY <3>2 DEF RowFollowsRun, Registered, Writing
      <3> QED
        BY <3>1, <3>3
    <2>4. \/ pc[r] = "done" /\ client' = [client EXCEPT ![c].at = "told", ![c].told = outcome[r]]
          \/ pc[r] # "done" /\ client' = [client EXCEPT ![c].at = "live", ![c].streamed = TRUE]
          \/ pc[r] # "done" /\ client' = [client EXCEPT ![c].at = "refused"]
      BY <1>18 DEF AttachDecides
    <2> HIDE DEF r
    <2>5. CASE pc[r] = "done" /\ client' = [client EXCEPT ![c].at = "told", ![c].told = outcome[r]]
      <3>1. /\ client'[c].at = "told" /\ client'[c].told = outcome[r]
            /\ client'[c].run = client[c].run /\ client'[c].streamed = client[c].streamed
        BY <2>1, <2>5 DEF ClientTypes, ClientRecord
      <3>2. KnowsRun(c)' /\ ToldTruly(c)'
        BY <2>1, <2>2, <2>3, <2>5, <3>1 DEF KnowsRun, ToldTruly, Watching, r
      <3> QED
        BY <2>2, <3>2, ClientMoves
    <2>6. CASE pc[r] # "done" /\ client' = [client EXCEPT ![c].at = "live", ![c].streamed = TRUE]
      <3>1. client'[c].at = "live" /\ client'[c].run = client[c].run
        BY <2>1, <2>6 DEF ClientTypes, ClientRecord
      <3>2. KnowsRun(c)' /\ ToldTruly(c)'
        BY <2>1, <2>2, <2>3, <2>6, <3>1 DEF KnowsRun, ToldTruly, Watching, dbVars, r
      <3> QED
        BY <2>2, <3>2, ClientMoves
    <2>7. CASE pc[r] # "done" /\ client' = [client EXCEPT ![c].at = "refused"]
      <3>1. client'[c].at = "refused" /\ client'[c].run = client[c].run
        BY <2>1, <2>7 DEF ClientTypes, ClientRecord
      <3>2. KnowsRun(c)' /\ ToldTruly(c)'
        BY <2>1, <2>2, <2>3, <2>7, <3>1 DEF KnowsRun, ToldTruly, Watching, r
      <3> QED
        BY <2>2, <3>2, ClientMoves
    <2> QED
      BY <2>4, <2>5, <2>6, <2>7
  <1>19. ASSUME NEW c \in Clients, Poll(c)
        PROVE  (ClientsKnow /\ ToldOnlyWhenOver)'
    <2>1. KnowsRun(c) /\ ToldTruly(c) /\ client[c] \in ClientRecord
      BY DEF ClientsKnow, ToldOnlyWhenOver, ToldTruly, ClientTypes
    <2>2. /\ UNCHANGED <<kind, pc, outcome>> /\ UNCHANGED dbVars
          /\ \A d \in Clients : d # c => client'[d] = client[d]
      BY <1>19 DEF Poll, UnchangedButClient, runVars, ClientTypes
    <2>3. /\ client'[c].run = client[c].run /\ client'[c].guessed = client[c].guessed
          /\ client'[c].streamed = client[c].streamed
          /\ client[c].at = "live" /\ client'[c].at = "live"
      BY <1>19, <2>1 DEF Poll, ClientTypes, ClientRecord
    <2>4. KnowsRun(c)' /\ ToldTruly(c)'
      BY <1>19, <2>1, <2>2, <2>3 DEF KnowsRun, ToldTruly, Watching, dbVars
    <2> QED
      BY <2>2, <2>4, ClientMoves
  <1>20. ASSUME NEW c \in Clients, ForwarderEnds(c)
        PROVE  (ClientsKnow /\ ToldOnlyWhenOver)'
    <2>1. KnowsRun(c) /\ ToldTruly(c) /\ client[c] \in ClientRecord
      BY DEF ClientsKnow, ToldOnlyWhenOver, ToldTruly, ClientTypes
    <2>2. /\ UNCHANGED <<kind, pc, outcome>> /\ UNCHANGED dbVars
          /\ \A d \in Clients : d # c => client'[d] = client[d]
      BY <1>20 DEF ForwarderEnds, runVars, ClientTypes
    <2>3. /\ client'[c].run = client[c].run /\ client'[c].guessed = client[c].guessed
          /\ client'[c].streamed = client[c].streamed
          /\ client[c].at = "live" /\ client'[c].at = "ended" /\ pc[client[c].run] = "done"
      BY <1>20, <2>1 DEF ForwarderEnds, ClientTypes, ClientRecord
    <2>4. KnowsRun(c)' /\ ToldTruly(c)'
      BY <1>20, <2>1, <2>2, <2>3 DEF KnowsRun, ToldTruly, Watching, dbVars
    <2> QED
      BY <2>2, <2>4, ClientMoves
  <1>21. ASSUME NEW c \in Clients, TellOutcome(c)
        PROVE  (ClientsKnow /\ ToldOnlyWhenOver)'
    <2>1. KnowsRun(c) /\ ToldTruly(c) /\ client[c] \in ClientRecord
      BY DEF ClientsKnow, ToldOnlyWhenOver, ToldTruly, ClientTypes
    <2>2. /\ UNCHANGED <<kind, pc, outcome>> /\ UNCHANGED dbVars
          /\ \A d \in Clients : d # c => client'[d] = client[d]
      BY <1>21 DEF TellOutcome, UnchangedButClient, runVars, ClientTypes
    <2>3. /\ client'[c].run = client[c].run /\ client'[c].guessed = client[c].guessed
          /\ client'[c].streamed = client[c].streamed
          /\ client[c].at = "ended" /\ client'[c].at = "told"
          /\ client'[c].told = IF client[c].run \in registry THEN outcome[client[c].run]
                               ELSE IF row[client[c].run] = "absent" THEN "failed"
                               ELSE FromDatabase(client[c].run)
      BY <1>21, <2>1 DEF TellOutcome, ClientTypes, ClientRecord
    <2>5. LET r == client[c].run IN
          pc[r] = "done" /\ row[r] # "absent" /\ kind[r] # "scheduled" /\ r \in Runs
      BY <2>1, <2>3 DEF KnowsRun, Watching
    <2>6. LET r == client[c].run IN
          r \notin faulted => row[r] = outcome[r] /\ FromDatabase(r) = row[r]
      BY <2>5 DEF RowInv, RowFollows, RowFollowsRun, Written, FromDatabase, Terminal
    <2>4. KnowsRun(c)' /\ ToldTruly(c)'
      BY <1>21, <2>1, <2>2, <2>3, <2>5, <2>6 DEF KnowsRun, ToldTruly, Watching, dbVars
    <2> QED
      BY <2>2, <2>4, ClientMoves
  <1>22. ASSUME NEW c \in Clients, ForwarderSeesGone(c)
        PROVE  (ClientsKnow /\ ToldOnlyWhenOver)'
    <2>1. KnowsRun(c) /\ ToldTruly(c) /\ client[c] \in ClientRecord
      BY DEF ClientsKnow, ToldOnlyWhenOver, ToldTruly, ClientTypes
    <2>2. /\ UNCHANGED <<kind, pc, outcome>> /\ UNCHANGED dbVars
          /\ \A d \in Clients : d # c => client'[d] = client[d]
      BY <1>22 DEF ForwarderSeesGone, runVars, ClientTypes
    <2>3. /\ client'[c].run = client[c].run /\ client'[c].guessed = client[c].guessed
          /\ client'[c].streamed = client[c].streamed
          /\ client[c].at = "leaving" /\ client'[c].at = "gone"
      BY <1>22, <2>1 DEF ForwarderSeesGone, ClientTypes, ClientRecord
    <2>4. KnowsRun(c)' /\ ToldTruly(c)'
      BY <1>22, <2>1, <2>2, <2>3 DEF KnowsRun, ToldTruly, Watching, dbVars
    <2> QED
      BY <2>2, <2>4, ClientMoves
  <1>23. ASSUME NEW c \in Clients, Leave(c)
        PROVE  (ClientsKnow /\ ToldOnlyWhenOver)'
    <2>1. KnowsRun(c) /\ ToldTruly(c) /\ client[c] \in ClientRecord
      BY DEF ClientsKnow, ToldOnlyWhenOver, ToldTruly, ClientTypes
    <2>2. /\ UNCHANGED <<kind, pc, outcome>> /\ UNCHANGED dbVars
          /\ \A d \in Clients : d # c => client'[d] = client[d]
      BY <1>23 DEF Leave, UnchangedButClient, runVars, ClientTypes
    <2>3. /\ client'[c].run = client[c].run /\ client'[c].guessed = client[c].guessed
          /\ client'[c].streamed = client[c].streamed
          /\ \/ client[c].at = "copied" /\ client'[c].at = "gone"
             \/ client[c].at = "live" /\ client'[c].at = "leaving"
      BY <1>23, <2>1 DEF Leave, ClientTypes, ClientRecord
    <2>4. KnowsRun(c)' /\ ToldTruly(c)'
      BY <1>23, <2>1, <2>2, <2>3 DEF KnowsRun, ToldTruly, Watching, dbVars
    <2> QED
      BY <2>2, <2>4, ClientMoves
  <1>24. CASE BeginStop
    <2>1. \A q \in Runs : RunMovesOn(q)
      BY <1>24 DEF RunMovesOn, TypeOK, Registered, Outcomes, RowInv, RowFollows, RowFollowsRun,
             BeginStop, dbVars, runVars, logVars
    <2> QED
      BY <1>24, <2>1, RunsMove DEF BeginStop
  <1>25. CASE WaitReturns
    <2>1. \A q \in Runs : RunMovesOn(q)
      BY <1>25 DEF RunMovesOn, TypeOK, Registered, Outcomes, RowInv, RowFollows, RowFollowsRun,
             WaitReturns, dbVars, runVars, logVars
    <2> QED
      BY <1>25, <2>1, RunsMove DEF WaitReturns
  <1>26. CASE Crash
    <2>1. \A c \in Clients : client'[c].at = "idle" /\ ~client'[c].streamed
      BY <1>26 DEF Crash, IdleClient
    <2> QED
      BY <2>1 DEF ClientsKnow, KnowsRun, ToldOnlyWhenOver, Watching
  <1>27. CASE Boot
    <2>1. \A q \in Runs : RunMovesOn(q)
      BY <1>27 DEF RunMovesOn, TypeOK, Boot, Sweep, runVars
    <2> QED
      BY <1>27, <2>1, RunsMove DEF Boot
  <1>28. CASE UNCHANGED vars
    <2>1. \A q \in Runs : RunMovesOn(q)
      BY <1>28 DEF RunMovesOn, vars, dbVars, runVars
    <2> QED
      BY <1>28, <2>1, RunsMove DEF vars
  <1> HIDE DEF ClientInv
  <1>29. CASE \E r \in Runs : RunStep(r)
    BY <1>29, <1>3, <1>4, <1>5, <1>6, <1>7, <1>8, <1>9, <1>10, <1>11, <1>12 DEF RunStep
  <1>30. CASE \E c \in Clients : ClientStep(c)
    BY <1>30, <1>18, <1>19, <1>20, <1>21, <1>22 DEF ClientStep
  <1> QED
    BY <1>1, <1>2, <1>13, <1>14, <1>15, <1>16, <1>17, <1>23, <1>24, <1>25,
       <1>26, <1>27, <1>28, <1>29, <1>30 DEF Next

-----------------------------------------------------------------------------
(* A client that has read to the end of a run that is over has its stream. *)
LEMMA ReadToTheEnd == StreamInv => StreamIsComplete
  BY DEF StreamInv, StreamOf, StreamIsComplete, HasUpTo, Watching

(* Reading on from the cursor keeps what a watching client has.            *)
LEMMA ReadOnKeeps ==
  ASSUME TypeOK, ClientTypes, StreamInv, NEW c \in Clients, NEW r \in Runs,
         client[c].run = r, client[c].at \in Watching, logged' = logged, dropped' = dropped,
         client'[c].run = r, client'[c].cursor = logged[r],
         client'[c].got = client[c].got \o Buffered(r, client[c].cursor)
  PROVE  HasUpTo(c, r)'
  <1> DEFINE s   == client[c].got
             cur == client[c].cursor
             lo  == dropped[r]
             hi  == logged[r]
             t   == Buffered(r, cur)
             first == IF cur > lo THEN cur ELSE lo
  <1>1. s \in Seq(Nat) /\ cur \in Nat
    BY DEF ClientTypes, ClientRecord
  <1>2. lo \in Nat /\ hi \in Nat /\ lo <= hi
    BY DEF TypeOK, StreamInv
  <1>3. HasUpTo(c, r)
    BY DEF StreamInv, StreamOf
  <1>4. cur <= hi /\ HasLines(s, cur, lo)
    BY <1>3 DEF HasUpTo, Received, HasLines
  <1>5. t \in Seq(Nat) /\ LinesAfter(t, first, hi)
    BY <1>1, <1>2, <1>4, BufferedLines DEF LinesAfter
  <1>6. first \in Nat /\ first = IF cur > lo THEN cur ELSE lo
    BY <1>1, <1>2
  <1> HIDE DEF s, cur, lo, hi, t, first
  <1>7. HasLines(s \o t, hi, lo)
    BY <1>1, <1>2, <1>4, <1>5, <1>6, ReadOn
  <1>8. client'[c].got = s \o t /\ client'[c].cursor = hi /\ logged'[r] = hi /\ dropped'[r] = lo
    BY DEF s, t, hi, lo, cur
  <1>9. hi <= hi
    BY <1>2
  <1> QED
    BY <1>7, <1>8, <1>9 DEF HasUpTo, Received, HasLines

(* So does the copy a client gets when it attaches.                        *)
LEMMA ReadFromTheStart ==
  ASSUME NEW r, logged[r] \in Nat, dropped[r] \in Nat, dropped[r] <= logged[r]
  PROVE  LET t == Buffered(r, 0) IN
         /\ logged[r] <= logged[r]
         /\ \A n \in 1 .. logged[r] : (\E i \in DOMAIN t : t[i] = n) \/ n <= dropped[r]
         /\ \A i \in 1 .. Len(t) : t[i] <= logged[r]
         /\ \A i \in 1 .. Len(t) - 1 : t[i] < t[i + 1]
  <1> DEFINE t  == Buffered(r, 0)
             lo == dropped[r]
             hi == logged[r]
             first == IF 0 > lo THEN 0 ELSE lo
  <1>1. lo \in Nat /\ hi \in Nat /\ lo <= hi /\ first = lo /\ 0 <= hi
    OBVIOUS
  <1>2. t \in Seq(Nat) /\ Len(t) = hi - lo /\ \A i \in 1 .. (hi - lo) : t[i] = lo + i
    BY <1>1, NothingYet, BufferedLines
  <1> HIDE DEF t, lo, hi, first
  <1>3. DOMAIN t = 1 .. (hi - lo)
    BY <1>2
  <1>4. ASSUME NEW n \in 1 .. hi, ~(n <= lo) PROVE \E i \in DOMAIN t : t[i] = n
    <2>1. n - lo \in 1 .. (hi - lo) /\ lo + (n - lo) = n
      BY <1>1, <1>4
    <2> QED
      BY <2>1, <1>2, <1>3
  <1>5. \A i \in 1 .. Len(t) : t[i] <= hi
    BY <1>1, <1>2
  <1>6. ASSUME NEW i \in 1 .. Len(t) - 1 PROVE t[i] < t[i + 1]
    <2>1. i \in 1 .. (hi - lo) /\ i + 1 \in 1 .. (hi - lo)
      BY <1>1, <1>2
    <2>2. t[i] = lo + i /\ t[i + 1] = lo + (i + 1)
      BY <2>1, <1>2
    <2> QED
      BY <2>2, <1>1
  <1>7. \A n \in 1 .. hi : (\E i \in DOMAIN t : t[i] = n) \/ n <= lo
    BY <1>4
  <1>8. hi <= hi
    BY <1>1
  <1> QED
    BY <1>5, <1>6, <1>7, <1>8 DEF t, lo, hi

(* A step that leaves the streams and what was read of them.               *)
LEMMA StreamsStay ==
  ASSUME StreamInv, UNCHANGED <<logged, dropped, client>>
  PROVE  StreamInv'
  BY DEF StreamInv, StreamOf, HasUpTo, Received

(* A step of one client, whose own stream is kept.                         *)
LEMMA StreamMoves ==
  ASSUME StreamInv, NEW c \in Clients, UNCHANGED logVars,
         \A d \in Clients : d # c => client'[d] = client[d], StreamOf(c)'
  PROVE  StreamInv'
  <1>1. ASSUME NEW d \in Clients, d # c PROVE StreamOf(d)'
    <2>1. StreamOf(d) /\ client'[d] = client[d] /\ logged' = logged /\ dropped' = dropped
      BY <1>1 DEF StreamInv, logVars
    <2> QED
      BY <2>1 DEF StreamOf, HasUpTo, Received
  <1> QED
    BY <1>1 DEF StreamInv, logVars

(* Every step keeps the streams true to the run.                           *)
LEMMA StreamStep ==
  ASSUME TypeOK, ClientTypes, ClientsKnow, StreamInv, [Next]_vars
  PROVE  StreamInv'
  <1>1. ASSUME NEW r \in Runs, NEW k \in Kinds, CreateBackupRun(r, k)
        PROVE  StreamInv'
    BY <1>1, StreamsStay DEF CreateBackupRun, logVars
  <1>2. ASSUME NEW r \in Runs, NEW s \in {"skipped", "failed"}, RecordUnstartedCycle(r, s)
        PROVE  StreamInv'
    BY <1>2, StreamsStay DEF RecordUnstartedCycle, logVars
  <1>3. ASSUME NEW r \in Runs, RegisterAndAdd(r) PROVE StreamInv'
    BY <1>3, StreamsStay DEF RegisterAndAdd, logVars
  <1>4. ASSUME NEW r \in Runs, AppendLog(r) PROVE StreamInv'
    <2>1. /\ pc[r] # "done" /\ client' = client
          /\ logged[r] \in Nat /\ dropped[r] \in Nat /\ dropped[r] <= logged[r]
          /\ logged' = [logged EXCEPT ![r] = @ + 1]
          /\ dropped' = dropped \/ dropped' = [dropped EXCEPT ![r] = @ + 1]
      BY <1>4 DEF AppendLog, TypeOK, StreamInv
    <2>2. /\ logged'[r] = logged[r] + 1 /\ dropped'[r] \in {dropped[r], dropped[r] + 1}
          /\ \A q \in Runs : q # r => logged'[q] = logged[q] /\ dropped'[q] = dropped[q]
      BY <2>1 DEF TypeOK
    <2>3. \A q \in Runs : dropped'[q] <= logged'[q]
      BY <2>1, <2>2 DEF StreamInv
    <2>4. ASSUME NEW c \in Clients PROVE StreamOf(c)'
      <3>1. KnowsRun(c) /\ StreamOf(c) /\ client[c].cursor \in Nat
        BY DEF ClientsKnow, StreamInv, ClientTypes, ClientRecord
      <3>2. CASE client[c].run # r
        BY <2>1, <2>2, <3>1, <3>2 DEF StreamOf, HasUpTo, Received, KnowsRun, Watching
      <3>3. CASE client[c].run = r
        <4>1. client[c].at # "ended" /\ ~(client[c].at = "told" /\ client[c].streamed)
          BY <2>1, <3>1, <3>3 DEF KnowsRun
        <4>2. client[c].at \in Watching => HasUpTo(c, r)'
          <5>1. SUFFICES ASSUME client[c].at \in Watching PROVE HasUpTo(c, r)'
            OBVIOUS
          <5>2. HasUpTo(c, r)
            BY <3>1, <3>3, <5>1 DEF StreamOf
          <5>3. client[c].cursor <= logged'[r]
            BY <2>1, <2>2, <3>1, <5>2 DEF HasUpTo
          <5>4. \A n \in 1 .. client[c].cursor : n <= dropped[r] => n <= dropped'[r]
            BY <2>1, <2>2, <3>1
          <5> QED
            BY <2>1, <5>2, <5>3, <5>4 DEF HasUpTo, Received
        <4> QED
          BY <2>1, <3>1, <3>3, <4>1, <4>2 DEF StreamOf
      <3> QED
        BY <3>2, <3>3
    <2> QED
      BY <2>3, <2>4 DEF StreamInv
  <1>5. ASSUME NEW r \in Runs, NEW s \in Outcomes, ServiceFinalises(r, s)
        PROVE  StreamInv'
    BY <1>5, StreamsStay DEF ServiceFinalises, logVars
  <1>6. ASSUME NEW r \in Runs, NEW s \in Outcomes, ServiceEnds(r, s)
        PROVE  StreamInv'
    BY <1>6, StreamsStay DEF ServiceEnds, logVars
  <1>7. ASSUME NEW r \in Runs, SyncFails(r) PROVE StreamInv'
    BY <1>7, StreamsStay DEF SyncFails, logVars
  <1>8. ASSUME NEW r \in Runs, ServiceReturns(r) PROVE StreamInv'
    BY <1>8, StreamsStay DEF ServiceReturns, logVars
  <1>9. ASSUME NEW r \in Runs, Panic(r) PROVE StreamInv'
    BY <1>9, StreamsStay DEF Panic, logVars
  <1>10. ASSUME NEW r \in Runs, Flush(r) PROVE StreamInv'
    BY <1>10, StreamsStay DEF Flush, logVars
  <1>11. ASSUME NEW r \in Runs, Finalise(r) PROVE StreamInv'
    BY <1>11, StreamsStay DEF Finalise, logVars
  <1>12. ASSUME NEW r \in Runs, CloseDone(r) PROVE StreamInv'
    BY <1>12, StreamsStay DEF CloseDone, logVars
  <1>13. ASSUME NEW r \in Runs, Emit(r) PROVE StreamInv'
    BY <1>13, StreamsStay DEF Emit
  <1>14. ASSUME NEW r \in Runs, Evict(r) PROVE StreamInv'
    BY <1>14, StreamsStay DEF Evict, logVars
  <1>15. ASSUME NEW r \in Runs, DeleteOldRow(r) PROVE StreamInv'
    BY <1>15, StreamsStay DEF DeleteOldRow, logVars
  <1>16. ASSUME NEW c \in Clients, NEW r \in Runs, AttachToRow(c, r)
        PROVE  StreamInv'
    <2>1. KnowsRun(c) /\ StreamOf(c) /\ client[c] \in ClientRecord
      BY DEF ClientsKnow, StreamInv, ClientTypes
    <2>2. UNCHANGED logVars /\ \A d \in Clients : d # c => client'[d] = client[d]
      BY <1>16 DEF AttachToRow, UnchangedButClient, ClientTypes
    <2>3. /\ client[c].at = "idle" /\ client'[c].at = "told"
          /\ client'[c].streamed = client[c].streamed
      BY <1>16, <2>1 DEF AttachToRow, ClientTypes, ClientRecord
    <2>4. StreamOf(c)'
      BY <2>1, <2>2, <2>3 DEF StreamOf, HasUpTo, Received, KnowsRun, Watching, logVars
    <2> QED
      BY <2>2, <2>4, StreamMoves
  <1>17. ASSUME NEW c \in Clients, NEW r \in Runs, AttachCopies(c, r)
        PROVE  StreamInv'
    <2> DEFINE t == Buffered(r, 0)
    <2>1. client[c].at = "idle" /\ r \in Runs /\ client[c] \in ClientRecord
      BY <1>17 DEF AttachCopies, ClientTypes
    <2>2. UNCHANGED logVars /\ \A d \in Clients : d # c => client'[d] = client[d]
      BY <1>17 DEF AttachCopies, UnchangedButClient, ClientTypes
    <2>3. /\ client'[c].run = r /\ client'[c].at = "copied" /\ client'[c].cursor = logged[r]
          /\ client'[c].got = t
      BY <1>17, <2>1 DEF AttachCopies, ClientTypes, ClientRecord
    <2>4. logged[r] \in Nat /\ dropped[r] \in Nat /\ dropped[r] <= logged[r]
      BY DEF TypeOK, StreamInv
    <2>5. HasUpTo(c, r)'
      BY <2>2, <2>3, <2>4, ReadFromTheStart DEF HasUpTo, Received, logVars
    <2>6. StreamOf(c)'
      BY <2>2, <2>3, <2>5 DEF StreamOf, logVars
    <2> QED
      BY <2>2, <2>6, StreamMoves
  <1>18. ASSUME NEW c \in Clients, AttachDecides(c) PROVE StreamInv'
    <2>1. KnowsRun(c) /\ StreamOf(c) /\ client[c] \in ClientRecord
      BY DEF ClientsKnow, StreamInv, ClientTypes
    <2>2. UNCHANGED logVars /\ \A d \in Clients : d # c => client'[d] = client[d]
      BY <1>18 DEF AttachDecides, ClientTypes
    <2>3. client[c].at = "copied"
      BY <1>18 DEF AttachDecides
    <2> DEFINE told == outcome[client[c].run]
    <2>4. \/ client' = [client EXCEPT ![c].at = "told", ![c].told = told]
          \/ client' = [client EXCEPT ![c].at = "live", ![c].streamed = TRUE]
          \/ client' = [client EXCEPT ![c].at = "refused"]
      BY <1>18 DEF AttachDecides
    <2> HIDE DEF told
    <2>5. CASE client' = [client EXCEPT ![c].at = "told", ![c].told = told]
      <3>1. /\ client'[c].run = client[c].run /\ client'[c].got = client[c].got
            /\ client'[c].cursor = client[c].cursor /\ client'[c].at = "told"
            /\ client'[c].streamed = client[c].streamed
        BY <2>1, <2>5 DEF ClientTypes, ClientRecord
      <3>2. StreamOf(c)'
        BY <2>1, <2>2, <2>3, <3>1 DEF StreamOf, HasUpTo, Received, KnowsRun, Watching, logVars
      <3> QED
        BY <2>2, <3>2, StreamMoves
    <2>6. CASE client' = [client EXCEPT ![c].at = "live", ![c].streamed = TRUE]
      <3>1. /\ client'[c].run = client[c].run /\ client'[c].got = client[c].got
            /\ client'[c].cursor = client[c].cursor /\ client'[c].at = "live"
        BY <2>1, <2>6 DEF ClientTypes, ClientRecord
      <3>2. StreamOf(c)'
        BY <2>1, <2>2, <2>3, <3>1 DEF StreamOf, HasUpTo, Received, KnowsRun, Watching, logVars
      <3> QED
        BY <2>2, <3>2, StreamMoves
    <2>7. CASE client' = [client EXCEPT ![c].at = "refused"]
      <3>1. /\ client'[c].run = client[c].run /\ client'[c].got = client[c].got
            /\ client'[c].cursor = client[c].cursor /\ client'[c].at = "refused"
        BY <2>1, <2>7 DEF ClientTypes, ClientRecord
      <3>2. StreamOf(c)'
        BY <2>1, <2>2, <2>3, <3>1 DEF StreamOf, HasUpTo, Received, KnowsRun, Watching, logVars
      <3> QED
        BY <2>2, <3>2, StreamMoves
    <2> QED
      BY <2>4, <2>5, <2>6, <2>7
  <1>19. ASSUME NEW c \in Clients, Poll(c) PROVE StreamInv'
    <2>1. PICK r \in Runs : r = client[c].run
      BY <1>19 DEF Poll, ClientsKnow, KnowsRun
    <2>2. client[c].at = "live" /\ r \in Runs /\ client[c] \in ClientRecord
      BY <1>19, <2>1 DEF Poll, ClientTypes
    <2>3. UNCHANGED logVars /\ \A d \in Clients : d # c => client'[d] = client[d]
      BY <1>19 DEF Poll, UnchangedButClient, ClientTypes
    <2>4. /\ client'[c].run = r /\ client'[c].at = "live" /\ client'[c].cursor = logged[r]
          /\ client'[c].got = client[c].got \o Buffered(r, client[c].cursor)
      BY <1>19, <2>1, <2>2 DEF Poll, ClientTypes, ClientRecord
    <2>5. HasUpTo(c, r)'
      BY <2>1, <2>2, <2>3, <2>4, ReadOnKeeps DEF Watching, logVars
    <2>6. StreamOf(c)'
      BY <2>3, <2>4, <2>5 DEF StreamOf, logVars
    <2> QED
      BY <2>3, <2>6, StreamMoves
  <1>20. ASSUME NEW c \in Clients, ForwarderEnds(c) PROVE StreamInv'
    <2>1. PICK r \in Runs : r = client[c].run
      BY <1>20 DEF ForwarderEnds, ClientsKnow, KnowsRun
    <2>2. client[c].at = "live" /\ r \in Runs /\ client[c] \in ClientRecord
      BY <1>20, <2>1 DEF ForwarderEnds, ClientTypes
    <2>3. UNCHANGED logVars /\ \A d \in Clients : d # c => client'[d] = client[d]
      BY <1>20 DEF ForwarderEnds, ClientTypes
    <2>4. /\ client'[c].run = r /\ client'[c].at = "ended" /\ client'[c].cursor = logged[r]
          /\ client'[c].got = client[c].got \o Buffered(r, client[c].cursor)
      BY <1>20, <2>1, <2>2 DEF ForwarderEnds, ClientTypes, ClientRecord
    <2>5. HasUpTo(c, r)'
      BY <2>1, <2>2, <2>3, <2>4, ReadOnKeeps DEF Watching, logVars
    <2>6. StreamOf(c)'
      BY <2>3, <2>4, <2>5 DEF StreamOf, logVars
    <2> QED
      BY <2>3, <2>6, StreamMoves
  <1>21. ASSUME NEW c \in Clients, TellOutcome(c) PROVE StreamInv'
    <2>1. KnowsRun(c) /\ StreamOf(c) /\ client[c] \in ClientRecord
      BY DEF ClientsKnow, StreamInv, ClientTypes
    <2>2. UNCHANGED logVars /\ \A d \in Clients : d # c => client'[d] = client[d]
      BY <1>21 DEF TellOutcome, UnchangedButClient, ClientTypes
    <2>3. /\ client'[c].run = client[c].run /\ client'[c].got = client[c].got
          /\ client'[c].cursor = client[c].cursor
          /\ client[c].at = "ended" /\ client'[c].at = "told"
      BY <1>21, <2>1 DEF TellOutcome, ClientTypes, ClientRecord
    <2>4. StreamOf(c)'
      BY <2>1, <2>2, <2>3 DEF StreamOf, HasUpTo, Received, KnowsRun, Watching, logVars
    <2> QED
      BY <2>2, <2>4, StreamMoves
  <1>22. ASSUME NEW c \in Clients, ForwarderSeesGone(c) PROVE StreamInv'
    <2>1. KnowsRun(c) /\ StreamOf(c) /\ client[c] \in ClientRecord
      BY DEF ClientsKnow, StreamInv, ClientTypes
    <2>2. UNCHANGED logVars /\ \A d \in Clients : d # c => client'[d] = client[d]
      BY <1>22 DEF ForwarderSeesGone, ClientTypes
    <2>3. client'[c].at = "gone"
      BY <1>22, <2>1 DEF ForwarderSeesGone, ClientTypes, ClientRecord
    <2>4. StreamOf(c)'
      BY <2>1, <2>2, <2>3 DEF StreamOf, HasUpTo, Received, KnowsRun, Watching, logVars
    <2> QED
      BY <2>2, <2>4, StreamMoves
  <1>23. ASSUME NEW c \in Clients, Leave(c) PROVE StreamInv'
    <2>1. KnowsRun(c) /\ StreamOf(c) /\ client[c] \in ClientRecord
      BY DEF ClientsKnow, StreamInv, ClientTypes
    <2>2. UNCHANGED logVars /\ \A d \in Clients : d # c => client'[d] = client[d]
      BY <1>23 DEF Leave, UnchangedButClient, ClientTypes
    <2>3. /\ client'[c].run = client[c].run /\ client'[c].got = client[c].got
          /\ client'[c].cursor = client[c].cursor
          /\ client[c].at \in Watching /\ client'[c].at \in {"leaving", "gone"}
      BY <1>23, <2>1 DEF Leave, ClientTypes, ClientRecord, Watching
    <2>4. StreamOf(c)'
      BY <2>1, <2>2, <2>3 DEF StreamOf, HasUpTo, Received, KnowsRun, Watching, logVars
    <2> QED
      BY <2>2, <2>4, StreamMoves
  <1>24. CASE BeginStop
    BY <1>24, StreamsStay DEF BeginStop, logVars
  <1>25. CASE WaitReturns
    BY <1>25, StreamsStay DEF WaitReturns, logVars
  <1>26. CASE Crash
    <2>1. \A c \in Clients : client'[c].at = "idle" /\ client'[c].got = <<>>
      BY <1>26 DEF Crash, IdleClient
    <2>2. logged' = logged /\ dropped' = dropped
      BY <1>26 DEF Crash, logVars
    <2> QED
      BY <2>1, <2>2 DEF StreamInv, StreamOf, Watching
  <1>27. CASE Boot
    BY <1>27, StreamsStay DEF Boot, logVars
  <1>28. CASE UNCHANGED vars
    BY <1>28, StreamsStay DEF vars
  <1>29. CASE \E r \in Runs : RunStep(r)
    BY <1>29, <1>3, <1>4, <1>5, <1>6, <1>7, <1>8, <1>9, <1>10, <1>11, <1>12 DEF RunStep
  <1>30. CASE \E c \in Clients : ClientStep(c)
    BY <1>30, <1>18, <1>19, <1>20, <1>21, <1>22 DEF ClientStep
  <1> QED
    BY <1>1, <1>2, <1>13, <1>14, <1>15, <1>16, <1>17, <1>23, <1>24, <1>25,
       <1>26, <1>27, <1>28, <1>29, <1>30 DEF Next

-----------------------------------------------------------------------------
(* The slots: counted through the sets of forwarders.                      *)
LEMMA SlotTaken ==
  ASSUME NEW S, IsFiniteSet(S), NEW c, c \notin S
  PROVE  IsFiniteSet(S \cup {c}) /\ Cardinality(S \cup {c}) = Cardinality(S) + 1
  BY FS_AddElement

(* A finite set without one of its members has one member fewer.           *)
LEMMA SlotGiven ==
  ASSUME NEW S, IsFiniteSet(S), NEW c \in S
  PROVE  IsFiniteSet(S \ {c}) /\ Cardinality(S \ {c}) = Cardinality(S) - 1
  BY FS_RemoveElement

(* The slots of a run are its forwarders, and within the limit.            *)
LEMMA SlotsCounted == SlotsInv => SlotsAreForwarders
  BY DEF SlotsInv, SlotsAreForwarders, SlotsOf, Forwarders

(* A step that leaves every slot and every forwarder of a run.             *)
LEMMA SlotsStay ==
  ASSUME SlotsInv, UNCHANGED attachers, \A r \in Runs : Forwarders(r)' = Forwarders(r)
  PROVE  SlotsInv'
  BY DEF SlotsInv, SlotsOf

(* A step of one client that neither starts nor ends its forwarder.        *)
LEMMA ForwarderStays ==
  ASSUME SlotsInv, UNCHANGED attachers, NEW c \in Clients,
         \A d \in Clients : d # c => client'[d] = client[d],
         \/ client[c].at \notin {"live", "leaving"} /\ client'[c].at \notin {"live", "leaving"}
         \/ /\ client[c].at \in {"live", "leaving"} /\ client'[c].at \in {"live", "leaving"}
            /\ client'[c].run = client[c].run
  PROVE  SlotsInv'
  <1>1. ASSUME NEW r \in Runs PROVE Forwarders(r)' = Forwarders(r)
    <2>1. \A d \in Clients : d \in Forwarders(r)' <=> d \in Forwarders(r)
      <3> TAKE d \in Clients
      <3>1. CASE d # c
        BY <3>1 DEF Forwarders
      <3>2. CASE d = c
        BY <3>2 DEF Forwarders
      <3> QED
        BY <3>1, <3>2
    <2> QED
      BY <2>1 DEF Forwarders
  <1> QED
    BY <1>1, SlotsStay

(* The step that starts a forwarder, which is let in below the limit only. *)
LEMMA ForwarderStarts ==
  ASSUME TypeOK, SlotsInv, NEW c \in Clients, NEW q \in Runs, client[c].run = q,
         client[c].at \notin {"live", "leaving"}, client'[c].at = "live", client'[c].run = q,
         attachers[q] < MaxAttachers,
         \A d \in Clients : d # c => client'[d] = client[d],
         attachers' = [attachers EXCEPT ![q] = @ + 1]
  PROVE  SlotsInv'
  <1>1. attachers \in [Runs -> Int] /\ \A r \in Runs : SlotsOf(r)
    BY DEF TypeOK, SlotsInv
  <1>0. MaxAttachers \in Nat
    BY BoundsAssumption
  <1>2. ASSUME NEW r \in Runs, r # q PROVE SlotsOf(r)'
    <2>1. \A d \in Clients : d \in Forwarders(r)' <=> d \in Forwarders(r)
      <3> TAKE d \in Clients
      <3>1. CASE d # c
        BY <3>1 DEF Forwarders
      <3>2. CASE d = c
        BY <1>2, <3>2 DEF Forwarders
      <3> QED
        BY <3>1, <3>2
    <2>2. Forwarders(r)' = Forwarders(r)
      BY <2>1 DEF Forwarders
    <2>3. attachers'[r] = attachers[r]
      BY <1>1, <1>2
    <2> QED
      BY <1>1, <2>2, <2>3 DEF SlotsOf
  <1>3. SlotsOf(q)'
    <2>1. c \notin Forwarders(q)
      BY DEF Forwarders
    <2>2. \A d \in Clients : d \in Forwarders(q)' <=> d \in Forwarders(q) \cup {c}
      <3> TAKE d \in Clients
      <3>1. CASE d # c
        BY <3>1 DEF Forwarders
      <3>2. CASE d = c
        BY <3>2 DEF Forwarders
      <3> QED
        BY <3>1, <3>2
    <2>3. Forwarders(q)' = Forwarders(q) \cup {c}
      BY <2>2 DEF Forwarders
    <2>4. attachers'[q] = attachers[q] + 1 /\ attachers[q] \in Int
      BY <1>1
    <2>5. SlotsOf(q)
      BY <1>1
    <2> HIDE DEF Forwarders
    <2>6. IsFiniteSet(Forwarders(q)') /\ Cardinality(Forwarders(q)') = Cardinality(Forwarders(q)) + 1
      BY <2>1, <2>3, <2>5, SlotTaken DEF SlotsOf
    <2> QED
      BY <1>0, <2>4, <2>5, <2>6 DEF SlotsOf
  <1> QED
    BY <1>2, <1>3 DEF SlotsInv

(* The step of a client's forwarder that ends: it gives one slot back.     *)
LEMMA ForwarderExits ==
  ASSUME TypeOK, SlotsInv, NEW c \in Clients, NEW q \in Runs, client[c].run = q,
         client[c].at \in {"live", "leaving"}, client'[c].at \notin {"live", "leaving"},
         \A d \in Clients : d # c => client'[d] = client[d],
         attachers' = [attachers EXCEPT ![q] = @ - 1]
  PROVE  SlotsInv'
  <1>1. attachers \in [Runs -> Int] /\ \A r \in Runs : SlotsOf(r)
    BY DEF TypeOK, SlotsInv
  <1>0. MaxAttachers \in Nat
    BY BoundsAssumption
  <1>2. ASSUME NEW r \in Runs, r # q PROVE SlotsOf(r)'
    <2>1. \A d \in Clients : d \in Forwarders(r)' <=> d \in Forwarders(r)
      <3> TAKE d \in Clients
      <3>1. CASE d # c
        BY <3>1 DEF Forwarders
      <3>2. CASE d = c
        BY <1>2, <3>2 DEF Forwarders
      <3> QED
        BY <3>1, <3>2
    <2>2. Forwarders(r)' = Forwarders(r)
      BY <2>1 DEF Forwarders
    <2>3. attachers'[r] = attachers[r]
      BY <1>1, <1>2
    <2> QED
      BY <1>1, <2>2, <2>3 DEF SlotsOf
  <1>3. SlotsOf(q)'
    <2>1. c \in Forwarders(q)
      BY DEF Forwarders
    <2>2. \A d \in Clients : d \in Forwarders(q)' <=> d \in Forwarders(q) \ {c}
      <3> TAKE d \in Clients
      <3>1. CASE d # c
        BY <3>1 DEF Forwarders
      <3>2. CASE d = c
        BY <3>2 DEF Forwarders
      <3> QED
        BY <3>1, <3>2
    <2>3. Forwarders(q)' = Forwarders(q) \ {c}
      BY <2>2 DEF Forwarders
    <2>4. attachers'[q] = attachers[q] - 1 /\ attachers[q] \in Int
      BY <1>1
    <2>5. SlotsOf(q)
      BY <1>1
    <2> HIDE DEF Forwarders
    <2>6. IsFiniteSet(Forwarders(q)') /\ Cardinality(Forwarders(q)') = Cardinality(Forwarders(q)) - 1
      BY <2>1, <2>3, <2>5, SlotGiven DEF SlotsOf
    <2> QED
      BY <1>0, <2>4, <2>5, <2>6 DEF SlotsOf
  <1> QED
    BY <1>2, <1>3 DEF SlotsInv

(* Every step keeps the slots the forwarders that run.                     *)
LEMMA SlotsStep ==
  ASSUME TypeOK, ClientTypes, ClientsKnow, SlotsInv, [Next]_vars
  PROVE  SlotsInv'
  <1>1. ASSUME NEW r \in Runs, NEW k \in Kinds, CreateBackupRun(r, k)
        PROVE  SlotsInv'
    BY <1>1, SlotsStay DEF CreateBackupRun, Forwarders
  <1>2. ASSUME NEW r \in Runs, NEW s \in {"skipped", "failed"}, RecordUnstartedCycle(r, s)
        PROVE  SlotsInv'
    BY <1>2, SlotsStay DEF RecordUnstartedCycle, Forwarders
  <1>3. ASSUME NEW r \in Runs, RegisterAndAdd(r) PROVE SlotsInv'
    BY <1>3, SlotsStay DEF RegisterAndAdd, Forwarders
  <1>4. ASSUME NEW r \in Runs, AppendLog(r) PROVE SlotsInv'
    BY <1>4, SlotsStay DEF AppendLog, Forwarders
  <1>5. ASSUME NEW r \in Runs, NEW s \in Outcomes, ServiceFinalises(r, s)
        PROVE  SlotsInv'
    BY <1>5, SlotsStay DEF ServiceFinalises, Forwarders
  <1>6. ASSUME NEW r \in Runs, NEW s \in Outcomes, ServiceEnds(r, s)
        PROVE  SlotsInv'
    BY <1>6, SlotsStay DEF ServiceEnds, Forwarders
  <1>7. ASSUME NEW r \in Runs, SyncFails(r) PROVE SlotsInv'
    BY <1>7, SlotsStay DEF SyncFails, Forwarders
  <1>8. ASSUME NEW r \in Runs, ServiceReturns(r) PROVE SlotsInv'
    BY <1>8, SlotsStay DEF ServiceReturns, Forwarders
  <1>9. ASSUME NEW r \in Runs, Panic(r) PROVE SlotsInv'
    BY <1>9, SlotsStay DEF Panic, Forwarders
  <1>10. ASSUME NEW r \in Runs, Flush(r) PROVE SlotsInv'
    BY <1>10, SlotsStay DEF Flush, Forwarders
  <1>11. ASSUME NEW r \in Runs, Finalise(r) PROVE SlotsInv'
    BY <1>11, SlotsStay DEF Finalise, Forwarders
  <1>12. ASSUME NEW r \in Runs, CloseDone(r) PROVE SlotsInv'
    BY <1>12, SlotsStay DEF CloseDone, Forwarders
  <1>13. ASSUME NEW r \in Runs, Emit(r) PROVE SlotsInv'
    BY <1>13, SlotsStay DEF Emit, Forwarders
  <1>14. ASSUME NEW r \in Runs, Evict(r) PROVE SlotsInv'
    BY <1>14, SlotsStay DEF Evict, Forwarders
  <1>15. ASSUME NEW r \in Runs, DeleteOldRow(r) PROVE SlotsInv'
    BY <1>15, SlotsStay DEF DeleteOldRow, Forwarders
  <1>16. ASSUME NEW c \in Clients, NEW r \in Runs, AttachToRow(c, r)
        PROVE  SlotsInv'
    <2>1. client[c] \in ClientRecord /\ UNCHANGED attachers
          /\ \A d \in Clients : d # c => client'[d] = client[d]
      BY <1>16 DEF AttachToRow, UnchangedButClient, ClientTypes
    <2>2. client[c].at = "idle" /\ client'[c].at = "told"
      BY <1>16, <2>1 DEF AttachToRow, ClientTypes, ClientRecord
    <2> QED
      BY <2>1, <2>2, ForwarderStays
  <1>17. ASSUME NEW c \in Clients, NEW r \in Runs, AttachCopies(c, r)
        PROVE  SlotsInv'
    <2>1. client[c] \in ClientRecord /\ UNCHANGED attachers
          /\ \A d \in Clients : d # c => client'[d] = client[d]
      BY <1>17 DEF AttachCopies, UnchangedButClient, ClientTypes
    <2>2. client[c].at = "idle" /\ client'[c].at = "copied"
      BY <1>17, <2>1 DEF AttachCopies, ClientTypes, ClientRecord
    <2> QED
      BY <2>1, <2>2, ForwarderStays
  <1>18. ASSUME NEW c \in Clients, AttachDecides(c) PROVE SlotsInv'
    <2>1. PICK q \in Runs : q = client[c].run
      BY <1>18 DEF AttachDecides, ClientsKnow, KnowsRun
    <2>2. client[c] \in ClientRecord /\ client[c].at = "copied"
          /\ \A d \in Clients : d # c => client'[d] = client[d]
      BY <1>18 DEF AttachDecides, ClientTypes
    <2>3. CASE attachers' = attachers /\ client'[c].at \in {"told", "refused"}
      BY <2>2, <2>3, ForwarderStays
    <2>4. CASE /\ attachers[q] < MaxAttachers /\ attachers' = [attachers EXCEPT ![q] = @ + 1]
               /\ client'[c].at = "live" /\ client'[c].run = q
      BY <2>1, <2>2, <2>4, ForwarderStarts
    <2> DEFINE told == outcome[client[c].run]
    <2>5. \/ /\ client' = [client EXCEPT ![c].at = "told", ![c].told = told]
             /\ attachers' = attachers
          \/ /\ client' = [client EXCEPT ![c].at = "live", ![c].streamed = TRUE]
             /\ attachers[q] < MaxAttachers /\ attachers' = [attachers EXCEPT ![q] = @ + 1]
          \/ /\ client' = [client EXCEPT ![c].at = "refused"]
             /\ attachers' = attachers
      BY <1>18, <2>1 DEF AttachDecides
    <2> HIDE DEF told
    <2> QED
      <3>1. client' = [client EXCEPT ![c].at = "told", ![c].told = told] => client'[c].at = "told"
        BY <2>2 DEF ClientTypes, ClientRecord
      <3>2. client' = [client EXCEPT ![c].at = "live", ![c].streamed = TRUE]
              => client'[c].at = "live" /\ client'[c].run = q
        <4>1. SUFFICES ASSUME client' = [client EXCEPT ![c].at = "live", ![c].streamed = TRUE]
                       PROVE  client'[c].at = "live" /\ client'[c].run = client[c].run
          BY <2>1
        <4> QED
          BY <2>2, <4>1 DEF ClientTypes, ClientRecord
      <3>3. client' = [client EXCEPT ![c].at = "refused"] => client'[c].at = "refused"
        BY <2>2 DEF ClientTypes, ClientRecord
      <3> QED
        BY <2>3, <2>4, <2>5, <3>1, <3>2, <3>3
  <1>19. ASSUME NEW c \in Clients, Poll(c) PROVE SlotsInv'
    <2>1. client[c] \in ClientRecord /\ UNCHANGED attachers
          /\ \A d \in Clients : d # c => client'[d] = client[d]
      BY <1>19 DEF Poll, UnchangedButClient, ClientTypes
    <2>2. client[c].at = "live" /\ client'[c].at = "live" /\ client'[c].run = client[c].run
      BY <1>19, <2>1 DEF Poll, ClientTypes, ClientRecord
    <2> QED
      BY <2>1, <2>2, ForwarderStays
  <1>20. ASSUME NEW c \in Clients, ForwarderEnds(c) PROVE SlotsInv'
    <2>1. PICK q \in Runs : q = client[c].run
      BY <1>20 DEF ForwarderEnds, ClientsKnow, KnowsRun
    <2>2. client[c] \in ClientRecord /\ attachers' = [attachers EXCEPT ![q] = @ - 1]
          /\ \A d \in Clients : d # c => client'[d] = client[d]
      BY <1>20, <2>1 DEF ForwarderEnds, ClientTypes
    <2>3. client[c].at = "live" /\ client'[c].at = "ended"
      BY <1>20, <2>2 DEF ForwarderEnds, ClientTypes, ClientRecord
    <2> QED
      BY <2>1, <2>2, <2>3, ForwarderExits
  <1>21. ASSUME NEW c \in Clients, TellOutcome(c) PROVE SlotsInv'
    <2>1. client[c] \in ClientRecord /\ UNCHANGED attachers
          /\ \A d \in Clients : d # c => client'[d] = client[d]
      BY <1>21 DEF TellOutcome, UnchangedButClient, ClientTypes
    <2>2. client[c].at = "ended" /\ client'[c].at = "told"
      BY <1>21, <2>1 DEF TellOutcome, ClientTypes, ClientRecord
    <2> QED
      BY <2>1, <2>2, ForwarderStays
  <1>22. ASSUME NEW c \in Clients, ForwarderSeesGone(c) PROVE SlotsInv'
    <2>1. PICK q \in Runs : q = client[c].run
      BY <1>22 DEF ForwarderSeesGone, ClientsKnow, KnowsRun
    <2>2. client[c] \in ClientRecord /\ attachers' = [attachers EXCEPT ![q] = @ - 1]
          /\ \A d \in Clients : d # c => client'[d] = client[d]
      BY <1>22, <2>1 DEF ForwarderSeesGone, ClientTypes
    <2>3. client[c].at = "leaving" /\ client'[c].at = "gone"
      BY <1>22, <2>2 DEF ForwarderSeesGone, ClientTypes, ClientRecord
    <2> QED
      BY <2>1, <2>2, <2>3, ForwarderExits
  <1>23. ASSUME NEW c \in Clients, Leave(c) PROVE SlotsInv'
    <2>1. client[c] \in ClientRecord /\ UNCHANGED attachers
          /\ \A d \in Clients : d # c => client'[d] = client[d]
      BY <1>23 DEF Leave, UnchangedButClient, ClientTypes
    <2>2. \/ client[c].at = "copied" /\ client'[c].at = "gone"
          \/ /\ client[c].at = "live" /\ client'[c].at = "leaving"
             /\ client'[c].run = client[c].run
      BY <1>23, <2>1 DEF Leave, ClientTypes, ClientRecord
    <2> QED
      BY <2>1, <2>2, ForwarderStays
  <1>24. CASE BeginStop
    BY <1>24, SlotsStay DEF BeginStop, Forwarders
  <1>25. CASE WaitReturns
    BY <1>25, SlotsStay DEF WaitReturns, Forwarders
  <1>26. CASE Crash
    <2>1. \A r \in Runs : Forwarders(r)' = {} /\ attachers'[r] = 0
      BY <1>26 DEF Crash, Forwarders, IdleClient
    <2>2. \A r \in Runs : SlotsOf(r)'
      BY <2>1, FS_EmptySet, BoundsAssumption DEF SlotsOf
    <2> QED
      BY <2>2 DEF SlotsInv
  <1>27. CASE Boot
    BY <1>27, SlotsStay DEF Boot, Forwarders
  <1>28. CASE UNCHANGED vars
    BY <1>28, SlotsStay DEF vars, Forwarders
  <1>29. CASE \E r \in Runs : RunStep(r)
    BY <1>29, <1>3, <1>4, <1>5, <1>6, <1>7, <1>8, <1>9, <1>10, <1>11, <1>12 DEF RunStep
  <1>30. CASE \E c \in Clients : ClientStep(c)
    BY <1>30, <1>18, <1>19, <1>20, <1>21, <1>22 DEF ClientStep
  <1> QED
    BY <1>1, <1>2, <1>13, <1>14, <1>15, <1>16, <1>17, <1>23, <1>24, <1>25,
       <1>26, <1>27, <1>28, <1>29, <1>30 DEF Next

-----------------------------------------------------------------------------
(* What a record may turn into, one status at a time.                      *)
LEMMA LaterOf ==
  /\ Record!Later("absent") = {"running", "skipped", "failed"}
  /\ Record!Later("running") = Terminal \cup {"absent"}
  /\ Record!Later("success") = {"partial", "failed", "absent"}
  /\ Record!Later("partial") = {"failed", "absent"}
  /\ \A s \in {"failed", "skipped", "interrupted"} : Record!Later(s) = {"absent"}
  BY DEF Record!Later, Record!Ended, Terminal, Outcomes

RowMoves(r) == row'[r] = row[r] \/ row'[r] \in Record!Later(row[r])

(* Every step changes the rows only as a record may change.                *)
LEMMA RecordStep ==
  ASSUME TypeOK, RowInv, [Next]_vars
  PROVE  row' = row \/ \A r \in Runs : RowMoves(r)
  <1>1. ASSUME NEW r \in Runs, NEW k \in Kinds, CreateBackupRun(r, k)
        PROVE  row' = row \/ \A q \in Runs : RowMoves(q)
    BY <1>1, LaterOf DEF CreateBackupRun, RowMoves, TypeOK, RowInv, RowFollows, RowFollowsRun
  <1>2. ASSUME NEW r \in Runs, NEW s \in {"skipped", "failed"}, RecordUnstartedCycle(r, s)
        PROVE  row' = row \/ \A q \in Runs : RowMoves(q)
    BY <1>2, LaterOf DEF RecordUnstartedCycle, RowMoves, TypeOK, RowInv, RowFollows,
           RowFollowsRun
  <1>3. ASSUME NEW r \in Runs, RegisterAndAdd(r)
        PROVE  row' = row \/ \A q \in Runs : RowMoves(q)
    BY <1>3 DEF RegisterAndAdd, dbVars
  <1>4. ASSUME NEW r \in Runs, AppendLog(r)
        PROVE  row' = row \/ \A q \in Runs : RowMoves(q)
    BY <1>4 DEF AppendLog, dbVars
  <1>5. ASSUME NEW r \in Runs, NEW s \in Outcomes, ServiceFinalises(r, s)
        PROVE  row' = row \/ \A q \in Runs : RowMoves(q)
    BY <1>5, LaterOf DEF ServiceFinalises, WriteRow, RowMoves, TypeOK, RowInv, RowFollows,
           RowFollowsRun, Terminal
  <1>6. ASSUME NEW r \in Runs, NEW s \in Outcomes, ServiceEnds(r, s)
        PROVE  row' = row \/ \A q \in Runs : RowMoves(q)
    BY <1>6 DEF ServiceEnds, dbVars
  <1>7. ASSUME NEW r \in Runs, SyncFails(r)
        PROVE  row' = row \/ \A q \in Runs : RowMoves(q)
    <2>1. /\ result[r] \in Writing /\ row[r] \in {"running", result[r]}
          /\ WriteRow(r, AfterFailedSync(result[r]))
      BY <1>7 DEF SyncFails, RowInv, RowFollows, RowFollowsRun
    <2>2. \/ row[r] = "running" /\ AfterFailedSync(result[r]) \in Terminal
          \/ row[r] = "success" /\ AfterFailedSync(result[r]) = "partial"
          \/ AfterFailedSync(result[r]) = row[r]
      BY <2>1 DEF AfterFailedSync, Writing, Terminal, Outcomes
    <2>3. CASE row' = [row EXCEPT ![r] = AfterFailedSync(result[r])]
      BY <2>2, <2>3, LaterOf DEF RowMoves, TypeOK
    <2> QED
      BY <2>1, <2>3 DEF WriteRow
  <1>8. ASSUME NEW r \in Runs, ServiceReturns(r)
        PROVE  row' = row \/ \A q \in Runs : RowMoves(q)
    BY <1>8 DEF ServiceReturns, dbVars
  <1>9. ASSUME NEW r \in Runs, Panic(r)
        PROVE  row' = row \/ \A q \in Runs : RowMoves(q)
    BY <1>9 DEF Panic, dbVars
  <1>10. ASSUME NEW r \in Runs, Flush(r)
        PROVE  row' = row \/ \A q \in Runs : RowMoves(q)
    BY <1>10 DEF Flush, dbVars
  <1>11. ASSUME NEW r \in Runs, Finalise(r)
        PROVE  row' = row \/ \A q \in Runs : RowMoves(q)
    <2>1. CASE r \in owesRow /\ row' = [row EXCEPT ![r] = result[r]]
      <3>1. RowFollowsRun(r) /\ pc[r] = "flushed"
        BY <1>11 DEF Finalise, RowInv, RowFollows
      <3>2. /\ result[r] \in Outcomes
            /\ row[r] = "running" \/ (result[r] = "failed" /\ row[r] \in Writing)
        BY <2>1, <3>1 DEF RowFollowsRun
      <3> QED
        BY <2>1, <3>2, LaterOf DEF RowMoves, TypeOK, Outcomes, Writing, Terminal
    <2> QED
      BY <1>11, <2>1 DEF Finalise, WriteRow, dbVars
  <1>12. ASSUME NEW r \in Runs, CloseDone(r)
        PROVE  row' = row \/ \A q \in Runs : RowMoves(q)
    BY <1>12 DEF CloseDone, dbVars
  <1>13. ASSUME NEW r \in Runs, Emit(r)
        PROVE  row' = row \/ \A q \in Runs : RowMoves(q)
    BY <1>13 DEF Emit, dbVars
  <1>14. ASSUME NEW r \in Runs, Evict(r)
        PROVE  row' = row \/ \A q \in Runs : RowMoves(q)
    BY <1>14 DEF Evict, dbVars
  <1>15. ASSUME NEW r \in Runs, DeleteOldRow(r)
        PROVE  row' = row \/ \A q \in Runs : RowMoves(q)
    BY <1>15, LaterOf DEF DeleteOldRow, RowMoves, TypeOK, Terminal, Outcomes
  <1>16. ASSUME NEW c \in Clients, NEW r \in Runs, AttachToRow(c, r)
        PROVE  row' = row \/ \A q \in Runs : RowMoves(q)
    BY <1>16 DEF AttachToRow, dbVars, UnchangedButClient
  <1>17. ASSUME NEW c \in Clients, NEW r \in Runs, AttachCopies(c, r)
        PROVE  row' = row \/ \A q \in Runs : RowMoves(q)
    BY <1>17 DEF AttachCopies, dbVars, UnchangedButClient
  <1>18. ASSUME NEW c \in Clients, AttachDecides(c)
        PROVE  row' = row \/ \A q \in Runs : RowMoves(q)
    BY <1>18 DEF AttachDecides, dbVars
  <1>19. ASSUME NEW c \in Clients, Poll(c)
        PROVE  row' = row \/ \A q \in Runs : RowMoves(q)
    BY <1>19 DEF Poll, dbVars, UnchangedButClient
  <1>20. ASSUME NEW c \in Clients, ForwarderEnds(c)
        PROVE  row' = row \/ \A q \in Runs : RowMoves(q)
    BY <1>20 DEF ForwarderEnds, dbVars
  <1>21. ASSUME NEW c \in Clients, TellOutcome(c)
        PROVE  row' = row \/ \A q \in Runs : RowMoves(q)
    BY <1>21 DEF TellOutcome, dbVars, UnchangedButClient
  <1>22. ASSUME NEW c \in Clients, ForwarderSeesGone(c)
        PROVE  row' = row \/ \A q \in Runs : RowMoves(q)
    BY <1>22 DEF ForwarderSeesGone, dbVars
  <1>23. ASSUME NEW c \in Clients, Leave(c)
        PROVE  row' = row \/ \A q \in Runs : RowMoves(q)
    BY <1>23 DEF Leave, dbVars, UnchangedButClient
  <1>24. CASE BeginStop
    BY <1>24 DEF BeginStop, dbVars
  <1>25. CASE WaitReturns
    BY <1>25 DEF WaitReturns, dbVars
  <1>26. CASE Crash
    BY <1>26 DEF Crash, dbVars
  <1>27. CASE Boot
    BY <1>27, LaterOf DEF Boot, Sweep, RowMoves, TypeOK, Terminal
  <1>28. CASE UNCHANGED vars
    BY <1>28 DEF vars
  <1>29. CASE \E r \in Runs : RunStep(r)
    BY <1>29, <1>3, <1>4, <1>5, <1>6, <1>7, <1>8, <1>9, <1>10, <1>11, <1>12 DEF RunStep
  <1>30. CASE \E c \in Clients : ClientStep(c)
    BY <1>30, <1>18, <1>19, <1>20, <1>21, <1>22 DEF ClientStep
  <1> QED
    BY <1>1, <1>2, <1>13, <1>14, <1>15, <1>16, <1>17, <1>23, <1>24, <1>25,
       <1>26, <1>27, <1>28, <1>29, <1>30 DEF Next

-----------------------------------------------------------------------------
(* The inductive invariant of the registry, from the parts above.          *)
RegistryIInv == TypeOK /\ LifeInv /\ RowInv /\ ClientInv /\ StreamInv /\ SlotsInv

(* The inductive invariant holds at the start.                             *)
LEMMA InitHolds == Init => RegistryIInv
  <1> SUFFICES ASSUME Init PROVE RegistryIInv
    OBVIOUS
  <1>1. LifeInv
    BY DEF Init, LifeInv, JoinedMeansQuiet, Registered
  <1>2. RowInv
    BY DEF Init, RowInv, RowFollows, RowFollowsRun, OwedByRegistry, NoStrandedRow
  <1>3. \A c \in Clients : /\ client[c].at = "idle" /\ ~client[c].streamed
                          /\ client[c].got = <<>>
    BY DEF Init, IdleClient
  <1>4. ClientTypes
    <2>1. IdleClient \in ClientRecord
      BY NothingYet DEF IdleClient, ClientRecord, NoRun
    <2> QED
      BY <2>1 DEF Init, ClientTypes
  <1>5. ClientInv
    BY <1>3, <1>4 DEF ClientInv, ClientsKnow, KnowsRun, ToldOnlyWhenOver, Watching
  <1>6. StreamInv
    <2>1. \A r \in Runs : dropped[r] <= logged[r]
      <3>1. \A r \in Runs : dropped[r] = 0 /\ logged[r] = 0
        BY DEF Init
      <3> QED
        BY <3>1, NothingYet
    <2> QED
      BY <1>3, <2>1 DEF StreamInv, StreamOf, Watching
  <1>7. SlotsInv
    <2>1. \A r \in Runs : Forwarders(r) = {} /\ attachers[r] = 0
      BY <1>3 DEF Init, Forwarders
    <2> QED
      BY <2>1, FS_EmptySet, BoundsAssumption DEF SlotsInv, SlotsOf
  <1> QED
    BY <1>1, <1>2, <1>5, <1>6, <1>7, TypeInit DEF RegistryIInv

(* Every step preserves it.                                                *)
LEMMA StepHolds == RegistryIInv /\ [Next]_vars => RegistryIInv'
  <1> SUFFICES ASSUME RegistryIInv, [Next]_vars PROVE RegistryIInv'
    OBVIOUS
  <1>1. TypeOK /\ LifeInv /\ RowInv /\ ClientInv /\ StreamInv /\ SlotsInv
    BY DEF RegistryIInv
  <1>2. ClientTypes /\ ClientsKnow
    BY <1>1 DEF ClientInv
  <1>3. TypeOK' /\ LifeInv' /\ RowInv'
    BY <1>1, TypeStep, LifeStep, RowStep
  <1>4. ClientInv'
    BY <1>1, <1>2, ClientTypeStep, ClientStepKeeps DEF ClientInv
  <1>5. StreamInv' /\ SlotsInv'
    BY <1>1, <1>2, StreamStep, SlotsStep
  <1> QED
    BY <1>3, <1>4, <1>5 DEF RegistryIInv

(* It holds in every reachable state.                                      *)
LEMMA RegistryHolds == Spec => []RegistryIInv
  BY InitHolds, StepHolds, PTL DEF Spec

(* For any runs, clients and bounds: the outcome of a run that is done is  *)
(* in its row, no row is left "running" with nothing behind it, nothing    *)
(* runs after the join, and the slots are the forwarders.                  *)
THEOREM RunnerSafe == Spec => []RunnerInv
  <1>1. RegistryIInv => RunnerInv
    <2> SUFFICES ASSUME RegistryIInv PROVE RunnerInv
      OBVIOUS
    <2>1. OutcomePersisted
      BY DEF RegistryIInv, RowInv, RowFollows, RowFollowsRun, Written, OutcomePersisted
    <2> QED
      BY <2>1, SlotsCounted DEF RegistryIInv, RunnerInv, RowInv, LifeInv
  <1> QED
    BY <1>1, RegistryHolds, PTL

(* A client is told the outcome of its run and only when it is over, and   *)
(* one that streamed to the end has every line the buffer had not let go,  *)
(* once and in order: whatever the sizes of the buffer and of the log.     *)
THEOREM StreamsTrue == Spec => []StreamsAreTrue
  <1>1. RegistryIInv => StreamsAreTrue
    BY ReadToTheEnd DEF RegistryIInv, ClientInv, StreamsAreTrue
  <1> QED
    BY <1>1, RegistryHolds, PTL

(* The registry implements the record: no status once shown is improved    *)
(* on, across panics, failed syncs, crashes and the sweep at the boot.     *)
THEOREM RecordRefined == Spec => RecordSpec
  <1>1. Init => Record!Init
    BY DEF Init, Record!Init
  <1>2. RegistryIInv /\ [Next]_vars => [Record!Change]_row
    BY RecordStep DEF RegistryIInv, RowMoves, Record!Change
  <1> QED
    BY <1>1, <1>2, RegistryHolds, PTL DEF Spec, RecordSpec, Record!Spec

=============================================================================
