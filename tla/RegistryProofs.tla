---------------------------- MODULE RegistryProofs ----------------------------
(***************************************************************************)
(* Theorems about the register of stacks, for any folders, files and ids,  *)
(* and any number of moves.                                                *)
(***************************************************************************)
EXTENDS Registry, TLAPS

(* A scan that holds the mutex has a name; it prunes when the walk is over *)
(* with the folders it saw, and every folder that was away at any moment   *)
(* since it began is written down.                                         *)
ScanInv ==
  /\ job.by = "none" => job = Idle
  /\ job.by = "all" => Dirs \ dirs \subseteq missing
  /\ job.at = "prune" => /\ job.by = "all" /\ job.todo = {} /\ job.found = {}
                         /\ Dirs \ job.active \subseteq missing

(* What is about to be written into the table of stacks: the files a scan  *)
(* has seen, in a folder that has its row, and the file of a create.       *)
UpsertsInv ==
  /\ \A f \in job.found : f \in files \cup taken /\ DirOf[f] \in drow
  /\ UnderCreate \subseteq files \cup taken

(* What is in the tables: every stack has its file and its folder's row.   *)
RowsInv == NoGhosts /\ \A i \in row : Home(i) \in drow

RegistryIInv == TypeOK /\ ScanInv /\ UpsertsInv /\ RowsInv

-----------------------------------------------------------------------------
(* The file and the folder of an id.                                       *)
LEMMA HomeType == ASSUME NEW i \in Ids PROVE FileOf[i] \in Files /\ Home(i) \in Dirs
  BY RegistryAssumption DEF Home

(* The id minted for a file is an id of that file.                         *)
LEMMA MintedType ==
  ASSUME NEW f \in Files PROVE Minted[f] \in Ids /\ FileOf[Minted[f]] = f
  BY RegistryAssumption

(* The records of a scan.                                                  *)
JobType ==
  [by : {"none", "all", "watch", "create"}, for : Dirs \cup Ids \cup {None},
   todo : SUBSET Dirs, found : SUBSET Files, active : SUBSET Dirs, at : {"scan", "prune"}]

(* One step of the scan that holds the mutex.                              *)
LEMMA DirectoryScanned ==
  ASSUME TypeOK, NEW d \in Dirs, ScanDirectory(d)
  PROVE  /\ job' \in JobType /\ d \in job.todo /\ job.found = {}
         /\ job'.by = job.by /\ job'.at = job.at /\ job'.active = job.active
         /\ \/ drow' = drow \cup {d} /\ job'.found = {f \in files : DirOf[f] = d}
            \/ drow' = drow /\ job'.found = {}
  <1> USE DEF TypeOK, JobType
  <1>1. job \in JobType /\ d \in job.todo /\ job.found = {}
    BY DEF ScanDirectory
  <1>2. CASE d \in Seen
    <2> DEFINE more == IF job.by = "all" THEN Inside[d] \cap Seen ELSE {}
               todo == (job.todo \ {d}) \cup more
    <2>1. todo \in SUBSET Dirs
      BY DEF Seen
    <2>2. drow' = drow \cup {d} /\ job' = [job EXCEPT !.found = In(d), !.todo = todo]
      BY <1>2 DEF ScanDirectory
    <2>3. In(d) \in SUBSET Files
      BY DEF In
    <2> HIDE DEF todo
    <2> QED
      BY <1>1, <2>1, <2>2, <2>3 DEF In
  <1>3. CASE d \notin Seen
    <2>1. job' = [job EXCEPT !.todo = @ \ {d}] /\ drow' = drow
      BY <1>3 DEF ScanDirectory
    <2> QED
      BY <1>1, <2>1
  <1> QED
    BY <1>2, <1>3

(* The end of the walk: the scan prunes by the folders it saw, or is       *)
(* given up.                                                               *)
LEMMA Walked ==
  ASSUME TypeOK, CollectActiveDirs
  PROVE  /\ job' \in JobType /\ job.found = {} /\ job.todo = {} /\ job.by = "all"
         /\ \/ /\ job'.by = "all" /\ job'.at = "prune" /\ job'.found = {} /\ job'.todo = {}
               /\ job'.active = dirs /\ missing' = missing
            \/ job' = Idle /\ missing' = {}
  <1> USE DEF TypeOK, JobType
  <1>1. job \in JobType /\ job.found = {} /\ job.todo = {} /\ job.by = "all"
    BY DEF CollectActiveDirs, Scanned
  <1>2. CASE MayWalk /\ job' = [job EXCEPT !.active = Seen, !.at = "prune"] /\ UNCHANGED missing
    BY <1>1, <1>2 DEF MayWalk, Seen
  <1>3. CASE job' = Idle /\ missing' = {}
    BY <1>1, <1>3 DEF Idle
  <1> QED
    BY <1>2, <1>3 DEF CollectActiveDirs

(* Every step preserves the types.                                         *)
LEMMA TypeStep == ASSUME TypeOK, [Next]_vars PROVE TypeOK'
  <1> USE RegistryAssumption, HomeType, MintedType DEF TypeOK, disk, tables, scan, ops, watch, Scanner, Seen
  <1>1. CASE ScanAll
    BY <1>1 DEF ScanAll, Idle, Top
  <1>2. ASSUME NEW d \in Dirs, ScanDirectory(d) PROVE TypeOK'
    <2>1. UNCHANGED <<disk, cred, row, missing, ops, watch, taken, moves>>
      BY <1>2 DEF ScanDirectory
    <2> QED
      BY <1>2, <2>1, DirectoryScanned DEF JobType
  <1>3. ASSUME NEW f \in Files, UpsertStack(f) PROVE TypeOK'
    BY <1>3 DEF UpsertStack, Idle, Top
  <1>4. CASE CollectActiveDirs
    <2>1. UNCHANGED <<disk, tables, ops, watch, taken, moves>>
      BY <1>4 DEF CollectActiveDirs
    <2>2. missing' \subseteq Dirs
      BY <1>4, Walked
    <2> QED
      BY <1>4, <2>1, <2>2, Walked DEF JobType
  <1>5. CASE PruneStaleStacks
    BY <1>5 DEF PruneStaleStacks, StaleId, Idle, Top
  <1>6. CASE RescanEnds
    BY <1>6 DEF RescanEnds, Scanned, Idle, Top
  <1>7. ASSUME NEW i \in Ids, CreateEnds(i) PROVE TypeOK'
    BY <1>7 DEF CreateEnds, Scanned, At, Idle, Top
  <1>8. CASE Remount
    BY <1>8 DEF Remount, Move, Idle, Top
  <1>9. ASSUME NEW d \in Dirs, WatchNewDir(d) PROVE TypeOK'
    BY <1>9 DEF WatchNewDir, Idle, Top
  <1>10. ASSUME NEW d \in Dirs, HandleEvent(d) PROVE TypeOK'
    BY <1>10 DEF HandleEvent, ScheduleRescan, Idle, Top
  <1>11. ASSUME NEW d \in Dirs, TimerFires(d) PROVE TypeOK'
    BY <1>11 DEF TimerFires, Idle, Top
  <1>12. ASSUME NEW d \in Dirs, PerformRescan(d) PROVE TypeOK'
    <2>1. job' \in JobType
      BY <1>12 DEF PerformRescan, Idle, JobType
    <2> QED
      BY <1>12, <2>1 DEF PerformRescan, JobType
  <1>13. ASSUME NEW d \in Dirs, MakeDir(d) PROVE TypeOK'
    BY <1>13 DEF MakeDir, Operator, Move, Idle, Top
  <1>14. ASSUME NEW d \in Dirs, RemoveDir(d) PROVE TypeOK'
    BY <1>14 DEF RemoveDir, RemoveAll, Operator, Move, Touch, Idle, Top
  <1>15. ASSUME NEW d \in Dirs, UpdateCredentials(d) PROVE TypeOK'
    BY <1>15 DEF UpdateCredentials, Move, Idle, Top
  <1>16. ASSUME NEW f \in Files, WriteFile(f) PROVE TypeOK'
    BY <1>16 DEF WriteFile, Operator, Move, Touch, Idle, Top
  <1>17. ASSUME NEW f \in Files, RemoveFile(f) PROVE TypeOK'
    BY <1>17 DEF RemoveFile, Operator, Move, Touch, Idle, Top
  <1>18. ASSUME NEW i \in Ids, CreateBegins(i) PROVE TypeOK'
    BY <1>18 DEF CreateBegins, Move, At, Idle, Top
  <1>19. ASSUME NEW i \in Ids, CreateWrites(i) PROVE TypeOK'
    BY <1>19 DEF CreateWrites, RemoveAll, Touch, At, Idle, Top
  <1>20. ASSUME NEW i \in Ids, RegisterDirectory(i) PROVE TypeOK'
    BY <1>20 DEF RegisterDirectory, At, Idle, Top
  <1>21. ASSUME NEW i \in Ids, CreateUpserts(i) PROVE TypeOK'
    BY <1>21 DEF CreateUpserts, At, Idle, Top
  <1>22. ASSUME NEW i \in Ids, CreateRollsBack(i) PROVE TypeOK'
    BY <1>22 DEF CreateRollsBack, RemoveAll, Touch, At, Idle, Top
  <1>23. ASSUME NEW i \in Ids, CreateScans(i) PROVE TypeOK'
    <2>1. job' \in JobType
      <3>1. {Home(i)} \in SUBSET Dirs
        OBVIOUS
      <3>2. job' = [Idle EXCEPT !.by = "create", !.for = i, !.todo = {Home(i)}]
        BY <1>23 DEF CreateScans
      <3> QED
        BY <3>1, <3>2 DEF Idle, JobType
    <2> QED
      BY <1>23, <2>1 DEF CreateScans, At, JobType
  <1>24. ASSUME NEW i \in Ids, DeleteBegins(i) PROVE TypeOK'
    BY <1>24 DEF DeleteBegins, Move, At, Idle, Top
  <1>25. ASSUME NEW i \in Ids, DeleteRemoves(i) PROVE TypeOK'
    <2>1. /\ dirs' \subseteq Dirs /\ files' \subseteq Files /\ mounted' \in BOOLEAN
          /\ watched' \subseteq Top /\ touched' \subseteq Top /\ missing' \subseteq Dirs
      <3>1. CASE RemoveAll(Home(i))
        BY <3>1 DEF RemoveAll, Touch
      <3>2. CASE UNCHANGED <<dirs, mounted, watched, missing>> /\ files' \subseteq files
                 /\ Touch({DirOf[f] : f \in files \ files'})
        BY <3>2 DEF Touch
      <3> QED
        <4>1. RemoveStackFiles(i)
          BY <1>25 DEF DeleteRemoves
        <4>2. CASE Alone(i)
          BY <3>1, <4>1, <4>2 DEF RemoveStackFiles
        <4>3. CASE ~Alone(i)
          <5>1. /\ UNCHANGED <<dirs, mounted, watched, missing>>
                /\ Touch({DirOf[f] : f \in files \ files'}) /\ files' \subseteq files
            BY <4>1, <4>3 DEF RemoveStackFiles
          <5> QED
            BY <3>2, <5>1
        <4> QED
          BY <4>2, <4>3
    <2>2. cred' \subseteq drow' /\ drow' \subseteq Dirs /\ row' \subseteq Ids /\ taken' \subseteq Files
      BY <1>25 DEF DeleteRemoves
    <2>3. /\ op' \in [Ids -> {"idle", "write", "register", "upsert", "rollback", "scan", "scanning", "down"}]
          /\ UNCHANGED <<job, own, newdirs, armed, firing, moves>>
      BY <1>25 DEF DeleteRemoves, At
    <2> QED
      BY <2>1, <2>2, <2>3
  <1>26. ASSUME NEW i \in Ids, DeleteFails(i) PROVE TypeOK'
    BY <1>26 DEF DeleteFails, At, Idle, Top
  <1>27. CASE UNCHANGED vars
    BY <1>27 DEF vars, Idle, Top
  <1> HIDE DEF TypeOK
  <1> QED
    BY <1>1, <1>2, <1>3, <1>4, <1>5, <1>6, <1>7, <1>8, <1>9, <1>10, <1>11,
       <1>12, <1>13, <1>14, <1>15, <1>16, <1>17, <1>18, <1>19, <1>20, <1>21,
       <1>22, <1>23, <1>24, <1>25, <1>26, <1>27 DEF Next, ScanStep

(* Whatever takes a folder away while all is scanned says so.              *)
LEMMA ScanStepKeeps == ASSUME TypeOK, ScanInv, [Next]_vars PROVE ScanInv'
  <1> USE HomeType DEF TypeOK, ScanInv, disk, tables, scan, ops, watch, Scanner, Seen
  <1>1. CASE ScanAll
    BY <1>1 DEF ScanAll, Idle
  <1>2. ASSUME NEW d \in Dirs, ScanDirectory(d) PROVE ScanInv'
    <2>1. UNCHANGED <<dirs, missing>>
      BY <1>2 DEF ScanDirectory
    <2>2. job.by # "none" /\ job.at # "prune"
      BY <1>2, DirectoryScanned DEF Idle
    <2> QED
      BY <1>2, <2>1, <2>2, DirectoryScanned
  <1>3. ASSUME NEW f \in Files, UpsertStack(f) PROVE ScanInv'
    BY <1>3 DEF UpsertStack, Idle
  <1>4. CASE CollectActiveDirs
    <2>1. dirs' = dirs
      BY <1>4 DEF CollectActiveDirs
    <2> QED
      BY <1>4, <2>1, Walked DEF Idle
  <1>5. CASE PruneStaleStacks
    BY <1>5 DEF PruneStaleStacks, StaleId, Idle
  <1>6. CASE RescanEnds
    BY <1>6 DEF RescanEnds, Scanned, Idle
  <1>7. ASSUME NEW i \in Ids, CreateEnds(i) PROVE ScanInv'
    BY <1>7 DEF CreateEnds, Scanned, At, Idle
  <1>8. CASE Remount
    BY <1>8 DEF Remount, Move, Idle
  <1>9. ASSUME NEW d \in Dirs, WatchNewDir(d) PROVE ScanInv'
    BY <1>9 DEF WatchNewDir, Idle
  <1>10. ASSUME NEW d \in Dirs, HandleEvent(d) PROVE ScanInv'
    BY <1>10 DEF HandleEvent, ScheduleRescan, Idle
  <1>11. ASSUME NEW d \in Dirs, TimerFires(d) PROVE ScanInv'
    BY <1>11 DEF TimerFires, Idle
  <1>12. ASSUME NEW d \in Dirs, PerformRescan(d) PROVE ScanInv'
    BY <1>12 DEF PerformRescan, Idle
  <1>13. ASSUME NEW d \in Dirs, MakeDir(d) PROVE ScanInv'
    BY <1>13 DEF MakeDir, Operator, Move, Idle
  <1>14. ASSUME NEW d \in Dirs, RemoveDir(d) PROVE ScanInv'
    BY <1>14 DEF RemoveDir, RemoveAll, Operator, Move, Touch, Idle
  <1>15. ASSUME NEW d \in Dirs, UpdateCredentials(d) PROVE ScanInv'
    BY <1>15 DEF UpdateCredentials, Move, Idle
  <1>16. ASSUME NEW f \in Files, WriteFile(f) PROVE ScanInv'
    BY <1>16 DEF WriteFile, Operator, Move, Touch, Idle
  <1>17. ASSUME NEW f \in Files, RemoveFile(f) PROVE ScanInv'
    BY <1>17 DEF RemoveFile, Operator, Move, Touch, Idle
  <1>18. ASSUME NEW i \in Ids, CreateBegins(i) PROVE ScanInv'
    BY <1>18 DEF CreateBegins, Move, At, Idle
  <1>19. ASSUME NEW i \in Ids, CreateWrites(i) PROVE ScanInv'
    BY <1>19 DEF CreateWrites, RemoveAll, Touch, At, Idle
  <1>20. ASSUME NEW i \in Ids, RegisterDirectory(i) PROVE ScanInv'
    BY <1>20 DEF RegisterDirectory, At, Idle
  <1>21. ASSUME NEW i \in Ids, CreateUpserts(i) PROVE ScanInv'
    BY <1>21 DEF CreateUpserts, At, Idle
  <1>22. ASSUME NEW i \in Ids, CreateRollsBack(i) PROVE ScanInv'
    BY <1>22 DEF CreateRollsBack, RemoveAll, Touch, At, Idle
  <1>23. ASSUME NEW i \in Ids, CreateScans(i) PROVE ScanInv'
    BY <1>23 DEF CreateScans, At, Idle
  <1>24. ASSUME NEW i \in Ids, DeleteBegins(i) PROVE ScanInv'
    BY <1>24 DEF DeleteBegins, Move, At, Idle
  <1>25. ASSUME NEW i \in Ids, DeleteRemoves(i) PROVE ScanInv'
    BY <1>25 DEF DeleteRemoves, RemoveStackFiles, RemoveAll, Touch, At, WithLock,
         Idle
  <1>26. ASSUME NEW i \in Ids, DeleteFails(i) PROVE ScanInv'
    BY <1>26 DEF DeleteFails, At, Idle
  <1>27. CASE UNCHANGED vars
    BY <1>27 DEF vars, Idle
  <1> HIDE DEF ScanInv
  <1> QED
    BY <1>1, <1>2, <1>3, <1>4, <1>5, <1>6, <1>7, <1>8, <1>9, <1>10, <1>11,
       <1>12, <1>13, <1>14, <1>15, <1>16, <1>17, <1>18, <1>19, <1>20, <1>21,
       <1>22, <1>23, <1>24, <1>25, <1>26, <1>27 DEF Next, ScanStep

(* A file that is to be registered stays until it is, or is taken.         *)
LEMMA UpsertsStep == ASSUME TypeOK, ScanInv, UpsertsInv, [Next]_vars PROVE UpsertsInv'
  <1> USE RegistryAssumption, HomeType DEF TypeOK, UpsertsInv, disk, tables, scan, ops, watch, Scanner, Seen
  <1>1. CASE ScanAll
    BY <1>1 DEF ScanAll, Idle, ScanInv, UnderCreate
  <1>2. ASSUME NEW d \in Dirs, ScanDirectory(d) PROVE UpsertsInv'
    <2>1. UNCHANGED <<files, taken, op>>
      BY <1>2 DEF ScanDirectory
    <2> QED
      BY <1>2, <2>1, DirectoryScanned DEF UnderCreate
  <1>3. ASSUME NEW f \in Files, UpsertStack(f) PROVE UpsertsInv'
    BY <1>3 DEF UpsertStack, Idle, ScanInv, UnderCreate
  <1>4. CASE CollectActiveDirs
    <2>1. UNCHANGED <<files, taken, op, drow>>
      BY <1>4 DEF CollectActiveDirs
    <2>2. job'.found = {}
      BY <1>4, Walked DEF Idle
    <2> QED
      BY <2>1, <2>2 DEF UnderCreate
  <1>5. CASE PruneStaleStacks
    BY <1>5 DEF PruneStaleStacks, StaleId, Idle, ScanInv, UnderCreate
  <1>6. CASE RescanEnds
    BY <1>6 DEF RescanEnds, Scanned, Idle, ScanInv, UnderCreate
  <1>7. ASSUME NEW i \in Ids, CreateEnds(i) PROVE UpsertsInv'
    BY <1>7 DEF CreateEnds, Scanned, At, Idle, ScanInv, UnderCreate
  <1>8. CASE Remount
    BY <1>8 DEF Remount, Move, Idle, ScanInv, UnderCreate
  <1>9. ASSUME NEW d \in Dirs, WatchNewDir(d) PROVE UpsertsInv'
    BY <1>9 DEF WatchNewDir, Idle, ScanInv, UnderCreate
  <1>10. ASSUME NEW d \in Dirs, HandleEvent(d) PROVE UpsertsInv'
    BY <1>10 DEF HandleEvent, ScheduleRescan, Idle, ScanInv, UnderCreate
  <1>11. ASSUME NEW d \in Dirs, TimerFires(d) PROVE UpsertsInv'
    BY <1>11 DEF TimerFires, Idle, ScanInv, UnderCreate
  <1>12. ASSUME NEW d \in Dirs, PerformRescan(d) PROVE UpsertsInv'
    BY <1>12 DEF PerformRescan, Idle, ScanInv, UnderCreate
  <1>13. ASSUME NEW d \in Dirs, MakeDir(d) PROVE UpsertsInv'
    BY <1>13 DEF MakeDir, Operator, Move, Idle, ScanInv, UnderCreate
  <1>14. ASSUME NEW d \in Dirs, RemoveDir(d) PROVE UpsertsInv'
    BY <1>14 DEF RemoveDir, RemoveAll, Operator, Move, Touch, Idle, ScanInv,
         UnderCreate
  <1>15. ASSUME NEW d \in Dirs, UpdateCredentials(d) PROVE UpsertsInv'
    BY <1>15 DEF UpdateCredentials, Move, Idle, ScanInv, UnderCreate
  <1>16. ASSUME NEW f \in Files, WriteFile(f) PROVE UpsertsInv'
    BY <1>16 DEF WriteFile, Operator, Move, Touch, Idle, ScanInv, UnderCreate
  <1>17. ASSUME NEW f \in Files, RemoveFile(f) PROVE UpsertsInv'
    BY <1>17 DEF RemoveFile, Operator, Move, Touch, Idle, ScanInv, UnderCreate
  <1>18. ASSUME NEW i \in Ids, CreateBegins(i) PROVE UpsertsInv'
    BY <1>18 DEF CreateBegins, Move, At, Idle, ScanInv, UnderCreate
  <1>19. ASSUME NEW i \in Ids, CreateWrites(i) PROVE UpsertsInv'
    BY <1>19 DEF CreateWrites, RemoveAll, Touch, At, Idle, ScanInv, UnderCreate
  <1>20. ASSUME NEW i \in Ids, RegisterDirectory(i) PROVE UpsertsInv'
    BY <1>20 DEF RegisterDirectory, At, Idle, ScanInv, UnderCreate
  <1>21. ASSUME NEW i \in Ids, CreateUpserts(i) PROVE UpsertsInv'
    BY <1>21 DEF CreateUpserts, At, Idle, ScanInv, UnderCreate
  <1>22. ASSUME NEW i \in Ids, CreateRollsBack(i) PROVE UpsertsInv'
    BY <1>22 DEF CreateRollsBack, RemoveAll, Touch, At, Idle, ScanInv, UnderCreate
  <1>23. ASSUME NEW i \in Ids, CreateScans(i) PROVE UpsertsInv'
    BY <1>23 DEF CreateScans, At, Idle, ScanInv, UnderCreate
  <1>24. ASSUME NEW i \in Ids, DeleteBegins(i) PROVE UpsertsInv'
    BY <1>24 DEF DeleteBegins, Move, At, Idle, ScanInv, UnderCreate
  <1>25. ASSUME NEW i \in Ids, DeleteRemoves(i) PROVE UpsertsInv'
    BY <1>25 DEF DeleteRemoves, RemoveStackFiles, RemoveAll, Touch, At, WithLock,
         Idle, ScanInv, UnderCreate
  <1>26. ASSUME NEW i \in Ids, DeleteFails(i) PROVE UpsertsInv'
    BY <1>26 DEF DeleteFails, At, Idle, ScanInv, UnderCreate
  <1>27. CASE UNCHANGED vars
    BY <1>27 DEF vars, Idle, ScanInv, UnderCreate
  <1> HIDE DEF UpsertsInv
  <1> QED
    BY <1>1, <1>2, <1>3, <1>4, <1>5, <1>6, <1>7, <1>8, <1>9, <1>10, <1>11,
       <1>12, <1>13, <1>14, <1>15, <1>16, <1>17, <1>18, <1>19, <1>20, <1>21,
       <1>22, <1>23, <1>24, <1>25, <1>26, <1>27 DEF Next, ScanStep

(* A row goes with its file.                                               *)
LEMMA RowsStep ==
  ASSUME TypeOK, ScanInv, UpsertsInv, RowsInv, [Next]_vars
  PROVE  RowsInv'
  <1> USE RegistryAssumption, HomeType, MintedType DEF TypeOK, RowsInv, NoGhosts, disk, tables, scan, ops, watch, Scanner, Seen
  <1>1. CASE ScanAll
    BY <1>1 DEF ScanAll, Idle, ScanInv, UpsertsInv, UnderCreate, Home, Survivors,
         Nested, Alone
  <1>2. ASSUME NEW d \in Dirs, ScanDirectory(d) PROVE RowsInv'
    BY <1>2 DEF ScanDirectory, In, Idle, ScanInv, UpsertsInv, UnderCreate, Home,
         Survivors, Nested, Alone
  <1>3. ASSUME NEW f \in Files, UpsertStack(f) PROVE RowsInv'
    BY <1>3 DEF UpsertStack, Idle, ScanInv, UpsertsInv, UnderCreate, Home,
         Survivors, Nested, Alone
  <1>4. CASE CollectActiveDirs
    BY <1>4 DEF CollectActiveDirs, Scanned, MayWalk, Idle, ScanInv, UpsertsInv,
         UnderCreate, Home, Survivors, Nested, Alone
  <1>5. CASE PruneStaleStacks
    BY <1>5 DEF PruneStaleStacks, StaleId, Idle, ScanInv, UpsertsInv, UnderCreate,
         Home, Survivors, Nested, Alone
  <1>6. CASE RescanEnds
    BY <1>6 DEF RescanEnds, Scanned, Idle, ScanInv, UpsertsInv, UnderCreate, Home,
         Survivors, Nested, Alone
  <1>7. ASSUME NEW i \in Ids, CreateEnds(i) PROVE RowsInv'
    BY <1>7 DEF CreateEnds, Scanned, At, Idle, ScanInv, UpsertsInv, UnderCreate,
         Home, Survivors, Nested, Alone
  <1>8. CASE Remount
    BY <1>8 DEF Remount, Move, Idle, ScanInv, UpsertsInv, UnderCreate, Home,
         Survivors, Nested, Alone
  <1>9. ASSUME NEW d \in Dirs, WatchNewDir(d) PROVE RowsInv'
    BY <1>9 DEF WatchNewDir, Idle, ScanInv, UpsertsInv, UnderCreate, Home,
         Survivors, Nested, Alone
  <1>10. ASSUME NEW d \in Dirs, HandleEvent(d) PROVE RowsInv'
    BY <1>10 DEF HandleEvent, ScheduleRescan, Idle, ScanInv, UpsertsInv,
         UnderCreate, Home, Survivors, Nested, Alone
  <1>11. ASSUME NEW d \in Dirs, TimerFires(d) PROVE RowsInv'
    BY <1>11 DEF TimerFires, Idle, ScanInv, UpsertsInv, UnderCreate, Home,
         Survivors, Nested, Alone
  <1>12. ASSUME NEW d \in Dirs, PerformRescan(d) PROVE RowsInv'
    BY <1>12 DEF PerformRescan, Idle, ScanInv, UpsertsInv, UnderCreate, Home,
         Survivors, Nested, Alone
  <1>13. ASSUME NEW d \in Dirs, MakeDir(d) PROVE RowsInv'
    BY <1>13 DEF MakeDir, Operator, Move, Idle, ScanInv, UpsertsInv, UnderCreate,
         Home, Survivors, Nested, Alone
  <1>14. ASSUME NEW d \in Dirs, RemoveDir(d) PROVE RowsInv'
    BY <1>14 DEF RemoveDir, RemoveAll, Operator, Move, Touch, Idle, ScanInv,
         UpsertsInv, UnderCreate, Home, Survivors, Nested, Alone
  <1>15. ASSUME NEW d \in Dirs, UpdateCredentials(d) PROVE RowsInv'
    BY <1>15 DEF UpdateCredentials, Move, Idle, ScanInv, UpsertsInv, UnderCreate,
         Home, Survivors, Nested, Alone
  <1>16. ASSUME NEW f \in Files, WriteFile(f) PROVE RowsInv'
    BY <1>16 DEF WriteFile, Operator, Move, Touch, Idle, ScanInv, UpsertsInv,
         UnderCreate, Home, Survivors, Nested, Alone
  <1>17. ASSUME NEW f \in Files, RemoveFile(f) PROVE RowsInv'
    BY <1>17 DEF RemoveFile, Operator, Move, Touch, Idle, ScanInv, UpsertsInv,
         UnderCreate, Home, Survivors, Nested, Alone
  <1>18. ASSUME NEW i \in Ids, CreateBegins(i) PROVE RowsInv'
    BY <1>18 DEF CreateBegins, Move, At, Idle, ScanInv, UpsertsInv, UnderCreate,
         Home, Survivors, Nested, Alone
  <1>19. ASSUME NEW i \in Ids, CreateWrites(i) PROVE RowsInv'
    BY <1>19 DEF CreateWrites, RemoveAll, Touch, At, Idle, ScanInv, UpsertsInv,
         UnderCreate, Home, Survivors, Nested, Alone
  <1>20. ASSUME NEW i \in Ids, RegisterDirectory(i) PROVE RowsInv'
    BY <1>20 DEF RegisterDirectory, At, Idle, ScanInv, UpsertsInv, UnderCreate,
         Home, Survivors, Nested, Alone
  <1>21. ASSUME NEW i \in Ids, CreateUpserts(i) PROVE RowsInv'
    BY <1>21 DEF CreateUpserts, At, Idle, ScanInv, UpsertsInv, UnderCreate, Home,
         Survivors, Nested, Alone
  <1>22. ASSUME NEW i \in Ids, CreateRollsBack(i) PROVE RowsInv'
    BY <1>22 DEF CreateRollsBack, RemoveAll, Touch, At, Idle, ScanInv, UpsertsInv,
         UnderCreate, Home, Survivors, Nested, Alone
  <1>23. ASSUME NEW i \in Ids, CreateScans(i) PROVE RowsInv'
    BY <1>23 DEF CreateScans, At, Idle, ScanInv, UpsertsInv, UnderCreate, Home,
         Survivors, Nested, Alone
  <1>24. ASSUME NEW i \in Ids, DeleteBegins(i) PROVE RowsInv'
    BY <1>24 DEF DeleteBegins, Move, At, Idle, ScanInv, UpsertsInv, UnderCreate,
         Home, Survivors, Nested, Alone
  <1>25. ASSUME NEW i \in Ids, DeleteRemoves(i) PROVE RowsInv'
    <2> DEFINE rest == row \ {i}
    <2>1. \A j \in rest : FileOf[j] \in files' \/ FileOf[j] \notin files
      <3>1. CASE Alone(i)
        BY <1>25, <3>1 DEF DeleteRemoves, RemoveStackFiles, RemoveAll, Alone, Survivors, Nested, Home
      <3>2. CASE ~Alone(i)
        BY <1>25, <3>2 DEF DeleteRemoves, RemoveStackFiles, Survivors, Home
      <3> QED
        BY <3>1, <3>2
    <2>2. taken \subseteq taken'
      BY <1>25 DEF DeleteRemoves
    <2>3. CASE row' = row \ {i} /\ drow' = drow \ (IF Survivors(i) = {} THEN {Home(i)} ELSE {})
      BY <2>1, <2>2, <2>3 DEF Survivors
    <2>4. CASE UNCHANGED tables /\ taken' = taken \cup (files \ files')
      BY <2>4
    <2> QED
      BY <1>25, <2>3, <2>4 DEF DeleteRemoves
  <1>26. ASSUME NEW i \in Ids, DeleteFails(i) PROVE RowsInv'
    BY <1>26 DEF DeleteFails, At, Idle, ScanInv, UpsertsInv, UnderCreate, Home,
         Survivors, Nested, Alone
  <1>27. CASE UNCHANGED vars
    BY <1>27 DEF vars, Idle, ScanInv, UpsertsInv, UnderCreate, Home, Survivors,
         Nested, Alone
  <1> HIDE DEF RowsInv
  <1> QED
    BY <1>1, <1>2, <1>3, <1>4, <1>5, <1>6, <1>7, <1>8, <1>9, <1>10, <1>11,
       <1>12, <1>13, <1>14, <1>15, <1>16, <1>17, <1>18, <1>19, <1>20, <1>21,
       <1>22, <1>23, <1>24, <1>25, <1>26, <1>27 DEF Next, ScanStep

(* The inductive invariant holds in every reachable state.                 *)
LEMMA RegistryInvariant == Spec => []RegistryIInv
  <1>1. Init => RegistryIInv
    BY RegistryAssumption, HomeType
    DEF Init, RegistryIInv, TypeOK, ScanInv, UpsertsInv, RowsInv, NoGhosts, UnderCreate,
        Idle, Top, Home
  <1>2. RegistryIInv /\ [Next]_vars => RegistryIInv'
    BY TypeStep, ScanStepKeeps, UpsertsStep, RowsStep DEF RegistryIInv
  <1> QED
    BY <1>1, <1>2, PTL DEF Spec

(* Every registered stack has its compose file and its folder's row, unless*)
(* somebody else took the file or a delete took it from under a create:    *)
(* for any folders, files, old ids and nesting, and any number of creates, *)
(* deletes and moves of the operator.                                      *)
THEOREM RegistrySafe == Spec => []RegistryInv
  <1>1. RegistryIInv => RegistryInv
    BY DEF RegistryIInv, RowsInv, RegistryInv
  <1> QED
    BY <1>1, RegistryInvariant, PTL

-----------------------------------------------------------------------------
(* What PruneSparesWhatIsThere says of one step.                           *)
Spares ==
  /\ \A d \in cred \ cred' : d \notin dirs' \/ d \in missing \/ \A i \in row' : Home(i) # d
  /\ job.at = "prune" => \A i \in row \ row' :
       Home(i) \in missing \/ \E j \in row' : FileOf[j] = FileOf[i]

(* No step but a prune takes a row while a prune is due, and that one      *)
(* spares what is there.                                                   *)
LEMMA SparesStep == ASSUME RegistryIInv, [Next]_vars PROVE Spares
  <1> USE RegistryAssumption, HomeType DEF Spares, disk, tables, scan, ops, watch, Scanner, Seen
  <1>1. CASE ScanAll
    BY <1>1 DEF ScanAll, Idle
  <1>2. ASSUME NEW d \in Dirs, ScanDirectory(d) PROVE Spares
    BY <1>2 DEF ScanDirectory, In, Idle
  <1>3. ASSUME NEW f \in Files, UpsertStack(f) PROVE Spares
    BY <1>3 DEF UpsertStack, Idle
  <1>4. CASE CollectActiveDirs
    BY <1>4 DEF CollectActiveDirs, Scanned, MayWalk, Idle
  <1>5. CASE PruneStaleStacks
    <2>1. cred \ cred' \subseteq missing
      BY <1>5 DEF PruneStaleStacks, RegistryIInv, TypeOK, ScanInv
    <2>2. ASSUME NEW i \in row \ row', Home(i) \notin missing
          PROVE  \E j \in row' : FileOf[j] = FileOf[i]
      <3> DEFINE j == Minted[FileOf[i]]
      <3>1. i \in Ids /\ Home(i) \in job.active
        BY <1>5, <2>2 DEF PruneStaleStacks, RegistryIInv, TypeOK, ScanInv
      <3>2. j \in row /\ FileOf[j] = FileOf[i]
        BY <1>5, <2>2, <3>1, MintedType DEF PruneStaleStacks, StaleId
      <3>3. Home(j) = Home(i) /\ ~StaleId(j)
        BY <3>2 DEF Home, StaleId
      <3> QED
        BY <1>5, <3>1, <3>2, <3>3 DEF PruneStaleStacks
    <2> QED
      BY <2>1, <2>2
  <1>6. CASE RescanEnds
    BY <1>6 DEF RescanEnds, Scanned, Idle
  <1>7. ASSUME NEW i \in Ids, CreateEnds(i) PROVE Spares
    BY <1>7 DEF CreateEnds, Scanned, At, Idle
  <1>8. CASE Remount
    BY <1>8 DEF Remount, Move, Idle
  <1>9. ASSUME NEW d \in Dirs, WatchNewDir(d) PROVE Spares
    BY <1>9 DEF WatchNewDir, Idle
  <1>10. ASSUME NEW d \in Dirs, HandleEvent(d) PROVE Spares
    BY <1>10 DEF HandleEvent, ScheduleRescan, Idle
  <1>11. ASSUME NEW d \in Dirs, TimerFires(d) PROVE Spares
    BY <1>11 DEF TimerFires, Idle
  <1>12. ASSUME NEW d \in Dirs, PerformRescan(d) PROVE Spares
    BY <1>12 DEF PerformRescan, Idle
  <1>13. ASSUME NEW d \in Dirs, MakeDir(d) PROVE Spares
    BY <1>13 DEF MakeDir, Operator, Move, Idle
  <1>14. ASSUME NEW d \in Dirs, RemoveDir(d) PROVE Spares
    BY <1>14 DEF RemoveDir, RemoveAll, Operator, Move, Touch, Idle
  <1>15. ASSUME NEW d \in Dirs, UpdateCredentials(d) PROVE Spares
    BY <1>15 DEF UpdateCredentials, Move, Idle
  <1>16. ASSUME NEW f \in Files, WriteFile(f) PROVE Spares
    BY <1>16 DEF WriteFile, Operator, Move, Touch, Idle
  <1>17. ASSUME NEW f \in Files, RemoveFile(f) PROVE Spares
    BY <1>17 DEF RemoveFile, Operator, Move, Touch, Idle
  <1>18. ASSUME NEW i \in Ids, CreateBegins(i) PROVE Spares
    BY <1>18 DEF CreateBegins, Move, At, Idle
  <1>19. ASSUME NEW i \in Ids, CreateWrites(i) PROVE Spares
    BY <1>19 DEF CreateWrites, RemoveAll, Touch, At, Idle
  <1>20. ASSUME NEW i \in Ids, RegisterDirectory(i) PROVE Spares
    BY <1>20 DEF RegisterDirectory, At, Idle
  <1>21. ASSUME NEW i \in Ids, CreateUpserts(i) PROVE Spares
    BY <1>21 DEF CreateUpserts, At, Idle
  <1>22. ASSUME NEW i \in Ids, CreateRollsBack(i) PROVE Spares
    BY <1>22 DEF CreateRollsBack, RemoveAll, Touch, At, Idle
  <1>23. ASSUME NEW i \in Ids, CreateScans(i) PROVE Spares
    BY <1>23 DEF CreateScans, At, Idle
  <1>24. ASSUME NEW i \in Ids, DeleteBegins(i) PROVE Spares
    BY <1>24 DEF DeleteBegins, Move, At, Idle
  <1>25. ASSUME NEW i \in Ids, DeleteRemoves(i) PROVE Spares
    <2>1. job = Idle
      BY <1>25 DEF DeleteRemoves, WithLock
    <2>2. ASSUME NEW d \in cred \ cred' PROVE \A j \in row' : Home(j) # d
      <3>1. /\ row' = row \ {i} /\ Survivors(i) = {} /\ d = Home(i)
        BY <1>25, <2>2 DEF DeleteRemoves
      <3> QED
        BY <3>1 DEF Survivors
    <2> QED
      BY <2>1, <2>2 DEF Idle
  <1>26. ASSUME NEW i \in Ids, DeleteFails(i) PROVE Spares
    BY <1>26 DEF DeleteFails, At, Idle
  <1>27. CASE UNCHANGED vars
    BY <1>27 DEF vars, Idle
  <1> HIDE DEF Spares
  <1> QED
    BY <1>1, <1>2, <1>3, <1>4, <1>5, <1>6, <1>7, <1>8, <1>9, <1>10, <1>11,
       <1>12, <1>13, <1>14, <1>15, <1>16, <1>17, <1>18, <1>19, <1>20, <1>21,
       <1>22, <1>23, <1>24, <1>25, <1>26, <1>27 DEF Next, ScanStep

(* A directory's credentials go only when its folder is gone, was gone     *)
(* during the scan, or has no stack left; a prune takes a stack's row only *)
(* for a folder that was gone, or an old id's row beside the new one's.    *)
THEOREM PruneSpares == Spec => PruneSparesWhatIsThere
  <1>1. RegistryIInv /\ [Next]_vars => Spares
    BY SparesStep
  <1>2. Spares => [Spares]_vars
    OBVIOUS
  <1> QED
    BY <1>1, RegistryInvariant, PTL DEF Spec, PruneSparesWhatIsThere, Spares

-----------------------------------------------------------------------------
(* What DeleteSparesOthers says of one step.                               *)
Deleted ==
  \A i \in Ids : op[i] = "down" /\ op'[i] = "idle" =>
    \A j \in row \ {i} : FileOf[j] \in files => FileOf[j] \in files'

(* Of the steps only the removal of a delete ends one that is down, and    *)
(* it looks at the rows under the mutex.                                   *)
LEMMA DeletedStep == ASSUME TypeOK, [Next]_vars PROVE Deleted
  <1> USE DEF TypeOK, Deleted, disk, tables, scan, ops, watch, Scanner, Seen
  <1>1. CASE ScanAll
    BY <1>1 DEF ScanAll
  <1>2. ASSUME NEW d \in Dirs, ScanDirectory(d) PROVE Deleted
    BY <1>2 DEF ScanDirectory, In
  <1>3. ASSUME NEW f \in Files, UpsertStack(f) PROVE Deleted
    BY <1>3 DEF UpsertStack
  <1>4. CASE CollectActiveDirs
    BY <1>4 DEF CollectActiveDirs, Scanned, MayWalk
  <1>5. CASE PruneStaleStacks
    BY <1>5 DEF PruneStaleStacks, StaleId
  <1>6. CASE RescanEnds
    BY <1>6 DEF RescanEnds, Scanned
  <1>7. ASSUME NEW i \in Ids, CreateEnds(i) PROVE Deleted
    BY <1>7 DEF CreateEnds, Scanned, At
  <1>8. CASE Remount
    BY <1>8 DEF Remount, Move
  <1>9. ASSUME NEW d \in Dirs, WatchNewDir(d) PROVE Deleted
    BY <1>9 DEF WatchNewDir
  <1>10. ASSUME NEW d \in Dirs, HandleEvent(d) PROVE Deleted
    BY <1>10 DEF HandleEvent, ScheduleRescan
  <1>11. ASSUME NEW d \in Dirs, TimerFires(d) PROVE Deleted
    BY <1>11 DEF TimerFires
  <1>12. ASSUME NEW d \in Dirs, PerformRescan(d) PROVE Deleted
    BY <1>12 DEF PerformRescan
  <1>13. ASSUME NEW d \in Dirs, MakeDir(d) PROVE Deleted
    BY <1>13 DEF MakeDir, Operator, Move
  <1>14. ASSUME NEW d \in Dirs, RemoveDir(d) PROVE Deleted
    BY <1>14 DEF RemoveDir, RemoveAll, Operator, Move, Touch
  <1>15. ASSUME NEW d \in Dirs, UpdateCredentials(d) PROVE Deleted
    BY <1>15 DEF UpdateCredentials, Move
  <1>16. ASSUME NEW f \in Files, WriteFile(f) PROVE Deleted
    BY <1>16 DEF WriteFile, Operator, Move, Touch
  <1>17. ASSUME NEW f \in Files, RemoveFile(f) PROVE Deleted
    BY <1>17 DEF RemoveFile, Operator, Move, Touch
  <1>18. ASSUME NEW i \in Ids, CreateBegins(i) PROVE Deleted
    BY <1>18 DEF CreateBegins, Move, At
  <1>19. ASSUME NEW i \in Ids, CreateWrites(i) PROVE Deleted
    BY <1>19 DEF CreateWrites, RemoveAll, Touch, At
  <1>20. ASSUME NEW i \in Ids, RegisterDirectory(i) PROVE Deleted
    BY <1>20 DEF RegisterDirectory, At
  <1>21. ASSUME NEW i \in Ids, CreateUpserts(i) PROVE Deleted
    BY <1>21 DEF CreateUpserts, At
  <1>22. ASSUME NEW i \in Ids, CreateRollsBack(i) PROVE Deleted
    BY <1>22 DEF CreateRollsBack, RemoveAll, Touch, At
  <1>23. ASSUME NEW i \in Ids, CreateScans(i) PROVE Deleted
    BY <1>23 DEF CreateScans, At
  <1>24. ASSUME NEW i \in Ids, DeleteBegins(i) PROVE Deleted
    BY <1>24 DEF DeleteBegins, Move, At
  <1>25. ASSUME NEW i \in Ids, DeleteRemoves(i) PROVE Deleted
    <2>1. ASSUME NEW j \in row \ {i}, FileOf[j] \in files PROVE FileOf[j] \in files'
      <3>1. CASE Alone(i)
        BY <1>25, <2>1, <3>1 DEF DeleteRemoves, RemoveStackFiles, RemoveAll, Alone, Survivors, Nested, Home
      <3>2. CASE ~Alone(i)
        BY <1>25, <2>1, <3>2 DEF DeleteRemoves, RemoveStackFiles, Survivors, Home
      <3> QED
        BY <3>1, <3>2
    <2>2. \A k \in Ids \ {i} : op'[k] = op[k]
      BY <1>25 DEF DeleteRemoves, At
    <2> QED
      BY <2>1, <2>2
  <1>26. ASSUME NEW i \in Ids, DeleteFails(i) PROVE Deleted
    BY <1>26 DEF DeleteFails, At
  <1>27. CASE UNCHANGED vars
    BY <1>27 DEF vars
  <1> HIDE DEF Deleted
  <1> QED
    BY <1>1, <1>2, <1>3, <1>4, <1>5, <1>6, <1>7, <1>8, <1>9, <1>10, <1>11,
       <1>12, <1>13, <1>14, <1>15, <1>16, <1>17, <1>18, <1>19, <1>20, <1>21,
       <1>22, <1>23, <1>24, <1>25, <1>26, <1>27 DEF Next, ScanStep

(* A delete removes no compose file of another registered stack, whoever   *)
(* was registered while the containers went down.                          *)
THEOREM DeleteSpares == Spec => DeleteSparesOthers
  <1>1. RegistryIInv /\ [Next]_vars => Deleted
    BY DeletedStep DEF RegistryIInv
  <1> QED
    BY <1>1, RegistryInvariant, PTL DEF Spec, DeleteSparesOthers, Deleted

=============================================================================
