------------------------------ MODULE Registry ------------------------------
(***************************************************************************)
(* The register of stacks: the tables directories and stacks, and the      *)
(* stack folders on disk they mirror.  The scanner (services/scanner.go)   *)
(* registers what it finds and prunes what is gone, the watcher            *)
(* (services/watcher.go) rescans a folder after a change in it, Create and *)
(* Delete (handlers/stack_crud.go) write both sides, and the operator      *)
(* edits the folders and mounts and unmounts the volume they are on.       *)
(*                                                                         *)
(* A stack id is minted from the folder and the compose file, so after a   *)
(* change of the configured roots a file may have a row under an old id.   *)
(***************************************************************************)
EXTENDS Integers, FiniteSets

CONSTANTS
  Dirs,      \* stack folders
  Files,     \* compose files
  Ids,       \* stack ids
  DirOf,     \* the folder of a file
  FileOf,    \* the compose file of an id
  Minted,    \* the id the scanner mints for a file now
  Inside,    \* the folders in a folder; a folder that is in none is watched
  None,
  MaxMoves   \* bound: operator's moves, creates and deletes

ASSUME RegistryAssumption ==
  /\ DirOf \in [Files -> Dirs] /\ FileOf \in [Ids -> Files] /\ Minted \in [Files -> Ids]
  /\ \A f \in Files : FileOf[Minted[f]] = f
  /\ Inside \in [Dirs -> SUBSET Dirs] /\ \A d \in Dirs : d \notin Inside[d]
  /\ None \notin Dirs \cup Ids
  /\ MaxMoves \in Nat

Home(i) == DirOf[FileOf[i]]
Top == {d \in Dirs : \A e \in Dirs : d \notin Inside[e]}

VARIABLES
  dirs, files, mounted,  \* the disk
  drow, cred, row,       \* table directories, its rows with credentials; table stacks
  job,                   \* the scan that holds the scanner's mutex
  missing,               \* history: folders that were not there during a scan of all
  op, own,               \* the operation on an id; the directory rows a create inserted
  watched, newdirs, touched, armed, firing,  \* the watcher and its timers
  taken,                 \* history: files removed by others than Delete, or under a create
  moves

disk == <<dirs, files, mounted>>
tables == <<drow, cred, row>>
scan == <<job, missing>>
ops == <<op, own>>
watch == <<watched, newdirs, touched, armed, firing>>
vars == <<disk, tables, scan, ops, watch, taken, moves>>

Idle == [by |-> "none", for |-> None, todo |-> {}, found |-> {}, active |-> {}, at |-> "scan"]

TypeOK ==
  /\ dirs \subseteq Dirs /\ files \subseteq Files /\ mounted \in BOOLEAN
  /\ cred \subseteq drow /\ drow \subseteq Dirs /\ row \subseteq Ids
  /\ job \in [by : {"none", "all", "watch", "create"}, for : Dirs \cup Ids \cup {None},
              todo : SUBSET Dirs, found : SUBSET Files, active : SUBSET Dirs, at : {"scan", "prune"}]
  /\ op \in [Ids -> {"idle", "write", "register", "upsert", "rollback", "scan", "scanning", "down"}]
  /\ own \subseteq Ids
  /\ watched \subseteq Top /\ newdirs \subseteq Top /\ touched \subseteq Top
  /\ armed \subseteq Top /\ firing \subseteq Top
  /\ missing \subseteq Dirs /\ taken \subseteq Files /\ moves \in 0 .. MaxMoves

(* The server has started: what is on disk is registered and watched, some *)
(* rows perhaps under an old id.                                           *)
Init ==
  /\ dirs \in SUBSET Dirs /\ \A d \in dirs, e \in Dirs : d \in Inside[e] => e \in dirs
  /\ files = {f \in Files : DirOf[f] \in dirs} /\ mounted = TRUE
  /\ drow = dirs /\ cred = {} /\ row = {i \in Ids : FileOf[i] \in files}
  /\ job = Idle /\ missing = {}
  /\ op = [i \in Ids |-> "idle"] /\ own = {}
  /\ watched = dirs \cap Top /\ newdirs = {} /\ touched = {} /\ armed = {} /\ firing = {}
  /\ taken = {} /\ moves = 0

Seen == IF mounted THEN dirs ELSE {}
In(d) == {f \in files : DirOf[f] = d}
Move == moves < MaxMoves /\ moves' = moves + 1

(* What the watcher is told of a file written or removed. *)
Touch(D) == touched' = touched \cup (D \cap watched)

-----------------------------------------------------------------------------
(* The scanner.                                                            *)

Scanner == UNCHANGED <<disk, ops, watch, taken, moves>>

(* A scan_depth that cannot be read refuses the scan: nothing happens. *)
ScanAll ==
  /\ job = Idle
  /\ job' = [Idle EXCEPT !.by = "all", !.todo = Seen \cap Top]
  /\ missing' = Dirs \ dirs
  /\ UNCHANGED tables /\ Scanner

(* One folder: its row, and the compose files there are now; their rows    *)
(* come after.                                                             *)
ScanDirectory(d) ==
  /\ d \in job.todo /\ job.found = {}
  /\ IF d \in Seen
     THEN /\ drow' = drow \cup {d}
          /\ job' = [job EXCEPT !.found = In(d),
                                !.todo = (@ \ {d}) \cup (IF job.by = "all" THEN Inside[d] \cap Seen ELSE {})]
     ELSE job' = [job EXCEPT !.todo = @ \ {d}] /\ UNCHANGED drow
  /\ UNCHANGED <<cred, row, missing>> /\ Scanner

UpsertStack(f) ==
  /\ f \in job.found
  /\ row' = row \cup {Minted[f]}
  /\ job' = [job EXCEPT !.found = @ \ {f}]
  /\ UNCHANGED <<drow, cred, missing>> /\ Scanner

Scanned == job.by # "none" /\ job.todo = {} /\ job.found = {} /\ job.at = "scan"

(* MUTANT: a root that is not there holds no folders. *)
WalkAnyway == TRUE
MayWalk == mounted

(* collectActiveDirs refuses a root that is not there, and any fault.      *)
CollectActiveDirs ==
  /\ job.by = "all" /\ Scanned
  /\ \/ MayWalk /\ job' = [job EXCEPT !.active = Seen, !.at = "prune"] /\ UNCHANGED missing
     \/ job' = Idle /\ missing' = {}
  /\ UNCHANGED tables /\ Scanner

StaleId(i) == i # Minted[FileOf[i]] /\ Minted[FileOf[i]] \in row

PruneStaleStacks ==
  /\ job.at = "prune"
  /\ drow' = drow \cap job.active /\ cred' = cred \cap job.active
  /\ row' = {i \in row : Home(i) \in job.active /\ ~StaleId(i)}
  /\ job' = Idle /\ missing' = {}
  /\ Scanner

-----------------------------------------------------------------------------
(* The watcher.  A folder is watched from the moment its own event is      *)
(* handled, and what is in it by then is looked for once.                  *)

WatchNewDir(d) ==
  /\ d \in newdirs
  /\ newdirs' = newdirs \ {d}
  /\ watched' = watched \cup ({d} \cap Seen)
  /\ armed' = IF d \in Seen /\ In(d) # {} THEN armed \cup {d} ELSE armed
  /\ UNCHANGED <<disk, tables, scan, ops, touched, firing, taken, moves>>

(* MUTANT: a change is left to the rescan of its folder that runs. *)
RescanUnlessRunning(d) == IF job.by = "watch" /\ job.for = d THEN {} ELSE {d}
ScheduleRescan(d) == {d}

HandleEvent(d) ==
  /\ d \in touched
  /\ touched' = touched \ {d}
  /\ armed' = armed \cup ScheduleRescan(d)
  /\ UNCHANGED <<disk, tables, scan, ops, watched, newdirs, firing, taken, moves>>

TimerFires(d) ==
  /\ d \in armed
  /\ armed' = armed \ {d} /\ firing' = firing \cup {d}
  /\ UNCHANGED <<disk, tables, scan, ops, watched, newdirs, touched, taken, moves>>

PerformRescan(d) ==
  /\ job = Idle /\ d \in firing
  /\ firing' = firing \ {d}
  /\ job' = [Idle EXCEPT !.by = "watch", !.for = d, !.todo = {d}]
  /\ UNCHANGED <<disk, tables, missing, ops, watched, newdirs, touched, armed, taken, moves>>

RescanEnds ==
  /\ job.by = "watch" /\ Scanned
  /\ job' = Idle
  /\ UNCHANGED <<tables, missing>> /\ Scanner

-----------------------------------------------------------------------------
(* Create, for a folder that is not there yet.                             *)

At(i, at) == op' = [op EXCEPT ![i] = at]
RemoveAll(d) ==
  /\ dirs' = dirs \ ({d} \cup Inside[d])
  /\ files' = {f \in files : DirOf[f] \notin {d} \cup Inside[d]}
  /\ watched' = watched \ ({d} \cup Inside[d])
  /\ Touch({DirOf[f] : f \in files \ files'})
  /\ missing' = IF job.by = "all" THEN missing \cup (dirs \ dirs') ELSE missing
  /\ UNCHANGED mounted

CreateBegins(i) ==
  /\ Move /\ op[i] = "idle" /\ i = Minted[FileOf[i]] /\ Home(i) \in Top
  /\ mounted /\ Home(i) \notin dirs
  /\ dirs' = dirs \cup {Home(i)} /\ newdirs' = newdirs \cup {Home(i)}
  /\ At(i, "write")
  /\ UNCHANGED <<files, mounted, tables, scan, own, watched, touched, armed, firing, taken>>

(* The compose file is written, or everything is taken back. *)
CreateWrites(i) ==
  /\ op[i] = "write"
  /\ \/ /\ Home(i) \in Seen
        /\ files' = files \cup {FileOf[i]} /\ taken' = taken \ {FileOf[i]}
        /\ Touch({Home(i)}) /\ At(i, "register")
        /\ UNCHANGED <<dirs, mounted, watched, missing>>
     \/ /\ RemoveAll(Home(i)) /\ At(i, "idle")
        /\ taken' = taken \cup (files \ files')
  /\ UNCHANGED <<tables, job, own, newdirs, armed, firing, moves>>

(* RegisterDirectory, under the scanner's mutex, says whether the row is   *)
(* its own.                                                                *)
RegisterDirectory(i) ==
  /\ op[i] = "register" /\ job = Idle
  /\ IF Home(i) \in Seen
     THEN /\ drow' = drow \cup {Home(i)}
          /\ own' = IF Home(i) \in drow THEN own ELSE own \cup {i}
          /\ At(i, "upsert")
     ELSE At(i, "rollback") /\ UNCHANGED <<drow, own>>
  /\ UNCHANGED <<disk, cred, row, scan, watch, taken, moves>>

CreateUpserts(i) ==
  /\ op[i] = "upsert"
  /\ \/ Home(i) \in drow /\ row' = row \cup {i} /\ At(i, "scan")
     \/ At(i, "rollback") /\ UNCHANGED row
  /\ UNCHANGED <<disk, drow, cred, scan, own, watch, taken, moves>>

CreateRollsBack(i) ==
  /\ op[i] = "rollback" /\ job = Idle
  /\ LET D == IF i \in own THEN {Home(i)} ELSE {} IN
       /\ drow' = drow \ D /\ cred' = cred \ D /\ row' = {j \in row : Home(j) \notin D}
  /\ IF mounted THEN RemoveAll(Home(i)) ELSE UNCHANGED <<disk, watched, touched, missing>>
  /\ taken' = taken \cup (files \ files')
  /\ own' = own \ {i} /\ At(i, "idle")
  /\ UNCHANGED <<job, newdirs, armed, firing, moves>>

CreateScans(i) ==
  /\ op[i] = "scan" /\ job = Idle
  /\ job' = [Idle EXCEPT !.by = "create", !.for = i, !.todo = {Home(i)}]
  /\ own' = own \ {i} /\ At(i, "scanning")
  /\ UNCHANGED <<disk, tables, missing, watch, taken, moves>>

CreateEnds(i) ==
  /\ op[i] = "scanning" /\ job.by = "create" /\ job.for = i /\ Scanned
  /\ job' = Idle /\ At(i, "idle")
  /\ UNCHANGED <<disk, tables, missing, own, watch, taken, moves>>

-----------------------------------------------------------------------------
(* Delete.                                                                 *)

Survivors(i) == {j \in row \ {i} : Home(j) = Home(i)}
Nested(i) == {j \in row : Home(j) \in Inside[Home(i)]}

(* It refuses when the folder would go with stacks in it registered deeper. *)
DeleteBegins(i) ==
  /\ Move /\ op[i] = "idle" /\ i \in row /\ mounted
  /\ Survivors(i) # {} \/ Nested(i) = {}
  /\ At(i, "down")
  /\ UNCHANGED <<disk, tables, scan, own, watch, taken>>

(* MUTANT: what the prompt found decides: no stack is registered meanwhile. *)
NobodyEver(i) == TRUE
Alone(i) == Survivors(i) = {} /\ Nested(i) = {}

(* MUTANT: the files and the rows go without the scanner's mutex. *)
WithoutLock == TRUE
WithLock == job = Idle

(* Files written by a create that has no row yet: no lock of Delete's      *)
(* keeps them, for it holds its own id and a create upserts without mutex. *)
UnderCreate == {FileOf[i] : i \in {j \in Ids : op[j] \in {"register", "upsert"}}}

RemoveStackFiles(i) ==
  IF Alone(i) THEN RemoveAll(Home(i))
  ELSE /\ files' = IF \E j \in Survivors(i) : FileOf[j] = FileOf[i] THEN files ELSE files \ {FileOf[i]}
       /\ Touch({DirOf[f] : f \in files \ files'})
       /\ UNCHANGED <<dirs, mounted, watched, missing>>

(* The containers are down; the files, the row and an orphaned directory   *)
(* row go under the scanner's mutex.  Each part may fail, and ends it.     *)
DeleteRemoves(i) ==
  /\ op[i] = "down" /\ WithLock /\ mounted
  /\ At(i, "idle")
  /\ RemoveStackFiles(i)
  /\ \/ /\ row' = row \ {i}
        /\ LET D == IF Survivors(i) = {} THEN {Home(i)} ELSE {} IN
             drow' = drow \ D /\ cred' = cred \ D
        /\ taken' = taken \cup ((files \ files') \cap UnderCreate)
     \/ UNCHANGED tables /\ taken' = taken \cup (files \ files')
  /\ UNCHANGED <<job, own, newdirs, armed, firing, moves>>

DeleteFails(i) ==
  /\ op[i] = "down" /\ At(i, "idle")
  /\ UNCHANGED <<disk, tables, scan, own, watch, taken, moves>>

-----------------------------------------------------------------------------
(* The operator.                                                           *)

Operator == Move /\ mounted /\ UNCHANGED <<mounted, tables, job, ops, armed, firing>>

MakeDir(d) ==
  /\ Operator /\ d \notin dirs /\ \A e \in Dirs : d \in Inside[e] => e \in dirs
  /\ dirs' = dirs \cup {d} /\ newdirs' = newdirs \cup ({d} \cap Top)
  /\ UNCHANGED <<files, missing, watched, touched, taken>>

WriteFile(f) ==
  /\ Operator /\ f \notin files /\ DirOf[f] \in dirs
  /\ files' = files \cup {f} /\ taken' = taken \ {f}
  /\ Touch({DirOf[f]})
  /\ UNCHANGED <<dirs, missing, watched, newdirs>>

RemoveFile(f) ==
  /\ Operator /\ f \in files
  /\ files' = files \ {f} /\ taken' = taken \cup {f}
  /\ Touch({DirOf[f]})
  /\ UNCHANGED <<dirs, missing, watched, newdirs>>

RemoveDir(d) ==
  /\ Operator /\ d \in dirs
  /\ RemoveAll(d)
  /\ taken' = taken \cup (files \ files')
  /\ UNCHANGED newdirs

Remount ==
  /\ mounted' = ~mounted
  /\ IF mounted THEN Move ELSE UNCHANGED moves
  /\ UNCHANGED <<dirs, files, tables, scan, ops, watch, taken>>

UpdateCredentials(d) ==
  /\ Move /\ d \in drow \ cred
  /\ cred' = cred \cup {d}
  /\ UNCHANGED <<disk, drow, row, scan, ops, watch, taken>>

-----------------------------------------------------------------------------
ScanStep ==
  \/ \E d \in Dirs : ScanDirectory(d)
  \/ \E f \in Files : UpsertStack(f)
  \/ CollectActiveDirs \/ PruneStaleStacks \/ RescanEnds
  \/ \E i \in Ids : CreateEnds(i)

Next ==
  \/ ScanAll \/ ScanStep \/ Remount
  \/ \E d \in Dirs : \/ WatchNewDir(d) \/ HandleEvent(d) \/ TimerFires(d) \/ PerformRescan(d)
                     \/ MakeDir(d) \/ RemoveDir(d) \/ UpdateCredentials(d)
  \/ \E f \in Files : WriteFile(f) \/ RemoveFile(f)
  \/ \E i \in Ids : \/ CreateBegins(i) \/ CreateWrites(i) \/ RegisterDirectory(i) \/ CreateUpserts(i)
                    \/ CreateRollsBack(i) \/ CreateScans(i)
                    \/ DeleteBegins(i) \/ DeleteRemoves(i) \/ DeleteFails(i)

Spec == Init /\ [][Next]_vars

(* A scan that holds the mutex ends, events are delivered, timers fire,    *)
(* and who waits for the mutex gets it: sync.Mutex hands it to a waiter    *)
(* that has waited long.                                                   *)
FairSpec ==
  /\ Spec /\ WF_vars(ScanStep)
  /\ \A d \in Top : /\ WF_vars(WatchNewDir(d) \/ HandleEvent(d)) /\ WF_vars(TimerFires(d))
                    /\ SF_vars(PerformRescan(d))

-----------------------------------------------------------------------------
(* No ghost stacks: a registered stack has its compose file, unless        *)
(* somebody else removed it, or a delete of an old row in the folder took  *)
(* it from a create before its upsert; a row that Delete removed is not    *)
(* written back by a scan that had seen the file.                          *)
NoGhosts == \A i \in row : FileOf[i] \in files \cup taken

RegistryInv == TypeOK /\ NoGhosts /\ \A i \in row : Home(i) \in drow

(* A prune takes only what is gone: a directory's credentials go only when *)
(* the folder is gone or was during the scan, or no stack is registered in *)
(* it; and no stack whose folder stayed is left without a row.             *)
PruneSparesWhatIsThere ==
  [][/\ \A d \in cred \ cred' : d \notin dirs' \/ d \in missing \/ \A i \in row' : Home(i) # d
     /\ job.at = "prune" => \A i \in row \ row' :
          Home(i) \in missing \/ \E j \in row' : FileOf[j] = FileOf[i]]_vars

(* A delete removes no compose file that another registered stack uses,    *)
(* also when that stack was registered while the containers went down.     *)
DeleteSparesOthers ==
  [][\A i \in Ids : op[i] = "down" /\ op'[i] = "idle" =>
       \A j \in row \ {i} : FileOf[j] \in files => FileOf[j] \in files']_vars

(* A compose file in a folder whose creation or change is still to be      *)
(* handled is registered in the end, whatever the watcher and the scanner  *)
(* were doing when it came, unless it or the volume goes away again.       *)
NewFilesAreListed ==
  \A f \in Files :
    (f \in files /\ mounted /\ DirOf[f] \in touched \cup newdirs)
      ~> (f \notin files \/ ~mounted \/ \E i \in row : FileOf[i] = f)

=============================================================================
