------------------------------ MODULE GitWork ------------------------------
(***************************************************************************)
(* The files of a repository of stacks and who writes them: the saves of a *)
(* stack's compose and env files (handlers/compose.go, handlers/env.go,    *)
(* handlers/atomic_write.go), and pull, commit and push in the folder of   *)
(* one of the stacks (services/git.go, services/git_commit.go), which take *)
(* every stack of the repository.  The operator edits files beside them,   *)
(* and the remote moves on.                                                *)
(*                                                                         *)
(* A path holds a content or a link to another path.  The content a save   *)
(* writes is the stack's own name, so that it can be told from any other.  *)
(* A stack's turn (OperationLock) is held by the save or the git operation *)
(* that is under way on it.                                                *)
(***************************************************************************)
EXTENDS Naturals, FiniteSets

CONSTANTS
  Stacks, Paths,
  Compose, Env,   \* the files a stack reads
  Own,            \* the stacks registered in the folder asked for
  Inside,         \* the paths in that folder or deeper
  Ignored,        \* paths git ignores
  Entries,        \* what the operator and the remote may put at a path
  Gone,           \* no file
  MaxMoves        \* bound: saves, edits and commits of others

ASSUME GitWorkAssumption ==
  /\ Compose \in [Stacks -> Paths] /\ Env \in [Stacks -> Paths]
  /\ Own \subseteq Stacks /\ Inside \subseteq Paths /\ Ignored \subseteq Paths
  /\ DOMAIN Entries = Paths /\ Stacks \cap Paths = {} /\ Gone \notin Stacks \cup Paths
  /\ MaxMoves \in Nat

(* No chain of links is longer than two: what LinkDeps follows.            *)
Links(p) == Entries[p] \cap Paths
ASSUME LinksAssumption ==
  \A p \in Paths : \A q \in Links(p) : \A r \in Links(q) : Links(r) = {}

Contents == (UNION {Entries[p] : p \in Paths}) \cup Stacks \cup {Gone}

VARIABLES
  disk, head, up,   \* the work tree, the branch, the remote's branch
  mine, theirs,     \* commits the remote lacks, commits the branch lacks
  registered, linked,  \* the stacks registered, and those whose row names the env file
  enabled,          \* the folder's push switch
  job,              \* the git operation
  save, told, lost,    \* the saves and their answers; history: the saves whose env file
                       \* could not be put back, or whose files others took elsewhere meanwhile
  moves

repo == <<head, up, mine, theirs>>
rows == <<registered, linked, enabled>>
saves == <<save, told, lost>>
vars == <<disk, repo, rows, job, saves, moves>>

NoSave == [at |-> "idle", kind |-> "none", env |-> Gone, compose |-> Gone]
NoJob == [at |-> "idle", kind |-> "none", answer |-> "none", flag |-> FALSE, locked |-> {},
          listed |-> {}, links |-> {}, files |-> {}, named |-> {}, redone |-> {}, todo |-> {},
          faults |-> FALSE, base |-> 0, hit |-> {}]

Trees == [Paths -> Contents]

TypeOK ==
  /\ disk \in Trees /\ head \in Trees /\ up \in Trees
  /\ mine \in BOOLEAN /\ theirs \in BOOLEAN /\ enabled \in BOOLEAN
  /\ registered \subseteq Stacks /\ linked \subseteq Stacks /\ lost \subseteq Stacks
  /\ job.kind \in {"none", "pull", "commit", "push"}
  /\ job.locked \subseteq job.listed /\ job.named \cup job.redone \cup job.todo \subseteq job.locked
  /\ job.answer \in {"none", "success", "no_change", "partial", "failed"}
  /\ save \in [Stacks -> [at : {"idle", "env", "read", "compose", "verify", "row"},
                          kind : {"none", "compose", "env", "both"}, env : Contents, compose : Contents]]
  /\ told \in [Stacks -> {"none", "success", "partial", "failed"}]
  /\ moves \in 0 .. MaxMoves

Init ==
  /\ disk \in {t \in [Paths -> UNION {Entries[p] : p \in Paths}] : \A p \in Paths : t[p] \in Entries[p]}
  /\ head = disk /\ up = disk /\ mine = FALSE /\ theirs = FALSE
  /\ registered \in SUBSET Stacks /\ linked = registered /\ enabled = TRUE
  /\ job = NoJob /\ save = [s \in Stacks |-> NoSave] /\ told = [s \in Stacks |-> "none"] /\ lost = {}
  /\ moves = 0

Move == moves < MaxMoves /\ moves' = moves + 1

(* The paths crossed from p: linkDeps. *)
Hop(t, P) == P \cup {t[q] : q \in {q \in P : t[q] \in Paths}}
LinkDeps(t, p) == Hop(t, Hop(t, {p}))
Target(t, p) == CHOOSE q \in LinkDeps(t, p) : t[q] \notin Paths
Read(t, p) == t[Target(t, p)]
Reads(t, s) == <<Read(t, Compose[s]), Read(t, Env[s])>>
StackLinkDeps(t, s) == LinkDeps(t, Compose[s]) \cup LinkDeps(t, Env[s])

(* History: a step to tree d that makes, moves or removes a link on the     *)
(* way to the files of s; the saves whose files such a step leads          *)
(* elsewhere, or in which it brings back what they are writing; the        *)
(* operation, that cannot know of the first.                               *)
LinksMoved(d, s) ==
  \E p \in StackLinkDeps(disk, s) : d[p] # disk[p] /\ {d[p], disk[p]} \cap Paths # {}
Misled(d) ==
  {s \in Stacks : /\ save[s].at # "idle"
                  /\ \/ LinksMoved(d, s)
                     \/ \E p \in StackLinkDeps(disk, s) : d[p] = s /\ disk[p] # s}
HitsOf(d) == [job EXCEPT !.hit = {s \in @ : ~LinksMoved(d, s)}]

Working == job.at \notin {"idle", "list", "lock"}
Held(s) == save[s].at # "idle" \/ (Working /\ s \in job.locked)

-----------------------------------------------------------------------------
(* Saves.                                                                  *)

Saving == UNCHANGED <<repo, registered, enabled>>
Answer(s, a) ==
  /\ save' = [save EXCEPT ![s] = NoSave] /\ told' = [told EXCEPT ![s] = a]

(* Put, PutComposeAndEnv and the env file's Put and Create, once they hold *)
(* the stack's turn: a save of a file the row does not name refuses when   *)
(* there is one, and an env save needs a file that the row names, a create *)
(* none.                                                                   *)
SaveBegins(s, k) ==
  /\ Move /\ s \in registered /\ ~Held(s)
  /\ CASE k = "compose" -> TRUE
       [] k = "both" -> s \in linked \/ disk[Env[s]] = Gone
       [] k = "env" -> s \in linked \/ Read(disk, Env[s]) = Gone
  /\ save' = [save EXCEPT ![s] = [at |-> IF k = "compose" THEN "compose" ELSE "env", kind |-> k,
                                  env |-> Read(disk, Env[s]), compose |-> Read(disk, Compose[s])]]
  /\ told' = [told EXCEPT ![s] = "none"] /\ lost' = lost \ {s}
  /\ UNCHANGED <<disk, linked, job>> /\ Saving

At(s, at) == save' = [save EXCEPT ![s].at = at] /\ UNCHANGED <<told, lost, job>>

(* writeFileAtomic replaces the end of the path's links as a whole; a link *)
(* to nothing is refused.                                                  *)
Writable(p) == disk[p] \notin Paths \/ Read(disk, p) # Gone
Write(p, c) == disk' = [disk EXCEPT ![Target(disk, p)] = c]

WriteEnv(s) ==
  /\ save[s].at = "env"
  /\ \/ Writable(Env[s]) /\ Write(Env[s], s) /\ At(s, "read")
     \/ Answer(s, "failed") /\ UNCHANGED <<disk, lost, job>>
  /\ UNCHANGED <<linked, moves>> /\ Saving

(* MUTANT: a failed compose write leaves the env file. *)
KeepEnv(t, s) == t
EnvRestored(t, s) ==
  IF save[s].kind # "both" THEN t
  ELSE [t EXCEPT ![IF save[s].env = Gone THEN Env[s] ELSE Target(t, Env[s])] = save[s].env]

(* The env file is put back as it was, or removed; that this fails is told *)
(* to nobody.                                                              *)
RestoreEnv(t, s) ==
  /\ \/ disk' = EnvRestored(t, s) /\ lost' = lost \cup (Misled(disk') \ {s})
     \/ save[s].kind = "both" /\ disk' = t /\ lost' = lost \cup Misled(t) \cup {s}
  /\ job' = HitsOf(disk')

(* It is read back: another content, or a read that failed.  A file that   *)
(* was created is only looked for.                                         *)
Created(s) == save[s].kind = "env" /\ save[s].env = Gone

VerifyEnv(s) ==
  /\ save[s].at = "read"
  /\ \/ /\ Read(disk, Env[s]) = s \/ (Created(s) /\ Read(disk, Env[s]) # Gone)
        /\ At(s, IF save[s].kind = "both" THEN "compose" ELSE "row")
        /\ UNCHANGED disk
     \/ RestoreEnv(disk, s) /\ Answer(s, "failed")
  /\ UNCHANGED <<linked, moves>> /\ Saving

(* Put does not read the compose file back, PutComposeAndEnv does.         *)
WriteCompose(s) ==
  /\ save[s].at = "compose"
  /\ \/ /\ Writable(Compose[s]) /\ Write(Compose[s], s)
        /\ At(s, "verify") \/ (save[s].kind = "compose" /\ At(s, "row"))
     \/ RestoreEnv(disk, s) /\ Answer(s, "failed")
  /\ UNCHANGED <<linked, moves>> /\ Saving

(* A compose file that was not there before stays, and the answer is the   *)
(* same as for one that was put back.                                      *)
ComposeRestored(s) ==
  IF save[s].compose = Gone THEN disk
  ELSE [disk EXCEPT ![Target(disk, Compose[s])] = save[s].compose]

VerifyCompose(s) ==
  /\ save[s].at = "verify"
  /\ \/ Read(disk, Compose[s]) = s /\ At(s, "row") /\ UNCHANGED disk
     \/ \E undone \in BOOLEAN :
          /\ undone \/ save[s].compose # Gone
          /\ RestoreEnv(IF undone THEN ComposeRestored(s) ELSE disk, s)
          /\ Answer(s, IF undone THEN "failed" ELSE "partial")
  /\ UNCHANGED <<linked, moves>> /\ Saving

(* SetStackEnvFileIfUnset; the row may be gone. *)
RecordEnvFile(s) ==
  /\ save[s].at = "row"
  /\ \/ /\ linked' = IF save[s].kind = "compose" THEN linked ELSE linked \cup ({s} \cap registered)
        /\ Answer(s, "success")
     \/ save[s].kind # "compose" /\ s \notin linked /\ Answer(s, "partial") /\ UNCHANGED linked
  /\ UNCHANGED <<disk, lost, job, moves>> /\ Saving

-----------------------------------------------------------------------------
(* The git operations.                                                     *)

Git == UNCHANGED <<rows, saves, moves>>
End(a) == job' = [NoJob EXCEPT !.answer = a]

(* writePrecheck reads the push switch before the turns are taken. *)
GitBegins(k, flag) ==
  /\ job.at = "idle"
  /\ k # "pull" => enabled
  /\ job' = [NoJob EXCEPT !.kind = k, !.flag = flag, !.at = "list", !.base = head]
  /\ UNCHANGED <<disk, repo>> /\ Git

(* MUTANT: the stacks of the folder asked for are taken, not the repository's. *)
OwnStacks(S) == S \cap Own
RepoStacks(S) == S

ListStacks ==
  /\ job.at = "list"
  /\ job' = [job EXCEPT !.at = "lock", !.listed = registered, !.locked = RepoStacks(registered)]
  /\ UNCHANGED <<disk, repo>> /\ Git

(* All or none; a turn may also be held by work that is not modelled here. *)
LockStacks ==
  /\ job.at = "lock"
  /\ \/ /\ \A s \in job.locked : ~Held(s)
        /\ job' = [job EXCEPT !.at = CASE job.kind = "pull" -> "clean"
                                       [] job.kind = "commit" -> "select"
                                       [] OTHER -> "pre",
                              !.links = [s \in job.locked |-> StackLinkDeps(disk, s)]]
     \/ End("failed")
  /\ UNCHANGED <<disk, repo>> /\ Git

Changes == {p \in Paths \ Ignored : disk[p] # head[p]}

(* A step of git's, or a probe of it, that fails. *)
GitFails ==
  /\ job.at \in {"clean", "pull", "select", "pre", "commit"}
  /\ End("failed")
  /\ UNCHANGED <<disk, repo>> /\ Git

CheckClean ==
  /\ job.at = "clean" /\ Changes = {}
  /\ job' = [job EXCEPT !.at = "pull"]
  /\ UNCHANGED <<disk, repo>> /\ Git

Incoming == {p \in Paths \ Ignored : up[p] # head[p]}

(* git pull --ff-only: not over commits of this branch, nor over a file    *)
(* changed since the check.  HEAD or the diff may be unreadable after it.  *)
PullCLI ==
  /\ job.at = "pull"
  /\ \/ ~theirs /\ End("no_change") /\ UNCHANGED <<disk, repo, lost>>
     \/ /\ theirs /\ ~mine /\ Incoming \cap Changes = {}
        /\ disk' = [p \in Paths |-> IF p \in Incoming THEN up[p] ELSE disk[p]]
        /\ head' = up /\ theirs' = FALSE /\ UNCHANGED <<up, mine>>
        /\ lost' = lost \cup Misled(disk')
        /\ \/ End("failed") \/ End("partial")
           \/ job' = [job EXCEPT !.at = "siblings", !.files = Incoming,
                                 !.hit = {s \in job.locked : Reads(disk, s) # Reads(disk', s)}]
  /\ UNCHANGED <<rows, save, told, moves>>

(* MUTANT: only the names of the stack's own files are compared. *)
NameChanged(s) == {Compose[s], Env[s]} \cap job.files # {}
FilesChanged(s) ==
  ({Compose[s], Env[s]} \cup job.links[s] \cup StackLinkDeps(disk, s)) \cap job.files # {}

(* The other stacks that changed are named; one that cannot be compared is *)
(* a fault.                                                                *)
NameSiblings ==
  /\ job.at = "siblings"
  /\ \E unknown \in SUBSET (job.locked \ Own) :
       job' = [job EXCEPT !.named = {s \in job.locked \ (Own \cup unknown) : FilesChanged(s)},
                          !.faults = unknown # {},
                          !.todo = IF job.flag THEN job.locked \cap Own ELSE {},
                          !.at = "redeploy"]
  /\ UNCHANGED <<disk, repo>> /\ Git

Redeploy(s) ==
  /\ s \in job.todo
  /\ \/ job' = [job EXCEPT !.todo = @ \ {s}, !.redone = IF FilesChanged(s) THEN @ \cup {s} ELSE @]
     \/ job' = [job EXCEPT !.todo = @ \ {s}, !.faults = TRUE]
  /\ UNCHANGED <<disk, repo>> /\ Git

PullEnds ==
  /\ job.at = "redeploy" /\ job.todo = {}
  /\ End(IF job.faults THEN "partial" ELSE "success")
  /\ UNCHANGED <<disk, repo>> /\ Git

(* MUTANT: the push is looked at after the commit. *)
PushLater(at) ==
  CASE at = "select" -> "commit" [] at = "commit" -> "pre" [] at = "pre" -> "push"
After(at) ==
  CASE at = "select" -> IF job.flag THEN "pre" ELSE "commit"
    [] at = "pre" -> IF job.kind = "push" THEN "push" ELSE "commit"
    [] at = "commit" -> "push"

(* The files asked for are changed ones of the folder; one that is an env  *)
(* file, or where one leads, needs a confirmation.                         *)
TrackedChanges == {p \in Changes : head[p] # Gone}
EnvFiles == UNION {LinkDeps(disk, Env[s]) : s \in registered}
SelectCommitPaths(files, confirmed) ==
  /\ job.at = "select"
  /\ IF files \subseteq TrackedChanges /\ (files \cap EnvFiles = {} \/ confirmed)
     THEN job' = [job EXCEPT !.files = files, !.at = After("select")]
     ELSE End("failed")
  /\ UNCHANGED <<disk, repo>> /\ Git

PushPreconditions ==
  /\ job.at = "pre"
  /\ job' = [job EXCEPT !.at = After("pre")]
  /\ UNCHANGED <<disk, repo>> /\ Git

CommitPaths ==
  /\ job.at = "commit" /\ job.files \cap TrackedChanges # {}
  /\ head' = [p \in Paths |-> IF p \in job.files THEN disk[p] ELSE head[p]]
  /\ mine' = TRUE
  /\ IF job.flag THEN job' = [job EXCEPT !.at = After("commit")] ELSE End("success")
  /\ UNCHANGED <<disk, up, theirs>> /\ Git

(* Never a force: not over commits of others.  A push that was cut off may *)
(* have arrived.                                                           *)
Push ==
  /\ job.at = "push"
  /\ LET Failed == End(IF job.kind = "commit" THEN "partial" ELSE "failed") IN
     \/ Failed /\ UNCHANGED repo
     \/ /\ ~theirs /\ mine' = FALSE /\ up' = head /\ UNCHANGED <<head, theirs>>
        /\ Failed \/ End(IF mine THEN "success" ELSE "no_change")
  /\ UNCHANGED disk /\ Git

-----------------------------------------------------------------------------
(* The others: a scan, the operator, the remote; and a restart.            *)

Rescan(s) ==
  /\ registered' = registered \cup {s}
  /\ linked' = IF disk[Env[s]] = Gone THEN linked \ {s} ELSE linked \cup {s}
  /\ UNCHANGED <<disk, repo, enabled, job, saves, moves>>

Edit(p, c) ==
  /\ Move /\ c # disk[p] /\ disk' = [disk EXCEPT ![p] = c]
  /\ job' = HitsOf(disk') /\ lost' = lost \cup Misled(disk')
  /\ UNCHANGED <<repo, rows, save, told>>

RemoteMoves(p, c) ==
  /\ Move /\ p \notin Ignored /\ ~mine /\ c # up[p]
  /\ up' = [up EXCEPT ![p] = c] /\ theirs' = TRUE
  /\ UNCHANGED <<disk, head, mine, rows, job, saves>>

SetPushEnabled ==
  /\ Move /\ enabled' = ~enabled
  /\ UNCHANGED <<disk, repo, registered, linked, job, saves>>

Restart ==
  /\ Move /\ (job.at # "idle" \/ \E s \in Stacks : save[s].at # "idle")
  /\ job' = NoJob /\ save' = [s \in Stacks |-> NoSave]
  /\ told' = [s \in Stacks |-> "none"] /\ lost' = {}
  /\ UNCHANGED <<disk, repo, rows>>

-----------------------------------------------------------------------------
Next ==
  \/ \E s \in Stacks : \/ \E k \in {"compose", "env", "both"} : SaveBegins(s, k)
                       \/ WriteEnv(s) \/ VerifyEnv(s) \/ WriteCompose(s) \/ VerifyCompose(s)
                       \/ RecordEnvFile(s) \/ Redeploy(s) \/ Rescan(s)
  \/ \E k \in {"pull", "commit", "push"}, flag \in BOOLEAN : GitBegins(k, flag)
  \/ ListStacks \/ LockStacks \/ GitFails \/ CheckClean \/ PullCLI \/ NameSiblings \/ PullEnds
  \/ \E files \in (SUBSET Inside) \ {{}}, confirmed \in BOOLEAN : SelectCommitPaths(files, confirmed)
  \/ PushPreconditions \/ CommitPaths \/ Push
  \/ \E p \in Paths : \E c \in Entries[p] : Edit(p, c) \/ RemoteMoves(p, c)
  \/ SetPushEnabled \/ Restart

Spec == Init /\ [][Next]_vars

-----------------------------------------------------------------------------
(* Git works on whole saves: from the look at the work tree to the answer  *)
(* no stack that was registered when it started has a save under way, in   *)
(* whatever folder; so no commit records half a save, and no save's        *)
(* rollback takes back what a pull brought.                                *)
GitSeesWholeSaves == Working => \A s \in job.listed : save[s].at = "idle"

GitInv == TypeOK /\ GitSeesWholeSaves

(* A pull that answers success has named every other stack whose files it  *)
(* changed, through whatever links, and has redeployed every such stack of *)
(* its folder if it was asked to; job.hit is the history of these stacks,  *)
(* less those with a link that others made, moved or removed since.        *)
PullTellsAll ==
  [][(job.kind = "pull" /\ job'.at = "idle" /\ job'.answer = "success") =>
       /\ job.hit \ Own \subseteq job.named
       /\ job.flag => job.hit \cap Own \subseteq job.redone]_vars

(* A commit that answers failed has left the branch alone; one that        *)
(* answers partial has committed and not told of the push; one that        *)
(* answers success with a push has sent the branch.                        *)
CommitTellsTheTruth ==
  [][(job.kind = "commit" /\ job'.at = "idle") =>
       /\ job'.answer = "failed" => head' = job.base
       /\ job'.answer = "partial" => head' # job.base
       /\ (job'.answer = "success" /\ job.flag) => up' = head']_vars

(* A save of both files that answers failed leaves neither with its        *)
(* content, unless the env file could not be put back, or the compose file *)
(* was not there before, or somebody else moved a link of the stack's      *)
(* files meanwhile or put this very content back by a rollback.            *)
FailedSaveLeavesNothing ==
  [][\A s \in Stacks :
       (save[s].kind = "both" /\ save'[s].at = "idle" /\ told'[s] = "failed") =>
         \/ s \in lost'
         \/ /\ Read(disk', Env[s]) = s => save[s].env = s
            /\ Read(disk', Compose[s]) = s => save[s].compose \in {s, Gone}]_vars

=============================================================================
