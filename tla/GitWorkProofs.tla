---------------------------- MODULE GitWorkProofs ----------------------------
(***************************************************************************)
(* Theorems about the files of a repository and the git operations on it,  *)
(* for any stacks, any paths and any contents and links at them.           *)
(***************************************************************************)
EXTENDS GitWork, OperationLock, TLAPS

(* A tree whose links are among those the operator and the remote make,    *)
(* and a content that is no link.                                          *)
Linked(t) == t \in Trees /\ \A p \in Paths : t[p] \in Paths => t[p] \in Entries[p]
Plain == Contents \ Paths

Files == Linked(disk) /\ Linked(head) /\ Linked(up)

SaveType ==
  [at : {"idle", "env", "read", "compose", "verify", "row"},
   kind : {"none", "compose", "env", "both"}, env : Contents, compose : Contents]
SavesPlain ==
  /\ save \in [Stacks -> SaveType]
  /\ \A s \in Stacks : save[s].env \in Plain /\ save[s].compose \in Plain

-----------------------------------------------------------------------------
(* Following the links of a path ends at a path with a content.            *)
LEMMA LinksEnd ==
  ASSUME NEW t, Linked(t), NEW p \in Paths
  PROVE  /\ Target(t, p) \in LinkDeps(t, p) /\ Target(t, p) \in Paths
         /\ t[Target(t, p)] \notin Paths /\ Read(t, p) \in Plain
  <1>1. LinkDeps(t, p) \subseteq Paths /\ p \in LinkDeps(t, p)
    BY DEF LinkDeps, Hop
  <1>2. \E q \in LinkDeps(t, p) : t[q] \notin Paths
    <2>1. CASE t[p] \notin Paths
      BY <1>1, <2>1
    <2>2. CASE t[p] \in Paths /\ t[t[p]] \notin Paths
      <3>1. t[p] \in LinkDeps(t, p)
        BY <2>2 DEF LinkDeps, Hop
      <3> QED
        BY <2>2, <3>1
    <2>3. CASE t[p] \in Paths /\ t[t[p]] \in Paths
      <3>1. t[p] \in Links(p) /\ t[t[p]] \in Links(t[p])
        BY <2>3 DEF Linked, Links
      <3>2. Links(t[t[p]]) = {}
        BY <3>1, LinksAssumption
      <3>3. t[t[t[p]]] \notin Paths
        BY <2>3, <3>2 DEF Linked, Links
      <3>4. t[t[p]] \in LinkDeps(t, p)
        BY <2>3 DEF LinkDeps, Hop
      <3> QED
        BY <3>3, <3>4
    <2> QED
      BY <2>1, <2>2, <2>3
  <1>3. Target(t, p) \in LinkDeps(t, p) /\ t[Target(t, p)] \notin Paths
    BY <1>2 DEF Target
  <1>4. Target(t, p) \in Paths
    BY <1>1, <1>3
  <1>5. t[Target(t, p)] \in Contents
    BY <1>4 DEF Linked, Trees
  <1> QED
    BY <1>3, <1>4, <1>5 DEF Read, Plain

(* The paths crossed, one by one; only the last of them is no link.        *)
LEMMA Chain ==
  ASSUME NEW t, Linked(t), NEW p \in Paths, NEW q
  PROVE  q \in LinkDeps(t, p) <=>
           \/ q = p
           \/ t[p] \in Paths /\ (q = t[p] \/ (t[t[p]] \in Paths /\ q = t[t[p]]))
  BY DEF LinkDeps, Hop

LEMMA OneEnd ==
  ASSUME NEW t, Linked(t), NEW p \in Paths, NEW q \in LinkDeps(t, p), t[q] \notin Paths
  PROVE  q = Target(t, p)
  <1>1. Target(t, p) \in LinkDeps(t, p) /\ t[Target(t, p)] \notin Paths
    BY LinksEnd
  <1> DEFINE e == Target(t, p)
  <1> HIDE DEF e
  <1>2. e \in LinkDeps(t, p) /\ t[e] \notin Paths
    BY <1>1 DEF e
  <1>3. q = e
    BY <1>2, Chain
  <1> QED
    BY <1>3 DEF e

(* A tree whose links from p are the same leads to the same file.          *)
LEMMA SameWay ==
  ASSUME NEW t, Linked(t), NEW d, Linked(d), NEW p \in Paths,
         \A q \in LinkDeps(t, p) : d[q] = t[q] \/ {d[q], t[q]} \cap Paths = {}
  PROVE  /\ LinkDeps(d, p) = LinkDeps(t, p) /\ Target(d, p) = Target(t, p)
         /\ Read(t, p) = t[Target(t, p)] /\ Read(d, p) = d[Target(t, p)]
  <1>1. \A q : q \in LinkDeps(d, p) <=> q \in LinkDeps(t, p)
    <2>1. d[p] = t[p] \/ (d[p] \notin Paths /\ t[p] \notin Paths)
      BY Chain
    <2>2. t[p] \in Paths =>
            (d[t[p]] = t[t[p]] \/ (d[t[p]] \notin Paths /\ t[t[p]] \notin Paths))
      <3>1. t[p] \in Paths => t[p] \in LinkDeps(t, p)
        BY Chain
      <3>2. t[p] \in Paths => d[t[p]] = t[t[p]] \/ {d[t[p]], t[t[p]]} \cap Paths = {}
        BY <3>1, Zenon
      <3> QED
        BY <3>2
    <2> QED
      BY <2>1, <2>2, Chain
  <1>2. LinkDeps(d, p) = LinkDeps(t, p)
    BY <1>1, Zenon DEF LinkDeps, Hop
  <1>3. Target(t, p) \in LinkDeps(t, p) /\ t[Target(t, p)] \notin Paths
    BY LinksEnd
  <1>4. d[Target(t, p)] \notin Paths
    BY <1>3
  <1>5. Target(d, p) = Target(t, p)
    BY <1>2, <1>3, <1>4, OneEnd
  <1> QED
    BY <1>2, <1>5 DEF Read

(* A stack none of whose links a step moves keeps its files' paths.        *)
LEMMA NotMoved ==
  ASSUME NEW d, Linked(disk), Linked(d), NEW s \in Stacks, ~LinksMoved(d, s), NEW p \in {Env[s], Compose[s]}
  PROVE  /\ LinkDeps(d, p) = LinkDeps(disk, p) /\ Target(d, p) = Target(disk, p)
         /\ Target(disk, p) \in StackLinkDeps(disk, s)
         /\ Read(disk, p) = disk[Target(disk, p)] /\ Read(d, p) = d[Target(disk, p)]
  <1>1. p \in Paths
    BY GitWorkAssumption
  <1>2. LinkDeps(disk, p) \subseteq StackLinkDeps(disk, s)
    BY DEF StackLinkDeps
  <1>3. \A q \in LinkDeps(disk, p) : d[q] = disk[q] \/ {d[q], disk[q]} \cap Paths = {}
    BY <1>2 DEF LinksMoved
  <1>4. Target(disk, p) \in LinkDeps(disk, p)
    BY <1>1, LinksEnd
  <1> QED
    BY <1>1, <1>2, <1>3, <1>4, SameWay

LEMMA DepsStay ==
  ASSUME NEW d, Linked(disk), Linked(d), NEW s \in Stacks, ~LinksMoved(d, s)
  PROVE  StackLinkDeps(d, s) = StackLinkDeps(disk, s)
  BY NotMoved DEF StackLinkDeps

(* Writing a content leaves a tree a tree.                                 *)
LEMMA PutPlain ==
  ASSUME NEW t, Linked(t), NEW q, NEW c \in Plain
  PROVE  Linked([t EXCEPT ![q] = c])
  <1>1. c \in Contents /\ c \notin Paths
    BY DEF Plain
  <1>2. t \in [Paths -> Contents]
    BY DEF Linked, Trees
  <1>3. [t EXCEPT ![q] = c] \in [Paths -> Contents]
    BY <1>1, <1>2
  <1>4. \A p \in Paths : [t EXCEPT ![q] = c][p] = t[p] \/ [t EXCEPT ![q] = c][p] = c
    BY <1>2
  <1> QED
    BY <1>1, <1>3, <1>4 DEF Linked, Trees

LEMMA PlainContents ==
  /\ Gone \in Plain /\ Stacks \subseteq Plain
  /\ \A p \in Paths : Entries[p] \subseteq Contents
  <1>1. Gone \in Plain /\ Stacks \subseteq Plain
    <2>1. Gone \notin Paths /\ Stacks \cap Paths = {}
      BY GitWorkAssumption
    <2>2. Gone \in Contents /\ Stacks \subseteq Contents
      BY DEF Contents
    <2> QED
      BY <2>1, <2>2 DEF Plain
  <1>2. \A p \in Paths : Entries[p] \subseteq Contents
    BY DEF Contents
  <1> QED
    BY <1>1, <1>2

(* The tree d is t with the content c at the path q.                       *)
Puts(d, t, q, c) == Linked(d) /\ \A r \in Paths : d[r] = IF r = q THEN c ELSE t[r]

LEMMA PutIs ==
  ASSUME NEW t, Linked(t), NEW q \in Paths, NEW c \in Plain
  PROVE  Puts([t EXCEPT ![q] = c], t, q, c)
  <1>1. Linked([t EXCEPT ![q] = c])
    BY PutPlain
  <1>2. t \in [Paths -> Contents]
    BY DEF Linked, Trees
  <1> QED
    BY <1>1, <1>2 DEF Puts

(* A content written at the end of a path moves no link and is read there. *)
LEMMA WriteMovesNone ==
  ASSUME NEW t, Linked(t), NEW p \in Paths, NEW c \in Plain, NEW d, Puts(d, t, Target(t, p), c)
  PROVE  /\ \A q \in Paths : d[q] = t[q] \/ {d[q], t[q]} \cap Paths = {}
         /\ \A q \in Paths : Target(d, q) = Target(t, q)
         /\ \A q \in Paths : Read(d, q) = IF Target(t, q) = Target(t, p) THEN c ELSE Read(t, q)
  <1>1. Linked(d) /\ \A q \in Paths : d[q] = IF q = Target(t, p) THEN c ELSE t[q]
    BY DEF Puts
  <1>2. Target(t, p) \in Paths /\ t[Target(t, p)] \notin Paths /\ c \notin Paths
    BY LinksEnd DEF Plain
  <1>3. \A q \in Paths : d[q] = t[q] \/ {d[q], t[q]} \cap Paths = {}
    BY <1>1, <1>2
  <1>4. ASSUME NEW q \in Paths
        PROVE  /\ Target(d, q) = Target(t, q)
               /\ Read(d, q) = IF Target(t, q) = Target(t, p) THEN c ELSE Read(t, q)
    <2>1. \A r \in LinkDeps(t, q) : d[r] = t[r] \/ {d[r], t[r]} \cap Paths = {}
      BY <1>3, Chain
    <2>2. Target(d, q) = Target(t, q) /\ Read(d, q) = d[Target(t, q)]
      BY <1>1, <2>1, SameWay
    <2>3. Target(t, q) \in Paths
      BY LinksEnd
    <2> QED
      BY <1>1, <2>2, <2>3 DEF Read
  <1> QED
    BY <1>3, <1>4

LEMMA RestoreIsLinked ==
  ASSUME SavesPlain, NEW t, Linked(t), NEW s \in Stacks, RestoreEnv(t, s)
  PROVE  Linked(disk')
  <1>1. save[s].env \in Plain
    BY DEF SavesPlain
  <1>2. \A q : Linked([t EXCEPT ![q] = save[s].env])
    BY <1>1, PutPlain
  <1>3. Linked(EnvRestored(t, s))
    BY <1>2 DEF EnvRestored
  <1> QED
    BY <1>3 DEF RestoreEnv

LEMMA SaveMoves ==
  ASSUME SavesPlain, NEW s \in Stacks
  PROVE  /\ \A at \in {"idle", "env", "read", "compose", "verify", "row"} : At(s, at) => SavesPlain'
         /\ \A a : Answer(s, a) => SavesPlain'
  <1>1. ASSUME NEW at \in {"idle", "env", "read", "compose", "verify", "row"}, At(s, at)
        PROVE  SavesPlain'
    <2>1. save' = [save EXCEPT ![s] = [save[s] EXCEPT !.at = at]]
      BY <1>1 DEF At
    <2>2. /\ [save[s] EXCEPT !.at = at] \in SaveType
          /\ [save[s] EXCEPT !.at = at].env = save[s].env
          /\ [save[s] EXCEPT !.at = at].compose = save[s].compose
      BY DEF SavesPlain, SaveType
    <2> QED
      BY <2>1, <2>2 DEF SavesPlain
  <1>2. ASSUME NEW a, Answer(s, a) PROVE SavesPlain'
    <2>1. NoSave \in SaveType /\ NoSave.env = Gone /\ NoSave.compose = Gone
      BY PlainContents DEF NoSave, SaveType, Plain
    <2>2. save' = [save EXCEPT ![s] = NoSave]
      BY <1>2 DEF Answer
    <2> QED
      BY <2>1, <2>2, PlainContents DEF SavesPlain
  <1> QED
    BY <1>1, <1>2

(* Every step of a save keeps the trees and what the saves remember.       *)
LEMMA SavesKeepFiles ==
  ASSUME Files, SavesPlain, NEW s \in Stacks,
         \/ \E k \in {"compose", "env", "both"} : SaveBegins(s, k)
         \/ WriteEnv(s) \/ VerifyEnv(s) \/ WriteCompose(s) \/ VerifyCompose(s) \/ RecordEnvFile(s)
  PROVE  Files' /\ SavesPlain'
  <1>a. Compose[s] \in Paths /\ Env[s] \in Paths
    BY GitWorkAssumption
  <1>b. Linked(disk) /\ s \in Plain
    BY PlainContents DEF Files
  <1>c. UNCHANGED repo /\ Linked(disk') => Files'
    BY DEF Files, repo, Linked
  <1>d. UNCHANGED disk => Linked(disk')
    BY <1>b DEF Linked
  <1>1. ASSUME NEW k \in {"compose", "env", "both"}, SaveBegins(s, k) PROVE Files' /\ SavesPlain'
    <2> DEFINE new == [at |-> IF k = "compose" THEN "compose" ELSE "env", kind |-> k,
                       env |-> Read(disk, Env[s]), compose |-> Read(disk, Compose[s])]
    <2>1. Read(disk, Env[s]) \in Plain /\ Read(disk, Compose[s]) \in Plain
      BY <1>a, <1>b, LinksEnd
    <2>2. new \in SaveType /\ new.env \in Plain /\ new.compose \in Plain
      BY <2>1 DEF SaveType, Plain
    <2>3. save' = [save EXCEPT ![s] = new] /\ UNCHANGED <<disk, repo>>
      BY <1>1 DEF SaveBegins, Saving
    <2> HIDE DEF new
    <2>4. SavesPlain'
      BY <2>2, <2>3 DEF SavesPlain
    <2> QED
      BY <2>3, <2>4, <1>c, <1>d
  <1>2. ASSUME WriteEnv(s) PROVE Files' /\ SavesPlain'
    <2>1. UNCHANGED repo /\ (Write(Env[s], s) \/ UNCHANGED disk)
      BY <1>2 DEF WriteEnv, Saving
    <2>2. Linked(disk')
      <3>1. CASE UNCHANGED disk
        BY <1>d, <3>1
      <3>2. CASE Write(Env[s], s)
        BY <3>2, <1>b, PutPlain DEF Write
      <3> QED
        BY <2>1, <3>1, <3>2
    <2>3. SavesPlain'
      BY <1>2, SaveMoves DEF WriteEnv
    <2> QED
      BY <2>1, <2>2, <2>3, <1>c
  <1>3. ASSUME VerifyEnv(s) PROVE Files' /\ SavesPlain'
    <2>1. UNCHANGED repo /\ (RestoreEnv(disk, s) \/ UNCHANGED disk)
      BY <1>3 DEF VerifyEnv, Saving
    <2>2. Linked(disk')
      BY <2>1, <1>b, <1>d, RestoreIsLinked
    <2>3. SavesPlain'
      <3>1. (\E at \in {"compose", "row"} : At(s, at)) \/ Answer(s, "failed")
        BY <1>3 DEF VerifyEnv
      <3> QED
        BY <3>1, SaveMoves
    <2> QED
      BY <2>1, <2>2, <2>3, <1>c
  <1>4. ASSUME WriteCompose(s) PROVE Files' /\ SavesPlain'
    <2>1. UNCHANGED repo /\ (RestoreEnv(disk, s) \/ Write(Compose[s], s))
      BY <1>4 DEF WriteCompose, Saving
    <2>2. Linked(disk')
      <3>1. CASE RestoreEnv(disk, s)
        BY <3>1, <1>b, RestoreIsLinked
      <3>2. CASE Write(Compose[s], s)
        BY <3>2, <1>b, PutPlain DEF Write
      <3> QED
        BY <2>1, <3>1, <3>2
    <2>3. SavesPlain'
      <3>1. At(s, "verify") \/ At(s, "row") \/ Answer(s, "failed")
        BY <1>4 DEF WriteCompose
      <3> QED
        BY <3>1, SaveMoves
    <2> QED
      BY <2>1, <2>2, <2>3, <1>c
  <1>5. ASSUME VerifyCompose(s) PROVE Files' /\ SavesPlain'
    <2>1. UNCHANGED repo
      BY <1>5 DEF VerifyCompose, Saving
    <2>2. Linked(ComposeRestored(s))
      <3>1. save[s].compose \in Plain
        BY DEF SavesPlain
      <3> QED
        BY <3>1, <1>b, PutPlain DEF ComposeRestored
    <2>3. Linked(disk')
      <3>1. UNCHANGED disk \/ RestoreEnv(ComposeRestored(s), s) \/ RestoreEnv(disk, s)
        BY <1>5 DEF VerifyCompose
      <3> QED
        BY <3>1, <2>2, <1>b, <1>d, RestoreIsLinked
    <2>4. SavesPlain'
      <3>1. At(s, "row") \/ Answer(s, "failed") \/ Answer(s, "partial")
        BY <1>5 DEF VerifyCompose
      <3> QED
        BY <3>1, SaveMoves
    <2> QED
      BY <2>1, <2>3, <2>4, <1>c
  <1>6. ASSUME RecordEnvFile(s) PROVE Files' /\ SavesPlain'
    <2>1. UNCHANGED repo /\ UNCHANGED disk
      BY <1>6 DEF RecordEnvFile, Saving
    <2>2. SavesPlain'
      BY <1>6, SaveMoves DEF RecordEnvFile
    <2> QED
      BY <2>1, <2>2, <1>c, <1>d
  <1> QED
    BY <1>1, <1>2, <1>3, <1>4, <1>5, <1>6

(* Every other step leaves the saves alone, or ends them all.              *)
SaveStep ==
  \E s \in Stacks : \/ \E k \in {"compose", "env", "both"} : SaveBegins(s, k)
                    \/ WriteEnv(s) \/ VerifyEnv(s) \/ WriteCompose(s) \/ VerifyCompose(s) \/ RecordEnvFile(s)
JobStep ==
  \/ \E k \in {"pull", "commit", "push"}, flag \in BOOLEAN : GitBegins(k, flag)
  \/ \E s \in Stacks : Redeploy(s)
  \/ ListStacks \/ LockStacks \/ GitFails \/ CheckClean \/ PullCLI \/ NameSiblings \/ PullEnds
  \/ \E files \in (SUBSET Inside) \ {{}}, confirmed \in BOOLEAN : SelectCommitPaths(files, confirmed)
  \/ PushPreconditions \/ CommitPaths \/ Push
OtherStep ==
  \/ \E s \in Stacks : Rescan(s)
  \/ \E p \in Paths : \E c \in Entries[p] : Edit(p, c) \/ RemoteMoves(p, c)
  \/ SetPushEnabled \/ Restart \/ UNCHANGED vars

LEMMA Steps == [Next]_vars => SaveStep \/ JobStep \/ OtherStep
  BY DEF Next, SaveStep, JobStep, OtherStep

LEMMA JobLeaves ==
  ASSUME JobStep
  PROVE  /\ UNCHANGED <<registered, linked, enabled, save, told, moves>>
         /\ PullCLI \/ ((CommitPaths \/ Push \/ UNCHANGED <<disk, repo>>) /\ UNCHANGED lost)
  <1> USE DEF Git, rows, saves
  <1>1. ASSUME NEW k, NEW flag, GitBegins(k, flag) PROVE Git /\ UNCHANGED <<disk, repo>>
    BY <1>1 DEF GitBegins
  <1>2. ASSUME NEW s, Redeploy(s) PROVE Git /\ UNCHANGED <<disk, repo>>
    BY <1>2 DEF Redeploy
  <1>3. ASSUME NEW files, NEW confirmed, SelectCommitPaths(files, confirmed) PROVE Git /\ UNCHANGED <<disk, repo>>
    BY <1>3 DEF SelectCommitPaths
  <1>4. ASSUME ListStacks \/ LockStacks \/ GitFails \/ CheckClean PROVE Git /\ UNCHANGED <<disk, repo>>
    BY <1>4 DEF ListStacks, LockStacks, GitFails, CheckClean
  <1>5. ASSUME NameSiblings \/ PullEnds \/ PushPreconditions PROVE Git /\ UNCHANGED <<disk, repo>>
    BY <1>5 DEF NameSiblings, PullEnds, PushPreconditions
  <1>6. ASSUME CommitPaths \/ Push PROVE Git
    BY <1>6 DEF CommitPaths, Push
  <1>7. ASSUME PullCLI PROVE UNCHANGED <<registered, linked, enabled, save, told, moves>>
    BY <1>7 DEF PullCLI
  <1> QED
    BY <1>1, <1>2, <1>3, <1>4, <1>5, <1>6, <1>7 DEF JobStep

LEMMA JobKeepsFiles ==
  ASSUME Files, SavesPlain, JobStep
  PROVE  Files' /\ UNCHANGED save
  <1>1. UNCHANGED save
    BY JobLeaves
  <1>2. CASE PullCLI
    <2>1. CASE UNCHANGED <<disk, repo>>
      BY <1>1, <2>1 DEF repo, Files, Linked
    <2>2. CASE /\ disk' = [p \in Paths |-> IF p \in Incoming THEN up[p] ELSE disk[p]]
               /\ head' = up /\ up' = up
      <3>1. disk' \in Trees
        BY <2>2 DEF Files, Linked, Trees
      <3>2. \A p \in Paths : disk'[p] = up[p] \/ disk'[p] = disk[p]
        BY <2>2
      <3> QED
        BY <1>1, <2>2, <3>1, <3>2 DEF Files, Linked
    <2> QED
      BY <1>2, <2>1, <2>2 DEF PullCLI
  <1>3. CASE CommitPaths
    <2>1. head' = [p \in Paths |-> IF p \in job.files THEN disk[p] ELSE head[p]] /\ disk' = disk /\ up' = up
      BY <1>3 DEF CommitPaths
    <2>2. head' \in Trees
      BY <1>1, <2>1 DEF Files, Linked, Trees
    <2>3. \A p \in Paths : head'[p] = head[p] \/ head'[p] = disk[p]
      BY <2>1
    <2> QED
      BY <1>1, <2>1, <2>2, <2>3 DEF Files, Linked
  <1>4. CASE Push
    <2>1. disk' = disk /\ head' = head /\ (up' = up \/ up' = head)
      BY <1>4 DEF Push, repo
    <2> QED
      BY <1>1, <2>1 DEF Files, Linked
  <1>5. CASE UNCHANGED <<disk, repo>>
    BY <1>1, <1>5 DEF repo, Files, Linked
  <1> QED
    BY <1>2, <1>3, <1>4, <1>5, JobLeaves

LEMMA OthersKeepFiles ==
  ASSUME Files, SavesPlain, OtherStep
  PROVE  Files' /\ SavesPlain'
  <1>1. ASSUME NEW p \in Paths, NEW c \in Entries[p], NEW t, Linked(t) PROVE Linked([t EXCEPT ![p] = c])
    <2>1. t \in [Paths -> Contents] /\ c \in Contents
      BY <1>1, PlainContents DEF Linked, Trees
    <2>2. [t EXCEPT ![p] = c] \in [Paths -> Contents]
      BY <2>1
    <2>3. [t EXCEPT ![p] = c][p] = c /\ \A q \in Paths : q # p => [t EXCEPT ![p] = c][q] = t[q]
      BY <2>1
    <2> QED
      BY <1>1, <2>2, <2>3 DEF Linked, Trees
  <1>2. ASSUME NEW p \in Paths, NEW c \in Entries[p], Edit(p, c) PROVE Files' /\ SavesPlain'
    <2>1. disk' = [disk EXCEPT ![p] = c] /\ UNCHANGED <<head, up, save>>
      BY <1>2 DEF Edit, repo
    <2>2. Linked(disk')
      BY <1>1, <2>1 DEF Files
    <2> QED
      BY <2>1, <2>2 DEF Files, Linked, SavesPlain
  <1>3. ASSUME NEW p \in Paths, NEW c \in Entries[p], RemoteMoves(p, c) PROVE Files' /\ SavesPlain'
    <2>1. up' = [up EXCEPT ![p] = c] /\ UNCHANGED <<head, disk, save>>
      BY <1>3 DEF RemoteMoves, saves
    <2>2. Linked(up')
      BY <1>1, <2>1 DEF Files
    <2> QED
      BY <2>1, <2>2 DEF Files, Linked, SavesPlain
  <1>4. CASE Restart
    <2>1. save' = [s \in Stacks |-> NoSave] /\ UNCHANGED <<disk, head, up>>
      BY <1>4 DEF Restart, repo
    <2>2. NoSave \in SaveType /\ NoSave.env = Gone /\ NoSave.compose = Gone
      BY PlainContents DEF NoSave, SaveType, Plain
    <2> QED
      BY <2>1, <2>2, PlainContents DEF Files, Linked, SavesPlain
  <1>5. ASSUME NEW s \in Stacks, Rescan(s) PROVE UNCHANGED <<disk, head, up, save>>
    BY <1>5 DEF Rescan, repo, saves
  <1>6. CASE UNCHANGED <<disk, head, up, save>>
    BY <1>6 DEF Files, Linked, SavesPlain
  <1> QED
    BY <1>2, <1>3, <1>4, <1>5, <1>6 DEF OtherStep, SetPushEnabled, vars, repo, saves

-----------------------------------------------------------------------------
(* The git operation: its stages, by its kind, and what it has taken.      *)
Fields == {"at", "kind", "answer", "flag", "locked", "listed", "links", "files", "named",
           "redone", "todo", "faults", "base", "hit"}
StagesOf(kind) ==
  CASE kind = "pull" -> {"list", "lock", "clean", "pull", "siblings", "redeploy"}
    [] kind = "commit" -> {"list", "lock", "select", "pre", "commit", "push"}
    [] kind = "push" -> {"list", "lock", "pre", "push"}
    [] kind = "none" -> {"idle"}

JobInv ==
  /\ DOMAIN job = Fields /\ job = [f \in Fields |-> job[f]]
  /\ job.kind \in {"none", "pull", "commit", "push"} /\ job.at \in StagesOf(job.kind)
  /\ job.flag \in BOOLEAN /\ job.listed \subseteq Stacks
  /\ job.answer \in {"none", "success", "no_change", "partial", "failed"}
  /\ job.at # "list" => job.locked = job.listed
  /\ job.named \cup job.redone \cup job.todo \subseteq job.locked
  /\ job.at \in {"idle", "list"} => job.locked = {} /\ job.listed = {}

(* An ended operation, and one that only moves on.                         *)
LEMMA EndedJob ==
  ASSUME NEW a \in {"none", "success", "no_change", "partial", "failed"}, End(a)
  PROVE  JobInv' /\ job'.at = "idle" /\ job'.answer = a /\ job'.kind = "none"
  BY DEF End, NoJob, JobInv, Fields, StagesOf

LEMMA JobMoves ==
  ASSUME JobInv, NEW at, job' = [job EXCEPT !.at = at], at \in StagesOf(job.kind), at # "list", job.at # "list"
  PROVE  JobInv' /\ job'.at = at /\ job'.kind = job.kind /\ job'.flag = job.flag
         /\ job'.base = job.base /\ job'.listed = job.listed
  BY DEF JobInv, Fields, StagesOf

LEMMA HitsLeave ==
  ASSUME JobInv, NEW d, job' = job \/ job' = HitsOf(d)
  PROVE  /\ JobInv'
         /\ job'.at = job.at /\ job'.kind = job.kind /\ job'.base = job.base
         /\ job'.listed = job.listed /\ job'.locked = job.locked
         /\ job'.named = job.named /\ job'.redone = job.redone /\ job'.todo = job.todo
         /\ job'.flag = job.flag /\ job'.answer = job.answer
         /\ job'.files = job.files /\ job'.faults = job.faults
         /\ job' = job \/ job'.hit = {s \in job.hit : ~LinksMoved(d, s)}
  <1>1. CASE job' = job
    BY <1>1 DEF JobInv
  <1>2. CASE job' = HitsOf(d)
    <2>1. /\ job'.at = job.at /\ job'.kind = job.kind /\ job'.base = job.base
          /\ job'.listed = job.listed /\ job'.locked = job.locked
          /\ job'.named = job.named /\ job'.redone = job.redone /\ job'.todo = job.todo
          /\ job'.flag = job.flag /\ job'.answer = job.answer
          /\ job'.files = job.files /\ job'.faults = job.faults
          /\ job'.hit = {s \in job.hit : ~LinksMoved(d, s)}
          /\ DOMAIN job' = Fields /\ job' = [f \in Fields |-> job'[f]]
      BY <1>2 DEF HitsOf, JobInv, Fields
    <2> QED
      BY <2>1 DEF JobInv
  <1> QED
    BY <1>1, <1>2

(* Every step of the operation, and what it does to the branch: a commit's *)
(* look at it and its answer.                                              *)
HeadInv ==
  job.kind = "commit" =>
    /\ job.at \in {"list", "lock", "select", "pre", "commit"} => head = job.base
    /\ job.at = "push" => head # job.base

Truth ==
  (job.kind = "commit" /\ job'.at = "idle") =>
    /\ job'.answer = "failed" => head' = job.base
    /\ job'.answer = "partial" => head' # job.base
    /\ (job'.answer = "success" /\ job.flag) => up' = head'

Whole == Working => \A s \in job.listed : save[s].at = "idle"

LEMMA JobStepInv ==
  ASSUME Files, registered \subseteq Stacks, JobInv, HeadInv, Whole, JobStep, UNCHANGED save
  PROVE  JobInv' /\ HeadInv' /\ Whole' /\ Truth
  <1> DEFINE G == JobInv' /\ HeadInv' /\ Whole' /\ Truth
  <1>a. ASSUME NEW a \in {"none", "success", "no_change", "partial", "failed"}, End(a), Truth PROVE G
    <2>1. JobInv' /\ job'.at = "idle" /\ job'.kind = "none"
      BY <1>a, EndedJob
    <2> QED
      BY <1>a, <2>1 DEF HeadInv, Whole, Working
  <1>1. ASSUME NEW k \in {"pull", "commit", "push"}, NEW flag \in BOOLEAN, GitBegins(k, flag) PROVE G
    <2>1. /\ job' = [NoJob EXCEPT !.kind = k, !.flag = flag, !.at = "list", !.base = head] /\ head' = head
          /\ job.at = "idle"
      BY <1>1 DEF GitBegins, repo
    <2>2. /\ job'.at = "list" /\ job'.kind = k /\ job'.base = head /\ job'.flag = flag
          /\ job'.listed = {} /\ job'.locked = {} /\ job'.named = {} /\ job'.redone = {} /\ job'.todo = {}
          /\ job'.answer = "none"
          /\ DOMAIN job' = Fields /\ job' = [f \in Fields |-> job'[f]]
      BY <2>1 DEF NoJob, Fields
    <2>3. JobInv'
      BY <2>2 DEF JobInv, StagesOf
    <2> QED
      BY <2>1, <2>2, <2>3 DEF HeadInv, Whole, Working, Truth
  <1>2. CASE ListStacks
    <2>1. job' = [job EXCEPT !.at = "lock", !.listed = registered, !.locked = registered] /\ head' = head
          /\ job.at = "list"
      BY <1>2 DEF ListStacks, RepoStacks, repo
    <2>2. /\ job'.at = "lock" /\ job'.kind = job.kind /\ job'.base = job.base
          /\ job'.listed = registered /\ job'.locked = registered
          /\ job'.named = job.named /\ job'.redone = job.redone /\ job'.todo = job.todo
          /\ job'.flag = job.flag /\ job'.answer = job.answer
          /\ DOMAIN job' = Fields /\ job' = [f \in Fields |-> job'[f]]
      BY <2>1 DEF JobInv, Fields
    <2>3. job.named \cup job.redone \cup job.todo = {}
      BY <2>1 DEF JobInv
    <2>4. job.kind \in {"pull", "commit", "push"}
      BY <2>1 DEF JobInv, StagesOf
    <2>5. job'.at \in StagesOf(job'.kind)
      BY <2>2, <2>4 DEF StagesOf
    <2>6. JobInv'
      BY <2>2, <2>3, <2>5 DEF JobInv
    <2> QED
      BY <2>1, <2>2, <2>6 DEF HeadInv, Whole, Working, Truth
  <1>3. CASE LockStacks
    <2>1. job.at = "lock" /\ head' = head
      BY <1>3 DEF LockStacks, repo
    <2>2. CASE End("failed")
      BY <2>1, <2>2, <1>a, EndedJob DEF Truth, HeadInv
    <2>3. CASE /\ \A s \in job.locked : ~Held(s)
               /\ job' = [job EXCEPT !.at = CASE job.kind = "pull" -> "clean"
                                              [] job.kind = "commit" -> "select"
                                              [] OTHER -> "pre",
                                     !.links = [s \in job.locked |-> StackLinkDeps(disk, s)]]
      <3> DEFINE at == CASE job.kind = "pull" -> "clean"
                         [] job.kind = "commit" -> "select"
                         [] OTHER -> "pre"
      <3>1. at \in StagesOf(job.kind) \ {"list", "idle"} /\ (job.kind = "commit" => at = "select")
        BY <2>1 DEF JobInv, StagesOf
      <3>2. job' = [job EXCEPT !.at = at, !.links = [s \in job.locked |-> StackLinkDeps(disk, s)]]
        BY <2>3
      <3>3. \A s \in job.listed : save[s].at = "idle"
        BY <2>1, <2>3 DEF JobInv, Held
      <3> HIDE DEF at
      <3>4. /\ job'.at = at /\ job'.kind = job.kind /\ job'.base = job.base
            /\ job'.listed = job.listed /\ job'.locked = job.locked
            /\ job'.named = job.named /\ job'.redone = job.redone /\ job'.todo = job.todo
            /\ job'.flag = job.flag /\ job'.answer = job.answer
            /\ DOMAIN job' = Fields /\ job' = [f \in Fields |-> job'[f]]
        BY <3>2 DEF JobInv, Fields
      <3>5. JobInv'
        BY <2>1, <3>1, <3>4 DEF JobInv
      <3> QED
        BY <2>1, <3>1, <3>3, <3>4, <3>5 DEF HeadInv, Whole, Truth
    <2> QED
      BY <1>3, <2>2, <2>3 DEF LockStacks
  <1>4. CASE GitFails
    <2>1. job.at \in {"clean", "pull", "select", "pre", "commit"} /\ head' = head /\ End("failed")
      BY <1>4 DEF GitFails, repo
    <2>2. Truth
      BY <2>1, EndedJob DEF Truth, HeadInv, JobInv, StagesOf
    <2> QED
      BY <2>1, <2>2, <1>a
  <1>5. CASE CheckClean
    <2>1. job.at = "clean" /\ job' = [job EXCEPT !.at = "pull"] /\ job.kind = "pull"
      BY <1>5 DEF CheckClean, JobInv, StagesOf
    <2>2. JobInv' /\ job'.at = "pull" /\ job'.kind = "pull" /\ job'.listed = job.listed
      BY <2>1, JobMoves DEF StagesOf
    <2> QED
      BY <2>1, <2>2 DEF HeadInv, Whole, Working, Truth
  <1>6. CASE PullCLI
    <2>1. job.at = "pull" /\ job.kind = "pull"
      BY <1>6 DEF PullCLI, JobInv, StagesOf
    <2>2. Truth
      BY <2>1 DEF Truth
    <2>3. CASE End("no_change") \/ End("failed") \/ End("partial")
      BY <2>2, <2>3, <1>a
    <2>4. ASSUME NEW F, NEW H, job' = [job EXCEPT !.at = "siblings", !.files = F, !.hit = H] PROVE G
      <3>1. /\ job'.at = "siblings" /\ job'.kind = job.kind /\ job'.base = job.base
            /\ job'.listed = job.listed /\ job'.locked = job.locked
            /\ job'.named = job.named /\ job'.redone = job.redone /\ job'.todo = job.todo
            /\ job'.flag = job.flag /\ job'.answer = job.answer
            /\ DOMAIN job' = Fields /\ job' = [f \in Fields |-> job'[f]]
        BY <2>4 DEF JobInv, Fields
      <3>2. JobInv'
        BY <2>1, <3>1 DEF JobInv, StagesOf
      <3> QED
        BY <2>1, <2>2, <3>1, <3>2 DEF HeadInv, Whole, Working
    <2> QED
      BY <1>6, <2>3, <2>4 DEF PullCLI
  <1>7. CASE NameSiblings
    <2>1. job.at = "siblings" /\ job.kind = "pull"
      <3>1. job.at = "siblings"
        BY <1>7, Zenon DEF NameSiblings
      <3> QED
        BY <3>1 DEF JobInv, StagesOf
    <2>2. PICK unknown \in SUBSET (job.locked \ Own) :
            job' = [job EXCEPT !.named = {s \in job.locked \ (Own \cup unknown) : FilesChanged(s)},
                               !.faults = unknown # {},
                               !.todo = IF job.flag THEN job.locked \cap Own ELSE {},
                               !.at = "redeploy"]
      BY <1>7 DEF NameSiblings
    <2>3. /\ job'.at = "redeploy" /\ job'.kind = job.kind /\ job'.base = job.base
          /\ job'.listed = job.listed /\ job'.locked = job.locked
          /\ job'.named \subseteq job.locked /\ job'.redone = job.redone /\ job'.todo \subseteq job.locked
          /\ job'.flag = job.flag /\ job'.answer = job.answer
          /\ DOMAIN job' = Fields /\ job' = [f \in Fields |-> job'[f]]
      BY <2>2 DEF JobInv, Fields
    <2>4. JobInv'
      BY <2>1, <2>3 DEF JobInv, StagesOf
    <2> QED
      BY <2>1, <2>3, <2>4 DEF HeadInv, Whole, Working, Truth
  <1>8. ASSUME NEW s \in Stacks, Redeploy(s) PROVE G
    <2>1. s \in job.todo
      BY <1>8 DEF Redeploy
    <2>2. /\ job'.at = job.at /\ job'.kind = job.kind /\ job'.base = job.base
          /\ job'.listed = job.listed /\ job'.locked = job.locked
          /\ job'.named = job.named /\ job'.redone \subseteq job.redone \cup {s} /\ job'.todo \subseteq job.todo
          /\ job'.flag = job.flag /\ job'.answer = job.answer
          /\ DOMAIN job' = Fields /\ job' = [f \in Fields |-> job'[f]]
      <3>1. CASE \E S : job' = [job EXCEPT !.todo = @ \ {s}, !.redone = S] /\ S \subseteq job.redone \cup {s}
        <4>1. PICK S : job' = [job EXCEPT !.todo = job.todo \ {s}, !.redone = S] /\ S \subseteq job.redone \cup {s}
          BY <3>1
        <4> QED
          BY <4>1 DEF JobInv, Fields
      <3>2. CASE job' = [job EXCEPT !.todo = @ \ {s}, !.faults = TRUE]
        BY <3>2 DEF JobInv, Fields
      <3> QED
        BY <1>8, <3>1, <3>2 DEF Redeploy
    <2>3. JobInv'
      BY <2>1, <2>2 DEF JobInv
    <2>4. job.at # "idle" /\ head' = head
      BY <1>8, <2>1 DEF Redeploy, JobInv, repo
    <2> QED
      BY <2>2, <2>3, <2>4 DEF HeadInv, Whole, Working, Truth
  <1>9. CASE PullEnds
    <2>1. job.kind = "pull"
      BY <1>9 DEF PullEnds, JobInv, StagesOf
    <2> QED
      BY <1>9, <2>1, <1>a DEF PullEnds, Truth
  <1>10. ASSUME NEW files \in (SUBSET Inside) \ {{}}, NEW confirmed \in BOOLEAN, SelectCommitPaths(files, confirmed) PROVE G
    <2>1. job.at = "select" /\ job.kind = "commit" /\ head' = head
      BY <1>10 DEF SelectCommitPaths, JobInv, StagesOf, repo
    <2>2. CASE End("failed")
      BY <2>1, <2>2, <1>a, EndedJob DEF Truth, HeadInv
    <2>3. CASE job' = [job EXCEPT !.files = files, !.at = After("select")]
      <3>1. After("select") \in {"pre", "commit"}
        BY DEF After, JobInv
      <3>2. /\ job'.at = After("select") /\ job'.kind = job.kind /\ job'.base = job.base
            /\ job'.listed = job.listed /\ job'.locked = job.locked
            /\ job'.named = job.named /\ job'.redone = job.redone /\ job'.todo = job.todo
            /\ job'.flag = job.flag /\ job'.answer = job.answer
            /\ DOMAIN job' = Fields /\ job' = [f \in Fields |-> job'[f]]
        BY <2>3 DEF JobInv, Fields
      <3>3. JobInv'
        BY <2>1, <3>1, <3>2 DEF JobInv, StagesOf
      <3> QED
        BY <2>1, <3>1, <3>2, <3>3 DEF HeadInv, Whole, Working, Truth
    <2> QED
      BY <1>10, <2>2, <2>3 DEF SelectCommitPaths
  <1>11. CASE PushPreconditions
    <2>1. job.at = "pre" /\ job' = [job EXCEPT !.at = After("pre")] /\ head' = head
      BY <1>11 DEF PushPreconditions, repo
    <2>2. /\ job.kind \in {"commit", "push"} /\ After("pre") \in StagesOf(job.kind) \ {"list", "idle"}
          /\ job.kind = "commit" => After("pre") = "commit"
      BY <2>1 DEF After, JobInv, StagesOf
    <2>3. JobInv' /\ job'.at = After("pre") /\ job'.kind = job.kind /\ job'.base = job.base /\ job'.listed = job.listed
      BY <2>1, <2>2, JobMoves
    <2> QED
      BY <2>1, <2>2, <2>3 DEF HeadInv, Whole, Working, Truth
  <1>12. CASE CommitPaths
    <2>1. job.at = "commit" /\ job.kind = "commit"
      BY <1>12 DEF CommitPaths, JobInv, StagesOf
    <2>2. head' # job.base
      <3>1. PICK p \in Paths : p \in job.files /\ disk[p] # head[p]
        BY <1>12 DEF CommitPaths, TrackedChanges, Changes
      <3>2. head'[p] = disk[p]
        BY <1>12, <3>1 DEF CommitPaths
      <3> QED
        BY <2>1, <3>1, <3>2 DEF HeadInv
    <2>3. CASE job.flag
      <3>1. job' = [job EXCEPT !.at = "push"]
        BY <1>12, <2>3 DEF CommitPaths, After
      <3>2. JobInv' /\ job'.at = "push" /\ job'.kind = job.kind /\ job'.base = job.base /\ job'.listed = job.listed
        BY <2>1, <3>1, JobMoves DEF StagesOf
      <3> QED
        BY <2>1, <2>2, <3>2 DEF HeadInv, Whole, Working, Truth
    <2>4. CASE ~job.flag
      <3>1. End("success")
        BY <1>12, <2>4 DEF CommitPaths
      <3>2. Truth
        BY <2>2, <2>4, <3>1, EndedJob DEF Truth
      <3> QED
        BY <3>1, <3>2, <1>a
    <2> QED
      BY <2>3, <2>4
  <1>13. CASE Push
    <2>1. job.at = "push" /\ head' = head
      BY <1>13 DEF Push, repo
    <2>2. PICK a \in {"partial", "failed", "success", "no_change"} :
            End(a) /\ (a = "success" => up' = head') /\ (job.kind = "commit" => a # "failed")
      BY <1>13 DEF Push
    <2>3. Truth
      BY <2>1, <2>2, EndedJob DEF Truth, HeadInv
    <2> QED
      BY <2>2, <2>3, <1>a
  <1> QED
    BY <1>1, <1>2, <1>3, <1>4, <1>5, <1>6, <1>7, <1>8, <1>9, <1>10, <1>11, <1>12, <1>13 DEF JobStep

(* A save's step changes only the history of the operation.                *)
LEMMA SaveJob ==
  ASSUME NEW s \in Stacks,
         \/ \E k \in {"compose", "env", "both"} : SaveBegins(s, k)
         \/ WriteEnv(s) \/ VerifyEnv(s) \/ WriteCompose(s) \/ VerifyCompose(s) \/ RecordEnvFile(s)
  PROVE  job' = job \/ job' = HitsOf(disk')
  <1>1. ASSUME NEW k \in {"compose", "env", "both"}, SaveBegins(s, k) PROVE job' = job
    BY <1>1 DEF SaveBegins
  <1>2. CASE WriteEnv(s) \/ RecordEnvFile(s)
    BY <1>2 DEF WriteEnv, RecordEnvFile, At
  <1>3. CASE VerifyEnv(s) \/ WriteCompose(s)
    BY <1>3 DEF VerifyEnv, WriteCompose, At, RestoreEnv
  <1>4. CASE VerifyCompose(s)
    BY <1>4 DEF VerifyCompose, At, RestoreEnv
  <1> QED
    BY <1>1, <1>2, <1>3, <1>4

(* A save takes its stack's turn first, so it leaves those alone that the  *)
(* operation has taken.                                                    *)
LEMMA SaveStepInv ==
  ASSUME JobInv, HeadInv, Whole, SavesPlain, SaveStep
  PROVE  JobInv' /\ HeadInv' /\ Whole' /\ Truth
  <1>1. PICK s \in Stacks :
          \/ \E k \in {"compose", "env", "both"} : SaveBegins(s, k)
          \/ WriteEnv(s) \/ VerifyEnv(s) \/ WriteCompose(s) \/ VerifyCompose(s) \/ RecordEnvFile(s)
    BY DEF SaveStep
  <1>2. (job' = job \/ job' = HitsOf(disk')) /\ head' = head
    BY <1>1, SaveJob DEF SaveBegins, WriteEnv, VerifyEnv, WriteCompose, VerifyCompose, RecordEnvFile, Saving, repo
  <1>h. /\ JobInv' /\ job'.at = job.at /\ job'.kind = job.kind /\ job'.base = job.base
        /\ job'.listed = job.listed
    BY <1>2, HitsLeave
  <1>3. JobInv' /\ HeadInv'
    BY <1>2, <1>h DEF HeadInv
  <1>4. Truth
    BY <1>h DEF Truth, JobInv, StagesOf
  <1>5. Whole'
    <2>1. \E v : save' = [save EXCEPT ![s] = v]
      BY <1>1 DEF SaveBegins, WriteEnv, VerifyEnv, WriteCompose, VerifyCompose, RecordEnvFile, At, Answer
    <2>2. \A x \in Stacks : x # s => save'[x] = save[x]
      BY <2>1 DEF SavesPlain
    <2>3. save[s].at # "idle" \/ ~Held(s)
      BY <1>1 DEF SaveBegins, WriteEnv, VerifyEnv, WriteCompose, VerifyCompose, RecordEnvFile
    <2>4. Working => s \notin job.listed
      BY <2>3 DEF Whole, Held, JobInv, Working
    <2>5. job.listed \subseteq Stacks
      BY DEF JobInv
    <2> QED
      BY <1>h, <2>2, <2>4, <2>5 DEF Whole, Working
  <1> QED
    BY <1>3, <1>4, <1>5

(* An edit changes only the history of the operation, a restart ends it.   *)
LEMMA OtherStepInv ==
  ASSUME JobInv, HeadInv, Whole, SavesPlain, OtherStep
  PROVE  JobInv' /\ HeadInv' /\ Whole' /\ Truth
  <1>1. CASE UNCHANGED <<job, head, save>>
    <2>1. job' = job /\ head' = head /\ save' = save
      BY <1>1
    <2>2. Truth
      BY <2>1 DEF Truth, JobInv, StagesOf
    <2> QED
      BY <2>1, <2>2 DEF JobInv, HeadInv, Whole, Working
  <1>2. ASSUME NEW p \in Paths, NEW c \in Entries[p], Edit(p, c)
        PROVE  JobInv' /\ HeadInv' /\ Whole' /\ Truth
    <2>1. job' = HitsOf(disk') /\ head' = head /\ save' = save
      BY <1>2 DEF Edit, repo
    <2>2. /\ JobInv' /\ job'.at = job.at /\ job'.kind = job.kind /\ job'.base = job.base
          /\ job'.listed = job.listed
      BY <2>1, HitsLeave
    <2>3. JobInv'
      BY <2>2
    <2>4. Truth
      BY <2>2 DEF Truth, JobInv, StagesOf
    <2> QED
      BY <2>1, <2>2, <2>3, <2>4 DEF HeadInv, Whole, Working
  <1>3. CASE Restart
    <2>1. job' = [NoJob EXCEPT !.answer = "none"]
      BY <1>3 DEF Restart, NoJob
    <2>2. JobInv' /\ job'.at = "idle" /\ job'.answer = "none" /\ job'.kind = "none"
      BY <2>1, EndedJob DEF End
    <2> QED
      BY <2>2 DEF HeadInv, Whole, Working, Truth
  <1>4. ASSUME NEW s \in Stacks, Rescan(s) PROVE UNCHANGED <<job, head, save>>
    BY <1>4 DEF Rescan, repo, saves
  <1>5. ASSUME NEW p \in Paths, NEW c \in Entries[p], RemoteMoves(p, c) PROVE UNCHANGED <<job, head, save>>
    BY <1>5 DEF RemoteMoves, saves
  <1>6. ASSUME SetPushEnabled \/ UNCHANGED vars PROVE UNCHANGED <<job, head, save>>
    BY <1>6 DEF SetPushEnabled, vars, repo, saves
  <1> QED
    BY <1>1, <1>2, <1>3, <1>4, <1>5, <1>6 DEF OtherStep

-----------------------------------------------------------------------------
(* The rest of the types.                                                  *)
Rows ==
  /\ mine \in BOOLEAN /\ theirs \in BOOLEAN /\ enabled \in BOOLEAN
  /\ registered \subseteq Stacks /\ linked \subseteq Stacks /\ lost \subseteq Stacks
  /\ told \in [Stacks -> {"none", "success", "partial", "failed"}]
  /\ moves \in 0 .. MaxMoves

LEMMA RowsStep ==
  ASSUME Rows, [Next]_vars
  PROVE  Rows'
  <1> USE GitWorkAssumption DEF Rows
  <1>m. Move => moves' \in 0 .. MaxMoves
    BY DEF Move
  <1>1. ASSUME NEW s \in Stacks, NEW k \in {"compose", "env", "both"}, SaveBegins(s, k) PROVE Rows'
    BY <1>1, <1>m DEF SaveBegins, Saving, repo
  <1>a. ASSUME NEW s \in Stacks, NEW a \in {"success", "partial", "failed"}, Answer(s, a)
        PROVE  told' \in [Stacks -> {"none", "success", "partial", "failed"}]
    BY <1>a DEF Answer
  <1>e. \A d : Misled(d) \subseteq Stacks
    BY DEF Misled
  <1>r. ASSUME NEW t, NEW s \in Stacks, RestoreEnv(t, s) PROVE lost' \subseteq Stacks
    BY <1>r, <1>e DEF RestoreEnv
  <1>2. ASSUME NEW s \in Stacks, WriteEnv(s) PROVE Rows'
    BY <1>2, <1>a DEF WriteEnv, At, Saving, repo
  <1>3. ASSUME NEW s \in Stacks, VerifyEnv(s) PROVE Rows'
    BY <1>3, <1>a, <1>r DEF VerifyEnv, At, Saving, repo
  <1>4. ASSUME NEW s \in Stacks, WriteCompose(s) PROVE Rows'
    BY <1>4, <1>a, <1>r DEF WriteCompose, At, Saving, repo
  <1>5. ASSUME NEW s \in Stacks, VerifyCompose(s) PROVE Rows'
    BY <1>5, <1>a, <1>r DEF VerifyCompose, At, Saving, repo
  <1>6. ASSUME NEW s \in Stacks, RecordEnvFile(s) PROVE Rows'
    <2>1. UNCHANGED <<mine, theirs, enabled, registered, lost, moves>>
      BY <1>6 DEF RecordEnvFile, Saving, repo
    <2>2. linked' \subseteq Stacks
      BY <1>6 DEF RecordEnvFile
    <2>3. told' \in [Stacks -> {"none", "success", "partial", "failed"}]
      BY <1>6, <1>a DEF RecordEnvFile
    <2> QED
      BY <2>1, <2>2, <2>3
  <1>7. ASSUME JobStep PROVE Rows'
    <2>1. UNCHANGED <<enabled, registered, linked, save, told, moves>>
      BY <1>7, JobLeaves
    <2>3. lost' \subseteq Stacks
      <3>1. CASE PullCLI
        BY <3>1, <1>e DEF PullCLI
      <3> QED
        BY <1>7, <3>1, JobLeaves
    <2>2. mine' \in BOOLEAN /\ theirs' \in BOOLEAN
      <3>1. CASE UNCHANGED repo
        BY <3>1 DEF repo
      <3>2. ASSUME PullCLI \/ CommitPaths \/ Push PROVE mine' \in BOOLEAN /\ theirs' \in BOOLEAN
        BY <3>2 DEF PullCLI, CommitPaths, Push, repo
      <3> QED
        BY <1>7, <3>1, <3>2, JobLeaves
    <2> QED
      BY <2>1, <2>2, <2>3
  <1>8. ASSUME NEW s \in Stacks, Rescan(s) PROVE Rows'
    BY <1>8 DEF Rescan, repo, saves
  <1>9. ASSUME NEW p, NEW c, Edit(p, c) \/ RemoteMoves(p, c) PROVE Rows'
    BY <1>9, <1>m, <1>e DEF Edit, RemoteMoves, repo, saves, rows
  <1>10. ASSUME SetPushEnabled \/ Restart PROVE Rows'
    BY <1>10, <1>m DEF SetPushEnabled, Restart, repo, rows, saves
  <1>11. ASSUME UNCHANGED vars PROVE Rows'
    BY <1>11 DEF vars, repo, rows, saves
  <1> HIDE DEF Rows
  <1>12. CASE SaveStep
    BY <1>1, <1>2, <1>3, <1>4, <1>5, <1>6, <1>12 DEF SaveStep
  <1>13. CASE OtherStep
    BY <1>8, <1>9, <1>10, <1>11, <1>13 DEF OtherStep
  <1> QED
    BY Steps, <1>7, <1>12, <1>13

-----------------------------------------------------------------------------
GitIInv == Files /\ SavesPlain /\ JobInv /\ HeadInv /\ Whole /\ Rows

LEMMA GitInit == Init => GitIInv
  <1> SUFFICES ASSUME Init PROVE GitIInv
    OBVIOUS
  <1>1. Files
    <2>1. disk \in [Paths -> UNION {Entries[p] : p \in Paths}] /\ \A p \in Paths : disk[p] \in Entries[p]
      BY DEF Init
    <2>2. disk \in Trees
      BY <2>1, PlainContents DEF Trees
    <2> QED
      BY <2>1, <2>2 DEF Init, Files, Linked
  <1>2. SavesPlain
    <2>1. NoSave \in SaveType /\ NoSave.env = Gone /\ NoSave.compose = Gone
      BY PlainContents DEF NoSave, SaveType, Plain
    <2> QED
      BY <2>1, PlainContents DEF Init, SavesPlain
  <1>3. JobInv /\ job.at = "idle" /\ job.kind = "none"
    BY DEF Init, NoJob, JobInv, Fields, StagesOf
  <1>4. HeadInv /\ Whole
    BY <1>3 DEF HeadInv, Whole, Working
  <1>5. Rows
    <2>1. moves \in 0 .. MaxMoves
      BY GitWorkAssumption DEF Init
    <2>2. told \in [Stacks -> {"none", "success", "partial", "failed"}]
      BY DEF Init
    <2>3. registered \subseteq Stacks /\ linked \subseteq Stacks /\ lost \subseteq Stacks
      BY DEF Init
    <2>4. mine \in BOOLEAN /\ theirs \in BOOLEAN /\ enabled \in BOOLEAN
      BY DEF Init
    <2> QED
      BY <2>1, <2>2, <2>3, <2>4 DEF Rows
  <1> QED
    BY <1>1, <1>2, <1>3, <1>4, <1>5 DEF GitIInv

LEMMA GitStep == GitIInv /\ [Next]_vars => GitIInv' /\ Truth
  <1> SUFFICES ASSUME GitIInv, [Next]_vars PROVE GitIInv' /\ Truth
    OBVIOUS
  <1> USE DEF GitIInv
  <1>1. Rows' /\ registered \subseteq Stacks
    BY RowsStep DEF Rows
  <1>2. CASE SaveStep
    <2>1. Files' /\ SavesPlain'
      BY <1>2, SavesKeepFiles DEF SaveStep
    <2> QED
      BY <1>1, <1>2, <2>1, SaveStepInv
  <1>3. CASE JobStep
    <2>1. Files' /\ UNCHANGED save
      BY <1>3, JobKeepsFiles
    <2>2. SavesPlain'
      BY <2>1 DEF SavesPlain
    <2> QED
      BY <1>1, <1>3, <2>1, <2>2, JobStepInv
  <1>4. CASE OtherStep
    BY <1>1, <1>4, OthersKeepFiles, OtherStepInv
  <1> QED
    BY <1>2, <1>3, <1>4, Steps

(* In every state git works on whole saves: while an operation holds the   *)
(* turns of the stacks it listed, none of them is in the middle of a save  *)
(* (lockStacks of git.go, the handlers of compose.go and env.go).          *)
THEOREM GitCorrect == Spec => []GitInv
  <1>1. GitIInv => GitInv
    <2> SUFFICES ASSUME GitIInv PROVE TypeOK /\ GitSeesWholeSaves
      BY DEF GitInv
    <2>1. job.locked \subseteq job.listed
      BY DEF GitIInv, JobInv
    <2>2. TypeOK
      BY <2>1 DEF GitIInv, Files, Linked, SavesPlain, SaveType, JobInv, Rows, TypeOK
    <2> QED
      BY <2>2 DEF GitIInv, Whole, GitSeesWholeSaves
  <1> QED
    BY GitInit, GitStep, <1>1, PTL DEF Spec

(* The answer of a commit says what happened to the branch and to the      *)
(* remote's (services/git_commit.go).                                      *)
THEOREM CommitAnswers == Spec => CommitTellsTheTruth
  <1>1. GitIInv /\ [Next]_vars
          => [(job.kind = "commit" /\ job'.at = "idle") =>
                /\ job'.answer = "failed" => head' = job.base
                /\ job'.answer = "partial" => head' # job.base
                /\ (job'.answer = "success" /\ job.flag) => up' = head']_vars
    BY GitStep DEF Truth
  <1> QED
    BY GitInit, GitStep, <1>1, PTL DEF Spec, CommitTellsTheTruth

-----------------------------------------------------------------------------
(* What a failed save leaves.  Until the env file is written, the files    *)
(* read what the save remembers; from then on the compose file does, or it *)
(* is the env file itself.  This is known of the saves that nobody misled. *)
OneFile(s) == Target(disk, Env[s]) = Target(disk, Compose[s])
Remembers(s) ==
  save[s].kind = "both" /\ save[s].at # "row" /\ s \notin lost =>
    /\ OneFile(s) => save[s].env = save[s].compose
    /\ save[s].at = "env" /\ Read(disk, Env[s]) = s => save[s].env = s
    /\ /\ save[s].at # "verify" /\ Read(disk, Compose[s]) = s
       /\ save[s].at = "env" \/ ~OneFile(s)
       => save[s].compose = s
SavesInv == \A s \in Stacks :
  Remembers(s) /\ (save[s].at = "idle" => save[s].kind = "none")

(* A content put in the place of a path cuts every way that crosses it.    *)
LEMMA CutHere ==
  ASSUME NEW t, Linked(t), NEW q \in Paths, NEW c \in Plain, NEW p \in Paths
  PROVE  Read([t EXCEPT ![q] = c], p) = IF q \in LinkDeps(t, p) THEN c ELSE Read(t, p)
  <1> DEFINE d == [t EXCEPT ![q] = c]
  <1>1. Linked(d)
    BY PutPlain
  <1>2. c \notin Paths /\ t \in [Paths -> Contents]
    BY DEF Plain, Linked, Trees
  <1>3. d[q] = c /\ \A r \in Paths : r # q => d[r] = t[r]
    BY <1>2
  <1> HIDE DEF d
  <1>4. CASE q \in LinkDeps(t, p)
    <2>1. q = p \/ (t[p] \in Paths /\ (q = t[p] \/ (t[t[p]] \in Paths /\ q = t[t[p]])))
      BY <1>4, Chain
    <2>2. q \in LinkDeps(d, p)
      BY <1>1, <1>3, <2>1, Chain
    <2>3. q = Target(d, p)
      BY <1>1, <1>2, <1>3, <2>2, OneEnd
    <2> QED
      BY <1>3, <1>4, <2>3 DEF Read, d
  <1>5. CASE q \notin LinkDeps(t, p)
    <2>1. \A r \in LinkDeps(t, p) : r \in Paths /\ r # q
      BY <1>5, Chain
    <2>2. \A r \in LinkDeps(t, p) : d[r] = t[r] \/ {d[r], t[r]} \cap Paths = {}
      BY <1>3, <2>1
    <2>3. Read(t, p) = t[Target(t, p)] /\ Read(d, p) = d[Target(t, p)]
      BY <1>1, <2>2, SameWay
    <2>4. Target(t, p) \in LinkDeps(t, p)
      BY LinksEnd
    <2> QED
      BY <1>3, <1>5, <2>1, <2>3, <2>4 DEF d
  <1> QED
    BY <1>4, <1>5

(* What the files read once the env file has been put back.                *)
LEMMA EnvBack ==
  ASSUME SavesPlain, NEW t, Linked(t), NEW s \in Stacks, save[s].kind = "both"
  PROVE  LET d == EnvRestored(t, s) IN
         /\ Read(d, Env[s]) = save[s].env
         /\ Read(d, Compose[s]) = s =>
              \/ save[s].env = s /\ Target(t, Env[s]) = Target(t, Compose[s])
              \/ Read(t, Compose[s]) = s
                   /\ (Target(t, Env[s]) # Target(t, Compose[s]) \/ save[s].env = Gone)
  <1>1. Env[s] \in Paths /\ Compose[s] \in Paths /\ s # Gone /\ save[s].env \in Plain
    BY GitWorkAssumption DEF SavesPlain
  <1>2. CASE save[s].env = Gone
    <2>1. EnvRestored(t, s) = [t EXCEPT ![Env[s]] = Gone]
      BY <1>2 DEF EnvRestored
    <2>2. Env[s] \in LinkDeps(t, Env[s])
      BY <1>1, Chain
    <2>3. \A p \in Paths : Read(EnvRestored(t, s), p) = IF Env[s] \in LinkDeps(t, p) THEN Gone ELSE Read(t, p)
      <3>1. Gone \in Plain
        BY PlainContents
      <3>2. \A p \in Paths : Read([t EXCEPT ![Env[s]] = Gone], p)
                                = IF Env[s] \in LinkDeps(t, p) THEN Gone ELSE Read(t, p)
        BY <1>1, <3>1, CutHere, Zenon
      <3> QED
        BY <2>1, <3>2, Zenon
    <2> QED
      BY <1>1, <1>2, <2>2, <2>3
  <1>3. CASE save[s].env # Gone
    <2>1. Target(t, Env[s]) \in Paths
      BY <1>1, LinksEnd
    <2>3. Puts(EnvRestored(t, s), t, Target(t, Env[s]), save[s].env)
      BY <1>1, <1>3, <2>1, PutIs DEF EnvRestored
    <2>2. \A q \in Paths : Read(EnvRestored(t, s), q) =
            IF Target(t, q) = Target(t, Env[s]) THEN save[s].env ELSE Read(t, q)
      BY <1>1, <2>3, WriteMovesNone
    <2> QED
      BY <1>1, <2>2
  <1> QED
    BY <1>2, <1>3

(* The saves that a step does not touch go on remembering.                 *)
LEMMA OthersRemember ==
  ASSUME Linked(disk), Linked(disk'), SavesInv, NEW S \in SUBSET Stacks,
         \A x \in S : save'[x] = save[x], lost \cap S \subseteq lost',
         \/ disk' = disk
         \/ \E f \in Paths, s \in Stacks \ S : Write(f, s)
         \/ Misled(disk') \cap S \subseteq lost'
  PROVE  \A x \in S : Remembers(x)' /\ (save'[x].at = "idle" => save'[x].kind = "none")
  <1> SUFFICES ASSUME NEW x \in S
               PROVE  Remembers(x)' /\ (save'[x].at = "idle" => save'[x].kind = "none")
    OBVIOUS
  <1>1. save'[x] = save[x] /\ Remembers(x) /\ (save[x].at = "idle" => save[x].kind = "none")
    BY DEF SavesInv
  <1>2. SUFFICES ASSUME save[x].kind = "both", save[x].at # "row", x \notin lost' PROVE Remembers(x)'
    BY <1>1 DEF Remembers
  <1>3. x \in Stacks /\ x \notin lost /\ save[x].at # "idle"
    BY <1>1, <1>2
  <1>4. StackLinkDeps(disk, x) \subseteq Paths
    BY <1>3, GitWorkAssumption, Chain DEF StackLinkDeps
  <1>5. ~LinksMoved(disk', x) /\ \A p \in StackLinkDeps(disk, x) : disk'[p] = x => disk[p] = x
    <2>1. CASE disk' = disk
      BY <2>1 DEF LinksMoved
    <2>2. CASE \E f \in Paths, s \in Stacks \ S : Write(f, s)
      <3>1. PICK f \in Paths, s \in Stacks \ S : disk' = [disk EXCEPT ![Target(disk, f)] = s]
        BY <2>2 DEF Write
      <3>5. s \in Plain /\ Target(disk, f) \in Paths
        BY PlainContents, LinksEnd
      <3>6. Puts(disk', disk, Target(disk, f), s)
        BY <3>1, <3>5, PutIs
      <3>2. /\ \A q \in Paths : disk'[q] = disk[q] \/ {disk'[q], disk[q]} \cap Paths = {}
        BY <3>5, <3>6, WriteMovesNone
      <3>3. \A q \in Paths : disk'[q] = disk[q] \/ disk'[q] = s
        BY <3>1 DEF Linked, Trees
      <3>4. s # x
        BY <3>1
      <3> QED
        BY <1>4, <3>2, <3>3, <3>4 DEF LinksMoved
    <2>3. CASE Misled(disk') \cap S \subseteq lost'
      BY <1>2, <1>3, <2>3 DEF Misled
    <2> QED
      BY <2>1, <2>2, <2>3
  <1>6. \A p \in {Env[x], Compose[x]} :
          /\ Target(disk', p) = Target(disk, p)
          /\ Read(disk', p) = x => Read(disk, p) = x
    BY <1>3, <1>5, NotMoved
  <1> QED
    BY <1>1, <1>2, <1>3, <1>6 DEF Remembers, OneFile

(* What a save of both files that answers failed leaves.                   *)
NothingLeft(s) ==
  (save[s].kind = "both" /\ save'[s].at = "idle" /\ told'[s] = "failed") =>
    \/ s \in lost'
    \/ /\ Read(disk', Env[s]) = s => save[s].env = s
       /\ Read(disk', Compose[s]) = s => save[s].compose \in {s, Gone}

(* A rollback from the tree t: the env file is put back, or the save is    *)
(* lost.                                                                   *)
LEMMA RollbackLeavesNothing ==
  ASSUME SavesPlain, NEW t, Linked(t), NEW s \in Stacks, RestoreEnv(t, s),
         (save[s].kind = "both" /\ s \notin lost) =>
           /\ Target(t, Env[s]) = Target(t, Compose[s]) => save[s].env = save[s].compose
           /\ (Read(t, Compose[s]) = s /\ Target(t, Env[s]) # Target(t, Compose[s]))
                => save[s].compose \in {s, Gone}
  PROVE  NothingLeft(s)
  <1> SUFFICES ASSUME save[s].kind = "both", s \notin lost'
               PROVE  /\ Read(disk', Env[s]) = s => save[s].env = s
                      /\ Read(disk', Compose[s]) = s => save[s].compose \in {s, Gone}
    BY DEF NothingLeft
  <1>1. s \notin lost /\ disk' = EnvRestored(t, s)
    BY DEF RestoreEnv
  <1>2. /\ Read(disk', Env[s]) = save[s].env
        /\ Read(disk', Compose[s]) = s =>
              \/ save[s].env = s /\ Target(t, Env[s]) = Target(t, Compose[s])
              \/ Read(t, Compose[s]) = s
                   /\ (Target(t, Env[s]) # Target(t, Compose[s]) \/ save[s].env = Gone)
    BY <1>1, EnvBack
  <1> QED
    BY <1>1, <1>2

(* Every step of a save keeps what the saves remember.                     *)
LEMMA SavesRemember ==
  ASSUME Linked(disk), Linked(disk'), SavesPlain, Rows, SavesInv, SaveStep
  PROVE  SavesInv' /\ \A s \in Stacks : NothingLeft(s)
  <1>1. PICK s \in Stacks :
          \/ \E k \in {"compose", "env", "both"} : SaveBegins(s, k)
          \/ WriteEnv(s) \/ VerifyEnv(s) \/ WriteCompose(s) \/ VerifyCompose(s) \/ RecordEnvFile(s)
    BY DEF SaveStep
  <1>a. /\ Env[s] \in Paths /\ Compose[s] \in Paths /\ s \in Plain /\ save[s] \in SaveType
        /\ save[s].compose \in Plain /\ Remembers(s)
    BY GitWorkAssumption, PlainContents DEF SavesPlain, SavesInv
  <1>b. save \in [Stacks -> SaveType] /\ told \in [Stacks -> {"none", "success", "partial", "failed"}]
    BY DEF SavesPlain, Rows
  <1> DEFINE Mine == Remembers(s)' /\ NothingLeft(s) /\ (save'[s].at = "idle" => save'[s].kind = "none")
             Written == Write(Env[s], s) \/ Write(Compose[s], s)
             Others == /\ \A x \in Stacks \ {s} : save'[x] = save[x]
                       /\ lost \cap (Stacks \ {s}) \subseteq lost'
                       /\ \/ disk' = disk \/ Written
                          \/ Misled(disk') \cap (Stacks \ {s}) \subseteq lost'
  <1>c. ASSUME NEW a, Answer(s, a)
        PROVE  /\ Remembers(s)' /\ save'[s].kind = "none" /\ told'[s] = a
               /\ \A x \in Stacks \ {s} : save'[x] = save[x]
    <2>1. save'[s] = NoSave /\ told'[s] = a /\ \A x \in Stacks \ {s} : save'[x] = save[x]
      BY <1>b, <1>c DEF Answer
    <2> QED
      BY <2>1 DEF NoSave, Remembers
  <1>d. ASSUME NEW at \in {"read", "compose", "verify", "row"}, At(s, at)
        PROVE  /\ NothingLeft(s) /\ lost' = lost /\ save'[s].at = at /\ save'[s].kind = save[s].kind
               /\ save'[s].env = save[s].env /\ save'[s].compose = save[s].compose
               /\ \A x \in Stacks \ {s} : save'[x] = save[x]
    BY <1>a, <1>b, <1>d DEF At, SaveType, NothingLeft
  <1>r. ASSUME NEW t, RestoreEnv(t, s) PROVE Misled(disk') \cap (Stacks \ {s}) \subseteq lost' /\ lost \subseteq lost'
    BY <1>r DEF RestoreEnv
  <1>w. ASSUME NEW p \in {Env[s], Compose[s]}, Write(p, s)
        PROVE  /\ OneFile(s)' <=> OneFile(s)
               /\ Target(disk, Compose[s]) # Target(disk, p) => Read(disk', Compose[s]) = Read(disk, Compose[s])
    <2>1. p \in Paths /\ Target(disk, p) \in Paths
      BY <1>a, LinksEnd
    <2>2. Puts(disk', disk, Target(disk, p), s)
      BY <1>a, <1>w, <2>1, PutIs DEF Write
    <2>3. /\ \A q \in Paths : Target(disk', q) = Target(disk, q)
          /\ \A q \in Paths : Read(disk', q) = IF Target(disk, q) = Target(disk, p) THEN s ELSE Read(disk, q)
      BY <1>a, <2>1, <2>2, WriteMovesNone
    <2> QED
      BY <1>a, <2>3 DEF OneFile
  <1>e. ASSUME NEW at \in {"read", "compose", "verify", "row"}, At(s, at), Remembers(s)', disk' = disk \/ Written
        PROVE  Mine /\ Others
    BY <1>d, <1>e
  <1>f. ASSUME NEW a, Answer(s, a), NothingLeft(s),
               (lost' = lost /\ disk' = disk) \/ \E t : RestoreEnv(t, s)
        PROVE  Mine /\ Others
    BY <1>c, <1>f, <1>r
  <1>2. ASSUME NEW k \in {"compose", "env", "both"}, SaveBegins(s, k) PROVE Mine /\ Others
    <2> DEFINE new == [at |-> IF k = "compose" THEN "compose" ELSE "env", kind |-> k,
                       env |-> Read(disk, Env[s]), compose |-> Read(disk, Compose[s])]
    <2>1. /\ save' = [save EXCEPT ![s] = new] /\ disk' = disk /\ lost' = lost \ {s}
      BY <1>2 DEF SaveBegins
    <2>2. /\ new.kind = k /\ new.at = (IF k = "compose" THEN "compose" ELSE "env")
          /\ new.env = Read(disk, Env[s]) /\ new.compose = Read(disk, Compose[s])
      OBVIOUS
    <2> HIDE DEF new
    <2>3. save'[s] = new /\ \A x \in Stacks \ {s} : save'[x] = save[x]
      BY <1>b, <2>1
    <2>4. OneFile(s) => Read(disk, Env[s]) = Read(disk, Compose[s])
      BY DEF OneFile, Read
    <2>5. Mine
      BY <2>1, <2>2, <2>3, <2>4 DEF Remembers, OneFile, NothingLeft
    <2> QED
      BY <2>1, <2>3, <2>5
  <1> HIDE DEF Mine, Others
  <1>3. ASSUME WriteEnv(s) PROVE Mine /\ Others
    <2>1. save[s].at = "env"
      BY <1>3 DEF WriteEnv
    <2>2. CASE Write(Env[s], s) /\ At(s, "read")
      <3>1. Remembers(s)'
        BY <1>a, <1>d, <1>w, <2>1, <2>2 DEF Remembers, OneFile
      <3> QED
        BY <1>e, <2>2, <3>1
    <2>3. CASE Answer(s, "failed") /\ UNCHANGED <<disk, lost, job>>
      <3>1. NothingLeft(s)
        BY <1>a, <2>1, <2>3 DEF NothingLeft, Remembers
      <3> QED
        BY <1>f, <2>3, <3>1
    <2> QED
      BY <1>3, <2>2, <2>3 DEF WriteEnv
  <1>4. ASSUME VerifyEnv(s) PROVE Mine /\ Others
    <2>1. save[s].at = "read"
      BY <1>4 DEF VerifyEnv
    <2>2. CASE At(s, IF save[s].kind = "both" THEN "compose" ELSE "row") /\ UNCHANGED disk
      <3>1. Remembers(s)'
        BY <1>a, <1>d, <2>1, <2>2 DEF Remembers, OneFile
      <3> QED
        BY <1>e, <2>2, <3>1
    <2>3. CASE RestoreEnv(disk, s) /\ Answer(s, "failed")
      <3>1. NothingLeft(s)
        BY <1>a, <2>1, <2>3, RollbackLeavesNothing DEF Remembers, OneFile
      <3> QED
        BY <1>f, <2>3, <3>1
    <2> QED
      BY <1>4, <2>2, <2>3 DEF VerifyEnv
  <1>5. ASSUME WriteCompose(s) PROVE Mine /\ Others
    <2>1. save[s].at = "compose"
      BY <1>5 DEF WriteCompose
    <2>2. CASE Write(Compose[s], s) /\ (At(s, "verify") \/ At(s, "row"))
      <3>1. Remembers(s)'
        BY <1>a, <1>d, <1>w, <2>1, <2>2 DEF Remembers
      <3> QED
        BY <1>e, <2>2, <3>1
    <2>3. CASE RestoreEnv(disk, s) /\ Answer(s, "failed")
      <3>1. NothingLeft(s)
        BY <1>a, <2>1, <2>3, RollbackLeavesNothing DEF Remembers, OneFile
      <3> QED
        BY <1>f, <2>3, <3>1
    <2> QED
      BY <1>5, <2>2, <2>3 DEF WriteCompose
  <1>6. ASSUME VerifyCompose(s) PROVE Mine /\ Others
    <2>1. save[s].at = "verify"
      BY <1>6 DEF VerifyCompose
    <2>2. CASE At(s, "row") /\ UNCHANGED disk
      <3>1. Remembers(s)'
        BY <1>d, <2>2 DEF Remembers
      <3> QED
        BY <1>e, <2>2, <3>1
    <2>3. CASE RestoreEnv(disk, s) /\ Answer(s, "partial")
      <3>1. NothingLeft(s)
        BY <1>c, <2>3 DEF NothingLeft
      <3> QED
        BY <1>f, <2>3, <3>1
    <2>4. CASE RestoreEnv(ComposeRestored(s), s) /\ Answer(s, "failed")
      <3>1. CASE save[s].compose = Gone
        <4>1. ComposeRestored(s) = disk
          BY <3>1 DEF ComposeRestored
        <4>2. NothingLeft(s)
          BY <1>a, <2>1, <2>4, <3>1, <4>1, RollbackLeavesNothing DEF Remembers, OneFile
        <4> QED
          BY <4>2, <1>f, <2>4
      <3>2. CASE save[s].compose # Gone
        <4> DEFINE t == ComposeRestored(s)
        <4>1. t = [disk EXCEPT ![Target(disk, Compose[s])] = save[s].compose]
          BY <3>2 DEF ComposeRestored
        <4> HIDE DEF t
        <4>6. Target(disk, Compose[s]) \in Paths
          BY <1>a, LinksEnd
        <4>7. Puts(t, disk, Target(disk, Compose[s]), save[s].compose)
          BY <1>a, <4>1, <4>6, PutIs
        <4>8. Linked(t)
          BY <4>7 DEF Puts
        <4>2. /\ Linked(t) /\ \A q \in Paths : Target(t, q) = Target(disk, q)
              /\ \A q \in Paths : Read(t, q) = IF Target(disk, q) = Target(disk, Compose[s])
                                               THEN save[s].compose ELSE Read(disk, q)
          BY <1>a, <4>7, <4>8, WriteMovesNone
        <4>3. Read(t, Compose[s]) = save[s].compose
          BY <1>a, <4>2
        <4>4. RestoreEnv(t, s)
          BY <2>4 DEF t
        <4>5. NothingLeft(s)
          BY <1>a, <2>1, <4>2, <4>3, <4>4, RollbackLeavesNothing DEF Remembers, OneFile
        <4> QED
          BY <1>f, <2>4, <4>5
      <3> QED
        BY <3>1, <3>2
    <2> QED
      BY <1>6, <2>2, <2>3, <2>4 DEF VerifyCompose
  <1>7. ASSUME RecordEnvFile(s) PROVE Mine /\ Others
    <2>1. (Answer(s, "success") \/ Answer(s, "partial")) /\ disk' = disk /\ lost' = lost
      BY <1>7 DEF RecordEnvFile
    <2>2. NothingLeft(s)
      BY <1>c, <2>1 DEF NothingLeft
    <2> QED
      BY <1>f, <2>1, <2>2
  <1>8. Mine /\ Others
    BY <1>1, <1>2, <1>3, <1>4, <1>5, <1>6, <1>7
  <1>9. \A x \in Stacks \ {s} : Remembers(x)' /\ (save'[x].at = "idle" => save'[x].kind = "none")
    <2>1. Written => \E f \in Paths, y \in Stacks \ (Stacks \ {s}) : Write(f, y)
      BY <1>a
    <2> QED
      BY <1>8, <2>1, OthersRemember DEF Others
  <1>10. ASSUME NEW x \in Stacks \ {s} PROVE NothingLeft(x)
    BY <1>8, <1>10 DEF SavesInv, NothingLeft, Others
  <1> QED
    BY <1>8, <1>9, <1>10 DEF SavesInv, Mine

(* The other steps touch no save, or end them all.                         *)
LEMMA OtherStepsRemember ==
  ASSUME Linked(disk), Linked(disk'), SavesInv, JobStep \/ OtherStep
  PROVE  SavesInv' /\ \A s \in Stacks : NothingLeft(s)
  <1>1. CASE save' = save /\ lost \subseteq lost' /\ (disk' = disk \/ Misled(disk') \subseteq lost')
    <2>1. \A x \in Stacks : Remembers(x)' /\ (save'[x].at = "idle" => save'[x].kind = "none")
      BY <1>1, OthersRemember
    <2> QED
      BY <1>1, <2>1 DEF SavesInv, NothingLeft
  <1>2. CASE PullCLI
    <2>1. save' = save /\ lost \subseteq lost' /\ (disk' = disk \/ Misled(disk') \subseteq lost')
      BY <1>2 DEF PullCLI
    <2> QED
      BY <1>1, <2>1
  <1>3. CASE JobStep /\ ~PullCLI
    <2>1. save' = save /\ lost' = lost /\ disk' = disk
      BY <1>3, JobLeaves DEF CommitPaths, Push
    <2> QED
      BY <1>1, <2>1
  <1>4. CASE Restart
    <2>1. \A s \in Stacks : save'[s] = NoSave /\ told'[s] = "none"
      BY <1>4 DEF Restart
    <2> QED
      BY <2>1 DEF SavesInv, NothingLeft, Remembers, NoSave
  <1>5. ASSUME NEW p, NEW c, Edit(p, c)
        PROVE  save' = save /\ lost \subseteq lost' /\ (disk' = disk \/ Misled(disk') \subseteq lost')
    BY <1>5 DEF Edit
  <1>6. ASSUME NEW p, NEW c, RemoteMoves(p, c) PROVE save' = save /\ lost' = lost /\ disk' = disk
    BY <1>6 DEF RemoteMoves, saves
  <1>7. ASSUME NEW s, Rescan(s) PROVE save' = save /\ lost' = lost /\ disk' = disk
    BY <1>7 DEF Rescan, saves
  <1>8. CASE SetPushEnabled \/ UNCHANGED vars
    BY <1>1, <1>8 DEF SetPushEnabled, saves, vars
  <1> QED
    BY <1>1, <1>2, <1>3, <1>4, <1>5, <1>6, <1>7, <1>8 DEF OtherStep

(* A pull's hits: each is a stack taken, whose links cross a path that     *)
(* came in; by the end each is named, redeployed, to do, or a fault.       *)
HitsInv ==
  job.kind = "pull" /\ job.at \in {"siblings", "redeploy"} =>
    /\ job.hit \subseteq job.locked
    /\ \A s \in job.hit : StackLinkDeps(disk, s) \cap job.files # {}
    /\ job.at = "redeploy" /\ ~job.faults =>
         /\ job.hit \ Own \subseteq job.named
         /\ job.flag => job.hit \cap Own \subseteq job.todo \cup job.redone

TellsAll ==
  (job.kind = "pull" /\ job'.at = "idle" /\ job'.answer = "success") =>
    /\ job.hit \ Own \subseteq job.named
    /\ job.flag => job.hit \cap Own \subseteq job.redone

(* A write through the links of a path moves none of them.                 *)
LEMMA WriteKeepsLinks ==
  ASSUME Linked(disk), NEW f \in Paths, NEW s \in Stacks, Write(f, s)
  PROVE  \A x \in Stacks : ~LinksMoved(disk', x)
  <1>1. s \in Plain /\ Target(disk, f) \in Paths
    BY PlainContents, LinksEnd
  <1>2. Puts(disk', disk, Target(disk, f), s)
    BY <1>1, PutIs DEF Write
  <1>3. \A q \in Paths : disk'[q] = disk[q] \/ {disk'[q], disk[q]} \cap Paths = {}
    BY <1>1, <1>2, WriteMovesNone
  <1>4. \A x \in Stacks : StackLinkDeps(disk, x) \subseteq Paths
    BY GitWorkAssumption, Chain DEF StackLinkDeps
  <1> QED
    BY <1>3, <1>4 DEF LinksMoved

(* A step of others keeps the links of the hits that stay.                 *)
LEMMA HitsStay ==
  ASSUME Linked(disk), Linked(disk'), JobInv, HitsInv,
         \/ job' = job /\ \A s \in Stacks : ~LinksMoved(disk', s)
         \/ job' = HitsOf(disk')
  PROVE  HitsInv' /\ TellsAll
  <1>1. /\ job'.at = job.at /\ job'.kind = job.kind /\ job'.locked = job.locked
        /\ job'.named = job.named /\ job'.redone = job.redone /\ job'.todo = job.todo
        /\ job'.flag = job.flag /\ job'.files = job.files /\ job'.faults = job.faults
    BY HitsLeave
  <1>2. TellsAll
    BY <1>1 DEF TellsAll, JobInv, StagesOf
  <1>3. ASSUME job.kind = "pull", job.at \in {"siblings", "redeploy"} PROVE HitsInv'
    <2>1. job.hit \subseteq Stacks
      BY <1>3 DEF HitsInv, JobInv
    <2>2. job'.hit \subseteq job.hit /\ \A s \in job'.hit : ~LinksMoved(disk', s)
      <3>1. CASE job' = job /\ \A s \in Stacks : ~LinksMoved(disk', s)
        BY <2>1, <3>1
      <3>2. CASE job' = HitsOf(disk')
        <4>1. job'.hit = {s \in job.hit : ~LinksMoved(disk', s)}
          BY <3>2 DEF HitsOf, JobInv, Fields
        <4> QED
          BY <4>1
      <3> QED
        BY <3>1, <3>2
    <2>3. \A s \in job'.hit : StackLinkDeps(disk', s) = StackLinkDeps(disk, s)
      BY <2>1, <2>2, DepsStay
    <2> QED
      BY <1>1, <1>3, <2>2, <2>3 DEF HitsInv
  <1> QED
    BY <1>1, <1>2, <1>3 DEF HitsInv

LEMMA SavesKeepHits ==
  ASSUME Linked(disk), Linked(disk'), JobInv, HitsInv, SaveStep
  PROVE  HitsInv' /\ TellsAll
  <1>1. PICK s \in Stacks :
          \/ \E k \in {"compose", "env", "both"} : SaveBegins(s, k)
          \/ WriteEnv(s) \/ VerifyEnv(s) \/ WriteCompose(s) \/ VerifyCompose(s) \/ RecordEnvFile(s)
    BY DEF SaveStep
  <1> DEFINE Wrote == \E f \in Paths : Write(f, s)
             Kept == (job' = job /\ (disk' = disk \/ Wrote)) \/ job' = HitsOf(disk')
  <1>p. Env[s] \in Paths /\ Compose[s] \in Paths
    BY GitWorkAssumption
  <1>2. Kept
    <2>1. ASSUME NEW k, SaveBegins(s, k) PROVE Kept
      BY <2>1 DEF SaveBegins
    <2>2. CASE WriteEnv(s) \/ RecordEnvFile(s)
      BY <1>p, <2>2 DEF WriteEnv, RecordEnvFile, At
    <2>3. CASE VerifyEnv(s) \/ WriteCompose(s)
      BY <1>p, <2>3 DEF VerifyEnv, WriteCompose, At, RestoreEnv
    <2>4. CASE VerifyCompose(s)
      BY <2>4 DEF VerifyCompose, At, RestoreEnv
    <2> QED
      BY <1>1, <2>1, <2>2, <2>3, <2>4
  <1>3. Wrote => \A x \in Stacks : ~LinksMoved(disk', x)
    BY WriteKeepsLinks
  <1>4. disk' = disk => \A x \in Stacks : ~LinksMoved(disk', x)
    BY DEF LinksMoved
  <1> QED
    BY <1>2, <1>3, <1>4, HitsStay

LEMMA OthersKeepHits ==
  ASSUME Linked(disk), Linked(disk'), JobInv, HitsInv, OtherStep
  PROVE  HitsInv' /\ TellsAll
  <1>1. CASE Restart
    BY <1>1 DEF Restart, NoJob, HitsInv, TellsAll
  <1>2. ASSUME NEW p, NEW c, Edit(p, c) PROVE job' = HitsOf(disk')
    BY <1>2 DEF Edit
  <1>3. ASSUME NEW p, NEW c, RemoteMoves(p, c) PROVE UNCHANGED <<job, disk>>
    BY <1>3 DEF RemoteMoves
  <1>4. ASSUME NEW s, Rescan(s) PROVE UNCHANGED <<job, disk>>
    BY <1>4 DEF Rescan
  <1>5. SetPushEnabled \/ UNCHANGED vars => UNCHANGED <<job, disk>>
    BY DEF SetPushEnabled, vars
  <1>6. UNCHANGED <<job, disk>> => \A x \in Stacks : ~LinksMoved(disk', x)
    BY DEF LinksMoved
  <1> QED
    BY <1>1, <1>2, <1>3, <1>4, <1>5, <1>6, HitsStay DEF OtherStep

(* A stack that reads anything new after a merge has a link or a file      *)
(* among what came in.                                                     *)
LEMMA HitCrossesIncoming ==
  ASSUME Linked(disk), Linked(disk'), NEW s \in Stacks, NEW I \in SUBSET Paths,
         \A p \in Paths \ I : disk'[p] = disk[p],
         StackLinkDeps(disk', s) \cap I = {}
  PROVE  Reads(disk, s) = Reads(disk', s)
  <1> SUFFICES ASSUME NEW p \in {Compose[s], Env[s]} PROVE Read(disk, p) = Read(disk', p)
    BY DEF Reads
  <1>1. p \in Paths
    BY GitWorkAssumption
  <1>2. LinkDeps(disk', p) \subseteq Paths \ I
    BY <1>1, Chain DEF StackLinkDeps
  <1>3. Target(disk', p) \in LinkDeps(disk', p)
    BY <1>1, LinksEnd
  <1>4. Read(disk', p) = disk'[Target(disk', p)] /\ Read(disk, p) = disk[Target(disk', p)]
    BY <1>1, <1>2, SameWay
  <1> QED
    BY <1>2, <1>3, <1>4

(* The operation's own steps: a pull names or redeploys what it hit.       *)
LEMMA JobKeepsHits ==
  ASSUME Files, Linked(disk'), JobInv, HitsInv, JobStep
  PROVE  HitsInv' /\ TellsAll
  <1> DEFINE G == HitsInv' /\ TellsAll
  <1>a. ASSUME NEW a, End(a), a # "success" \/ job.kind # "pull" PROVE G
    BY <1>a DEF End, NoJob, HitsInv, TellsAll
  <1>b. ASSUME job'.at \notin {"idle", "siblings", "redeploy"} PROVE G
    BY <1>b DEF HitsInv, TellsAll
  <1>c. ASSUME job.kind # "pull", job'.kind = job.kind PROVE G
    BY <1>c DEF HitsInv, TellsAll
  <1>1. ASSUME NEW k, NEW flag, GitBegins(k, flag) PROVE G
    <2>1. job'.at = "list"
      BY <1>1 DEF GitBegins, NoJob
    <2> QED
      BY <1>b, <2>1
  <1>2. ASSUME ListStacks \/ CheckClean PROVE G
    <2>1. job'.at \in {"lock", "pull"}
      BY <1>2 DEF ListStacks, CheckClean, JobInv, Fields
    <2> QED
      BY <1>b, <2>1
  <1>3. ASSUME LockStacks PROVE G
    <2> DEFINE at == CASE job.kind = "pull" -> "clean" [] job.kind = "commit" -> "select" [] OTHER -> "pre"
               links == [s \in job.locked |-> StackLinkDeps(disk, s)]
    <2>2. job' = [job EXCEPT !.at = at, !.links = links] \/ End("failed")
      BY <1>3 DEF LockStacks
    <2>3. at \in {"clean", "select", "pre"}
      OBVIOUS
    <2> HIDE DEF at, links
    <2>1. End("failed") \/ job'.at \in {"clean", "select", "pre"}
      BY <2>2, <2>3 DEF JobInv, Fields
    <2> QED
      BY <1>a, <1>b, <2>1
  <1>4. ASSUME GitFails PROVE G
    BY <1>4, <1>a DEF GitFails
  <1>5. ASSUME PullCLI PROVE G
    <2>1. CASE End("no_change") \/ End("failed") \/ End("partial")
      BY <1>a, <2>1
    <2>2. CASE /\ disk' = [p \in Paths |-> IF p \in Incoming THEN up[p] ELSE disk[p]]
               /\ job' = [job EXCEPT !.at = "siblings", !.files = Incoming,
                                     !.hit = {s \in job.locked : Reads(disk, s) # Reads(disk', s)}]
      <3>1. /\ job'.at = "siblings" /\ job'.files = Incoming /\ job'.locked = job.locked
            /\ job'.hit = {s \in job.locked : Reads(disk, s) # Reads(disk', s)}
        BY <2>2 DEF JobInv, Fields
      <3>2. job.locked \subseteq Stacks
        BY <1>5 DEF JobInv, PullCLI
      <3>3. Incoming \subseteq Paths /\ \A p \in Paths \ Incoming : disk'[p] = disk[p]
        BY <2>2 DEF Incoming
      <3>4. \A s \in job'.hit : StackLinkDeps(disk', s) \cap Incoming # {}
        <4> SUFFICES ASSUME NEW s \in job'.hit, StackLinkDeps(disk', s) \cap Incoming = {} PROVE FALSE
          OBVIOUS
        <4>1. s \in Stacks /\ Reads(disk, s) # Reads(disk', s)
          BY <3>1, <3>2
        <4>2. Linked(disk)
          BY DEF Files
        <4> QED
          BY <3>3, <4>1, <4>2, HitCrossesIncoming
      <3> QED
        BY <3>1, <3>4 DEF HitsInv, TellsAll
    <2> QED
      BY <1>5, <2>1, <2>2 DEF PullCLI
  <1>6. ASSUME NameSiblings PROVE G
    <2>1. PICK unknown \in SUBSET (job.locked \ Own) :
            job' = [job EXCEPT !.named = {s \in job.locked \ (Own \cup unknown) : FilesChanged(s)},
                               !.faults = unknown # {},
                               !.todo = IF job.flag THEN job.locked \cap Own ELSE {},
                               !.at = "redeploy"]
      BY <1>6 DEF NameSiblings
    <2>2. /\ job'.at = "redeploy" /\ job'.kind = job.kind /\ job'.hit = job.hit /\ job'.locked = job.locked
          /\ job'.files = job.files /\ job'.flag = job.flag
          /\ job'.named = {s \in job.locked \ (Own \cup unknown) : FilesChanged(s)}
          /\ job'.faults = (unknown # {})
          /\ job'.todo = (IF job.flag THEN job.locked \cap Own ELSE {})
      BY <2>1 DEF JobInv, Fields
    <2>3. disk' = disk /\ job.at = "siblings"
      BY <1>6 DEF NameSiblings
    <2>4. SUFFICES ASSUME job.kind = "pull" PROVE G
      BY <1>c, <2>2
    <2>5. job.hit \subseteq job.locked /\ \A s \in job.hit : StackLinkDeps(disk, s) \cap job.files # {}
      BY <2>3, <2>4 DEF HitsInv
    <2>6. \A s \in job.hit : FilesChanged(s)
      BY <2>5 DEF FilesChanged
    <2>7. unknown = {} => job.hit \ Own \subseteq job'.named
      BY <2>2, <2>5, <2>6
    <2>8. job.flag => job.hit \cap Own \subseteq job'.todo
      BY <2>2, <2>5
    <2>9. HitsInv'
      BY <2>2, <2>3, <2>5, <2>7, <2>8 DEF HitsInv
    <2>10. TellsAll
      BY <2>2 DEF TellsAll
    <2> QED
      BY <2>9, <2>10
  <1>7. ASSUME NEW s, Redeploy(s) PROVE G
    <2>1. /\ job'.at = job.at /\ job'.kind = job.kind /\ job'.hit = job.hit /\ job'.locked = job.locked
          /\ job'.files = job.files /\ job'.flag = job.flag /\ job'.named = job.named
          /\ job'.todo = job.todo \ {s}
          /\ \/ job'.faults = job.faults /\ job'.redone = IF FilesChanged(s) THEN job.redone \cup {s} ELSE job.redone
             \/ job'.faults = TRUE
          /\ disk' = disk
      BY <1>7 DEF Redeploy, JobInv, Fields
    <2>2. TellsAll
      BY <2>1 DEF TellsAll, JobInv, StagesOf
    <2>3. ASSUME job.kind = "pull", job.at \in {"siblings", "redeploy"} PROVE HitsInv'
      <3>1. s \in job.hit => FilesChanged(s)
        BY <2>3 DEF HitsInv, FilesChanged
      <3> QED
        BY <2>1, <2>3, <3>1 DEF HitsInv
    <2>4. CASE ~(job.kind = "pull" /\ job.at \in {"siblings", "redeploy"})
      BY <2>1, <2>2, <2>4 DEF HitsInv
    <2> QED
      BY <2>2, <2>3, <2>4
  <1>8. ASSUME PullEnds PROVE G
    <2>1. job.at = "redeploy" /\ job.todo = {} /\ job' = [NoJob EXCEPT !.answer = IF job.faults THEN "partial" ELSE "success"]
      BY <1>8 DEF PullEnds, End
    <2>2. job'.kind = "none" /\ job'.answer = (IF job.faults THEN "partial" ELSE "success")
      BY <2>1 DEF NoJob
    <2> QED
      BY <2>1, <2>2 DEF HitsInv, TellsAll
  <1>9. ASSUME NEW files, NEW confirmed, SelectCommitPaths(files, confirmed) PROVE G
    <2>1. End("failed") \/ (job.kind = "commit" /\ job'.kind = job.kind)
      BY <1>9 DEF SelectCommitPaths, JobInv, Fields, StagesOf
    <2> QED
      BY <1>a, <1>c, <2>1
  <1>10. ASSUME PushPreconditions PROVE G
    <2>1. job.kind \in {"commit", "push"} /\ job'.kind = job.kind
      BY <1>10 DEF PushPreconditions, JobInv, Fields, StagesOf
    <2> QED
      BY <1>c, <2>1
  <1>11. ASSUME CommitPaths PROVE G
    <2>1. job.kind # "pull" /\ (job'.kind = job.kind \/ End("success"))
      BY <1>11 DEF CommitPaths, JobInv, Fields, StagesOf
    <2> QED
      BY <1>a, <1>c, <2>1
  <1>12. ASSUME Push PROVE G
    <2>1. job.kind # "pull" /\ \E a : End(a)
      BY <1>12 DEF Push, JobInv, StagesOf
    <2> QED
      BY <1>a, <2>1
  <1> QED
    BY <1>1, <1>2, <1>3, <1>4, <1>5, <1>6, <1>7, <1>8, <1>9, <1>10, <1>11, <1>12 DEF JobStep

-----------------------------------------------------------------------------
(* The invariant that both promises need.                                  *)
WorkInv == GitIInv /\ SavesInv /\ HitsInv

LEMMA WorkInit == Init => WorkInv
  <1> SUFFICES ASSUME Init PROVE SavesInv /\ HitsInv
    BY GitInit DEF WorkInv
  <1>1. HitsInv
    BY DEF Init, NoJob, HitsInv
  <1>2. \A s \in Stacks : save[s] = NoSave
    BY DEF Init
  <1> QED
    BY <1>1, <1>2 DEF SavesInv, Remembers, NoSave

LEMMA WorkStep == WorkInv /\ [Next]_vars => WorkInv' /\ TellsAll /\ \A s \in Stacks : NothingLeft(s)
  <1> SUFFICES ASSUME WorkInv, [Next]_vars
               PROVE  WorkInv' /\ TellsAll /\ \A s \in Stacks : NothingLeft(s)
    OBVIOUS
  <1>1. GitIInv /\ SavesInv /\ HitsInv /\ GitIInv'
    BY GitStep DEF WorkInv
  <1>2. Files /\ Linked(disk) /\ Linked(disk') /\ SavesPlain /\ JobInv /\ Rows
    BY <1>1 DEF GitIInv, Files
  <1>3. CASE SaveStep
    BY <1>1, <1>2, <1>3, SavesRemember, SavesKeepHits DEF WorkInv
  <1>4. CASE JobStep
    BY <1>1, <1>2, <1>4, OtherStepsRemember, JobKeepsHits DEF WorkInv
  <1>5. CASE OtherStep
    BY <1>1, <1>2, <1>5, OtherStepsRemember, OthersKeepHits DEF WorkInv
  <1> QED
    BY <1>3, <1>4, <1>5, Steps

(* A pull that answers success has named or redeployed every stack whose   *)
(* files it changed, through whatever links (PullVerified and              *)
(* siblingPlacement.changed of services/git.go).                           *)
THEOREM PullTells == Spec => PullTellsAll
  <1>1. WorkInv /\ [Next]_vars
          => [(job.kind = "pull" /\ job'.at = "idle" /\ job'.answer = "success") =>
                /\ job.hit \ Own \subseteq job.named
                /\ job.flag => job.hit \cap Own \subseteq job.redone]_vars
    BY WorkStep DEF TellsAll
  <1> QED
    BY WorkInit, WorkStep, <1>1, PTL DEF Spec, PullTellsAll

(* A save of both files that answers failed leaves neither with its own    *)
(* content, but for what it could not put back or others moved meanwhile   *)
(* (PutComposeAndEnv of handlers/compose.go and its rollback).             *)
THEOREM SavesUndone == Spec => FailedSaveLeavesNothing
  <1>1. WorkInv /\ [Next]_vars
          => [\A s \in Stacks :
                (save[s].kind = "both" /\ save'[s].at = "idle" /\ told'[s] = "failed") =>
                  \/ s \in lost'
                  \/ /\ Read(disk', Env[s]) = s => save[s].env = s
                     /\ Read(disk', Compose[s]) = s => save[s].compose \in {s, Gone}]_vars
    BY WorkStep DEF NothingLeft
  <1> QED
    BY WorkInit, WorkStep, <1>1, PTL DEF Spec, FailedSaveLeavesNothing

-----------------------------------------------------------------------------
(* The turns of the operations: the lock, with any operations and stacks.  *)

(* Every step of the lock and of its users preserves the types.            *)
LEMMA LockTypeStep == LockTypeOK /\ [LockNext]_lockVars => LockTypeOK'
  <1> SUFFICES ASSUME LockTypeOK, [LockNext]_lockVars PROVE LockTypeOK'
    OBVIOUS
  <1> USE DEF LockTypeOK, Stages
  <1>1. ASSUME NEW op \in Ops, NEW S \in SUBSET StackIDs, Request(op, S) PROVE LockTypeOK'
    BY <1>1 DEF Request
  <1>2. ASSUME NEW op \in Ops, AcquireExclusive(op) PROVE LockTypeOK'
    BY <1>2 DEF AcquireExclusive
  <1>3. ASSUME NEW op \in Ops, NEW s \in StackIDs, Acquire(op, s) PROVE LockTypeOK'
    BY <1>3 DEF Acquire
  <1>4. ASSUME NEW op \in Ops, NEW s \in StackIDs, Refuse(op, s) PROVE LockTypeOK'
    BY <1>4 DEF Refuse
  <1>5. ASSUME NEW op \in Ops, NEW s \in StackIDs, Release(op, s) PROVE LockTypeOK'
    BY <1>5 DEF Release, AfterRelease
  <1>6. ASSUME NEW op \in Ops, AllTaken(op) PROVE LockTypeOK'
    BY <1>6 DEF AllTaken
  <1>7. ASSUME NEW op \in Ops, Finish(op) PROVE LockTypeOK'
    BY <1>7 DEF Finish
  <1>8. ASSUME NEW op \in Ops, ReleaseExclusive(op) PROVE LockTypeOK'
    BY <1>8 DEF ReleaseExclusive, AfterReleaseExclusive
  <1>9. ASSUME NEW op \in Ops, Done(op) PROVE LockTypeOK'
    BY <1>9 DEF Done
  <1>10. ASSUME NEW op \in Ops, LateRelease(op) PROVE LockTypeOK'
    BY <1>10 DEF LateRelease, AfterRelease, AfterReleaseExclusive
  <1>11. CASE UNCHANGED lockVars
    BY <1>11 DEF lockVars
  <1> QED
    BY <1>1, <1>2, <1>3, <1>4, <1>5, <1>6, <1>7, <1>8, <1>9, <1>10, <1>11 DEF LockNext, OpStep

(* The variables of the lock and of its users keep their types.            *)
THEOREM LockTypesCorrect == LockSpec => []LockTypeOK
  <1>1. LockInit => LockTypeOK
    BY DEF LockInit, LockTypeOK, Stages
  <1> QED
    BY <1>1, LockTypeStep, PTL DEF LockSpec

(* The inductive step: an Acquire needs a free stack and no exclusive turn *)
(* (so it disturbs neither table), and a release frees what its own token  *)
(* holds and nothing else.                                                 *)
LEMMA LockStep == LockInv /\ [LockNext]_lockVars => LockInv'
  <1> SUFFICES ASSUME LockInv, [LockNext]_lockVars PROVE LocksAreOwned' /\ ExclusiveIsAlone'
    BY LockTypeStep DEF LockInv
  <1> USE NoneAssumption DEF LockInv, LockTypeOK, LocksAreOwned, ExclusiveIsAlone
  <1>1. ASSUME NEW op \in Ops, NEW S \in SUBSET StackIDs, Request(op, S)
        PROVE LocksAreOwned' /\ ExclusiveIsAlone'
    BY <1>1 DEF Request
  <1>2. ASSUME NEW op \in Ops, AcquireExclusive(op)
        PROVE LocksAreOwned' /\ ExclusiveIsAlone'
    BY <1>2 DEF AcquireExclusive, MayAcquireExclusive
  <1>3. ASSUME NEW op \in Ops, NEW s \in StackIDs, Acquire(op, s)
        PROVE LocksAreOwned' /\ ExclusiveIsAlone'
    BY <1>3 DEF Acquire, MayAcquire
  <1>4. ASSUME NEW op \in Ops, NEW s \in StackIDs, Refuse(op, s)
        PROVE LocksAreOwned' /\ ExclusiveIsAlone'
    BY <1>4 DEF Refuse
  <1>5. ASSUME NEW op \in Ops, NEW s \in StackIDs, Release(op, s)
        PROVE LocksAreOwned' /\ ExclusiveIsAlone'
    BY <1>5 DEF Release, AfterRelease
  <1>6. ASSUME NEW op \in Ops, AllTaken(op)
        PROVE LocksAreOwned' /\ ExclusiveIsAlone'
    BY <1>6 DEF AllTaken
  <1>7. ASSUME NEW op \in Ops, Finish(op)
        PROVE LocksAreOwned' /\ ExclusiveIsAlone'
    BY <1>7 DEF Finish
  <1>8. ASSUME NEW op \in Ops, ReleaseExclusive(op)
        PROVE LocksAreOwned' /\ ExclusiveIsAlone'
    BY <1>8 DEF ReleaseExclusive, AfterReleaseExclusive
  <1>9. ASSUME NEW op \in Ops, Done(op)
        PROVE LocksAreOwned' /\ ExclusiveIsAlone'
    BY <1>9 DEF Done
  <1>10. ASSUME NEW op \in Ops, LateRelease(op)
         PROVE LocksAreOwned' /\ ExclusiveIsAlone'
    BY <1>10 DEF LateRelease, AfterRelease, AfterReleaseExclusive
  <1>11. CASE UNCHANGED lockVars
    BY <1>11 DEF lockVars
  <1> QED
    BY <1>1, <1>2, <1>3, <1>4, <1>5, <1>6, <1>7, <1>8, <1>9, <1>10, <1>11 DEF LockNext, OpStep

(* The lock table is exactly what the operations still have to release, in *)
(* every reachable state and for any number of operations and stacks.      *)
THEOREM LockTableCorrect == LockSpec => []LockInv
  <1>1. LockInit => LockInv
    BY NoneAssumption DEF LockInit, LockInv, LockTypeOK, Stages, LocksAreOwned, ExclusiveIsAlone
  <1> QED
    BY <1>1, LockStep, PTL DEF LockSpec

(* The lock table keeps two operations on a stack apart.                   *)
LEMMA InvGivesMutex == LockInv => MutualExclusion
  <1> SUFFICES ASSUME LockInv, NEW a \in Ops, NEW b \in Ops, a # b
               PROVE Turn(a) \cap Turn(b) = {}
    BY DEF MutualExclusion
  <1> USE NoneAssumption DEF LockInv, LockTypeOK, LocksAreOwned, ExclusiveIsAlone
  <1>1. CASE pc[a] = "exclusive"
    BY <1>1 DEF Turn
  <1>2. CASE pc[b] = "exclusive"
    BY <1>2 DEF Turn
  <1>3. CASE pc[a] = "working" /\ pc[b] = "working"
    BY <1>3 DEF Turn
  <1> QED
    BY <1>1, <1>2, <1>3 DEF Turn

(* No two operations ever work on the same stack, and the exclusive turn   *)
(* is never taken while any stack operation works.                         *)
THEOREM MutualExclusionHolds == LockSpec => []MutualExclusion
  BY LockTableCorrect, InvGivesMutex, PTL

(* A stack's hold ends only by its own operation's release: no stale token *)
(* and no other operation frees or steals it.                              *)
THEOREM HolderReleases == LockSpec => OnlyTheHolderReleases
  <1> DEFINE Step == \A s \in StackIDs :
                       locks[s] # None /\ locks'[s] # locks[s]
                         => locks'[s] = None /\ pc[locks[s]] \in {"backout", "releasing"}
  <1>1. ASSUME LockInv, [LockNext]_lockVars PROVE [Step]_lockVars
    <2> SUFFICES ASSUME LockNext, NEW s \in StackIDs, locks[s] # None, locks'[s] # locks[s]
                 PROVE locks'[s] = None /\ pc[locks[s]] \in {"backout", "releasing"}
      BY <1>1
    <2> USE <1>1, NoneAssumption DEF LockInv, LockTypeOK, LocksAreOwned
    <2>1. PICK op \in Ops : \/ \E S \in SUBSET StackIDs : Request(op, S)
                            \/ AcquireExclusive(op)
                            \/ OpStep(op)
                            \/ LateRelease(op)
      BY DEF LockNext
    <2>2. CASE \E r \in StackIDs : Release(op, r)
      BY <2>2 DEF Release, AfterRelease
    <2>3. CASE \E r \in StackIDs : Acquire(op, r)
      BY <2>3 DEF Acquire, MayAcquire
    <2>4. CASE LateRelease(op)
      BY <2>4 DEF LateRelease, AfterRelease
    <2> QED
      BY <2>1, <2>2, <2>3, <2>4
         DEF Request, AcquireExclusive, OpStep, Refuse, AllTaken, Finish, ReleaseExclusive, Done
  <1>2. LockInv /\ [LockNext]_lockVars => [Step]_lockVars
    BY <1>1
  <1> QED
    BY <1>2, LockTableCorrect, PTL DEF LockSpec, OnlyTheHolderReleases

(* The turns an operation is given are the promised ones: a step of the    *)
(* lock begins a turn that shares no stack with another, ends one, or      *)
(* changes no turn at all.                                                 *)
LEMMA TurnsStep == LockInv /\ LockInv' /\ [LockNext]_lockVars => [Turns!Next]_[op \in Ops |-> Turn(op)]
  <1> DEFINE turns == [op \in Ops |-> Turn(op)]
  <1> SUFFICES ASSUME LockInv, LockInv', [LockNext]_lockVars PROVE [Turns!Next]_turns
    OBVIOUS
  <1> USE NoneAssumption DEF LockInv, LockTypeOK, LocksAreOwned, ExclusiveIsAlone
  <1>m. MutualExclusion /\ MutualExclusion'
    BY InvGivesMutex, PTL
  <1>1. ASSUME NEW op \in Ops,
               \A o \in Ops : o # op => pc'[o] = pc[o] /\ taken'[o] = taken[o],
               Turn(op) = {} \/ Turn(op)' = {} \/ Turn(op)' = Turn(op)
        PROVE [Turns!Next]_turns
    <2>1. \A o \in Ops : o # op => Turn(o)' = Turn(o)
      BY <1>1 DEF Turn
    <2>2. turns' = [turns EXCEPT ![op] = Turn(op)']
      <3> HIDE DEF LockInv, LockTypeOK, LocksAreOwned, ExclusiveIsAlone
      <3> QED
        BY <2>1
    <2>3. CASE Turn(op)' = {}
      BY <2>2, <2>3 DEF Turns!Next, Turns!End
    <2>4. CASE Turn(op) = {} /\ Turn(op)' # {}
      <3>1. Turn(op)' \in SUBSET StackIDs
        BY DEF Turn
      <3>2. \A other \in Ops : turns[other] \cap Turn(op)' = {}
        BY <1>m, <2>1, <2>4 DEF MutualExclusion
      <3> QED
        BY <2>2, <2>4, <3>1, <3>2 DEF Turns!Next, Turns!Begin
    <2>5. CASE Turn(op)' = Turn(op)
      <3>1. \A o \in Ops : Turn(o)' = Turn(o)
        BY <2>1, <2>5
      <3>2. turns' = turns
        BY <3>1
      <3> QED
        BY <3>2
    <2> QED
      BY <1>1, <2>3, <2>4, <2>5
  <1>2. ASSUME NEW op \in Ops, NEW S \in SUBSET StackIDs, Request(op, S) PROVE [Turns!Next]_turns
    BY <1>1, <1>2 DEF Request, Turn
  <1>3. ASSUME NEW op \in Ops, AcquireExclusive(op) PROVE [Turns!Next]_turns
    BY <1>1, <1>3 DEF AcquireExclusive, Turn
  <1>4. ASSUME NEW op \in Ops, OpStep(op) PROVE [Turns!Next]_turns
    BY <1>1, <1>4
       DEF OpStep, Acquire, Refuse, Release, AllTaken, Finish, ReleaseExclusive, Done, Turn
  <1>5. ASSUME NEW op \in Ops, LateRelease(op) PROVE [Turns!Next]_turns
    BY <1>5 DEF LateRelease, Turn
  <1>6. CASE UNCHANGED lockVars
    BY <1>6 DEF lockVars, Turn
  <1> QED
    BY <1>2, <1>3, <1>4, <1>5, <1>6 DEF LockNext

(* The operation lock implements StackTurns: whatever the interleaving of  *)
(* lockStacks' loops, prunes and stale releases, what the operations see   *)
(* is turns that never share a stack.                                      *)
THEOREM LockImplementsTurns == LockSpec => TurnsSpec
  <1>1. LockInit => Turns!Init
    BY DEF LockInit, Turns!Init, Turn
  <1> QED
    BY <1>1, TurnsStep, LockTableCorrect, PTL DEF LockSpec, TurnsSpec, Turns!Spec

=============================================================================
