----------------------------- MODULE DockerHost -----------------------------
(***************************************************************************)
(* What stack operations make and use in Docker, and what removes it       *)
(* again: the prune and delete routes, the Free-up-space dialog and the    *)
(* cleanup runs (services/host_space.go, services/docker_cleanup.go,       *)
(* handlers/resource_mutations.go, services/docker_lifecycle.go).  Docker  *)
(* refuses to remove what a container uses and nothing else; that an image *)
(* just pulled, or a volume a stopped stack will want again, stays is up   *)
(* to Capstan: to the turns of its operations, taken as StackTurns         *)
(* promises them, and to the candidate list, read while the stacks'        *)
(* compose files may be changing.                                          *)
(*                                                                         *)
(* Each stack has one object, an image or (for a stack in Volumes) a       *)
(* volume with the project's label, and one container that uses it.        *)
(***************************************************************************)
EXTENDS Naturals, FiniteSets

CONSTANTS
    Stacks, Volumes,   \* the stacks, and those whose object is a volume
    Ops, Nobody        \* requests and scheduled passes; none of them

ASSUME HostAssumption == Volumes \subseteq Stacks /\ Nobody \notin Ops

VARIABLES
    objects,   \* the stacks whose object is on the host
    ctr,       \* ctr[s]: the container of s
    files,     \* files[s]: what the compose file of s says of the object
    op,        \* op[o]: what o is doing, on whose turn
    running,   \* DockerCleanupService.running
    fetch,     \* the holder of HostSpaceService.fetching and what it has read
    snap,      \* HostSpaceService.snap
    answered   \* history: removed, the removal answered, and not made since

vars == <<objects, ctr, files, op, running, fetch, snap, answered>>

OneStack == {"up", "down", "delete", "edit"}
Removals == {"prune", "pruneContainers", "free", "run"}
NoOp == [kind |-> "none", step |-> "idle", turn |-> {}, todo |-> {}, owed |-> {}]
Idle == [by |-> Nobody, step |-> "none", spared |-> {},
         shown |-> {}, cand |-> {}, current |-> FALSE]
NoSnap == [valid |-> FALSE, shown |-> {}, cand |-> {}]

TypeOK ==
    /\ objects \subseteq Stacks /\ answered \subseteq Stacks \ objects
    /\ ctr \in [Stacks -> {"gone", "idle", "running"}]
    /\ files \in [Stacks -> {"none", "silent", "names", "unreadable"}]
    /\ op \in [Ops -> [kind : OneStack \cup Removals \cup {"summary", "none"},
                       step : {"idle", "work", "create", "start", "settle",
                               "ask", "again", "remove", "over"},
                       turn : SUBSET Stacks, todo : SUBSET Stacks, owed : SUBSET Stacks]]
    /\ running \in BOOLEAN
    /\ fetch \in [by : Ops \cup {Nobody}, step : {"none", "names", "disk"},
                  spared : SUBSET Stacks, shown : SUBSET Stacks, cand : SUBSET Stacks, current : BOOLEAN]
    /\ snap \in [valid : BOOLEAN, shown : SUBSET Stacks, cand : SUBSET Stacks]

Init ==
    /\ objects = {} /\ ctr = [s \in Stacks |-> "gone"]
    /\ files \in [Stacks -> {"none", "names"}]
    /\ op = [o \in Ops |-> NoOp] /\ running = FALSE
    /\ fetch = Idle /\ snap = NoSnap /\ answered = {}

Free(S) == \A o \in Ops : op[o].turn \cap S = {}
In(o, s) == op[o].turn = {s}
At(o, step) == op[o].step = step
Go(o, step) == op' = [op EXCEPT ![o].step = step]
Done(o) == op' = [op EXCEPT ![o] = NoOp]
Reading == <<fetch, snap>>

\* The operations after o has made s, which no reader is owed any more, and
\* the next step of o.
Made(o, s, next) ==
    [x \in Ops |-> CASE x = o -> next
                     [] op[x].kind = "summary" -> [op[x] EXCEPT !.owed = @ \ {s}]
                     [] OTHER -> op[x]]

------------------------------------------------------------------------------
(* Operations on one stack, each on its turn.                              *)

\* A stack that is not there can only be created, which is an edit too.
Begin(o, kind, s) ==
    /\ At(o, "idle") /\ Free({s}) /\ (kind = "edit" \/ files[s] # "none")
    /\ op' = [op EXCEPT ![o] = [NoOp EXCEPT !.kind = kind, !.turn = {s}, !.step = "work"]]
    /\ UNCHANGED <<objects, ctr, files, running, answered, Reading>>

\* What the file names is on the host after compose up has pulled or created
\* it, and nothing uses it yet.  (compose pull is an up that ends here.)
Pull(o, s) ==
    /\ At(o, "work") /\ op[o].kind = "up" /\ In(o, s)
    /\ IF files[s] = "silent"
       THEN Go(o, "create") /\ UNCHANGED <<objects, answered>>
       ELSE /\ op' = Made(o, s, [op[o] EXCEPT !.step = "create", !.owed = {s}])
            /\ objects' = objects \cup {s} /\ answered' = answered \ {s}
    /\ UNCHANGED <<ctr, files, running, Reading>>

\* Compose creates the container, which waits in "created" for its
\* dependencies, starts it, and the handler polls until it has settled.
Create(o, s) ==
    /\ At(o, "create") /\ In(o, s) /\ Go(o, "start")
    /\ ctr' = [ctr EXCEPT ![s] = IF @ = "gone" THEN "idle" ELSE @]
    /\ UNCHANGED <<objects, files, running, answered, Reading>>

Start(o, s) ==
    /\ At(o, "start") /\ In(o, s) /\ Go(o, "settle")
    /\ ctr' = [ctr EXCEPT ![s] = "running"]
    /\ UNCHANGED <<objects, files, running, answered, Reading>>

Settle(o, s) ==
    /\ At(o, "settle") /\ In(o, s) /\ Done(o)
    /\ UNCHANGED <<objects, ctr, files, running, answered, Reading>>

\* Compose fails, or CAPSTAN_COMPOSE_TIMEOUT kills it, with its work half done.
Fails(o, s) ==
    /\ op[o].kind \in OneStack /\ In(o, s) /\ Done(o)
    /\ UNCHANGED <<objects, ctr, files, running, answered, Reading>>

\* compose down, or the removal of one container by itself; for a deleted
\* stack compose down -v, and then the folder and the row.
Down(o, s) ==
    /\ At(o, "work") /\ op[o].kind \in {"down", "delete"} /\ In(o, s) /\ Done(o)
    /\ ctr' = [ctr EXCEPT ![s] = "gone"]
    /\ IF op[o].kind = "delete"
       THEN files' = [files EXCEPT ![s] = "none"] /\ objects' = objects \ ({s} \cap Volumes)
       ELSE UNCHANGED <<files, objects>>
    /\ UNCHANGED <<running, answered, Reading>>

\* A save of the compose or .env file, a git pull, or a new stack.
Edit(o, s, says) ==
    /\ At(o, "work") /\ op[o].kind = "edit" /\ In(o, s) /\ Done(o)
    /\ files' = [files EXCEPT ![s] = says]
    /\ UNCHANGED <<objects, ctr, running, answered, Reading>>

\* A container ends by itself.
Exit(s) ==
    /\ ctr[s] = "running" /\ ctr' = [ctr EXCEPT ![s] = "idle"]
    /\ UNCHANGED <<objects, files, op, running, answered, Reading>>

------------------------------------------------------------------------------
(* HostSpaceService.snapshot: one fetch at a time, in two reads.           *)

Asks(o) == op[o].step \in {"ask", "again"}

\* MUTANT: any list is served from a snapshot that is young enough.
FreshNever(o) == FALSE
\* Only a summary may be served from what was read before.
Fresh(o) == op[o].kind # "summary"

\* What the stacks own or their files name, and what Docker says is unused.
\* While one file cannot be read, everything might be named.
Withheld == \E s \in Stacks : files[s] = "unreadable"
Spared == {s \in Stacks : \/ Withheld \/ files[s] = "names"
                          \/ s \in Volumes /\ files[s] # "none"}
Unused == {s \in objects : ctr[s] = "gone"}

\* What o does with a result.  A cleanup run picks the old ones of its
\* categories and asks again; the dialog's request was made from a list that
\* may be stale, so it asks for whatever it likes.
Take(o, cand) ==
    CASE op[o].kind = "summary" -> Done(o)
      [] At(o, "again") \/ op[o].kind = "free" ->
           op' = [op EXCEPT ![o].step = "remove", ![o].todo = @ \cap cand]
      [] OTHER -> \E pick \in SUBSET cand :
           op' = [op EXCEPT ![o].todo = pick,
                            ![o].step = IF pick = {} THEN "over" ELSE "again"]

\* The snapshot is younger than its TTL.
Serve(o) ==
    /\ Asks(o) /\ ~Fresh(o) /\ fetch.by = Nobody /\ snap.valid
    /\ Take(o, snap.cand)
    /\ UNCHANGED <<objects, ctr, files, running, answered, Reading>>

ReadNames(o) ==
    /\ Asks(o) /\ fetch.by = Nobody
    /\ fetch' = [Idle EXCEPT !.by = o, !.step = "names", !.current = TRUE,
                             !.spared = Spared]
    /\ UNCHANGED <<objects, ctr, files, op, running, answered, snap>>

ReadDisk(o) ==
    /\ fetch.by = o /\ fetch.step = "names"
    /\ fetch' = [fetch EXCEPT !.step = "disk", !.spared = {}, !.shown = objects,
                              !.cand = Unused \ fetch.spared]
    /\ UNCHANGED <<objects, ctr, files, op, running, answered, snap>>

\* MUTANT: the result is stored whether or not the snapshot was dropped
\* meanwhile.
StoreAlways == TRUE
Store == fetch.current

EndFetch(o) ==
    /\ fetch.by = o /\ fetch.step = "disk" /\ fetch' = Idle
    /\ snap' = IF Store THEN [valid |-> TRUE, shown |-> fetch.shown, cand |-> fetch.cand]
               ELSE snap
    /\ Take(o, fetch.cand)
    /\ UNCHANGED <<objects, ctr, files, running, answered>>

\* Docker or the stacks table does not answer, or the reader left.
FetchFails(o) ==
    /\ Asks(o) /\ fetch.by \in {o, Nobody} /\ fetch' = Idle
    /\ IF op[o].kind = "summary" THEN Done(o) ELSE Go(o, "over")
    /\ UNCHANGED <<objects, ctr, files, running, answered, snap>>

\* A summary is asked for: what was answered as removed by now must not show.
\* (A list of candidates is one that is always read anew.)
Look(o) ==
    /\ At(o, "idle")
    /\ op' = [op EXCEPT ![o] = [NoOp EXCEPT !.kind = "summary", !.step = "ask", !.owed = answered]]
    /\ UNCHANGED <<objects, ctr, files, running, answered, Reading>>

------------------------------------------------------------------------------
(* Removals.                                                               *)

\* MUTANT: a removal takes no turn.
NoTurn == {}
\* Every removal takes every stack's turn (acquireExclusiveLock).
RemovalTurn == Stacks

BeginRemoval(o, kind, req) ==
    /\ At(o, "idle") /\ Free(RemovalTurn)
    /\ op' = [op EXCEPT ![o] = [NoOp EXCEPT !.kind = kind, !.turn = RemovalTurn, !.todo = req,
                                            !.step = IF kind = "free" THEN "ask" ELSE "work"]]
    /\ UNCHANGED <<objects, ctr, files, running, answered, Reading>>

\* Docker's own prunes and deletes: what no container uses, named or not.
Prune(o, gone) ==
    /\ At(o, "work") /\ op[o].kind = "prune" /\ gone \subseteq Unused
    /\ objects' = objects \ gone
    /\ op' = [op EXCEPT ![o].step = "over", ![o].owed = gone]
    /\ UNCHANGED <<ctr, files, running, answered, Reading>>

PruneContainers(o) ==
    /\ At(o, "work") /\ op[o].kind = "pruneContainers" /\ Go(o, "over")
    /\ ctr' = [s \in Stacks |-> IF ctr[s] = "idle" THEN "gone" ELSE ctr[s]]
    /\ UNCHANGED <<objects, files, running, answered, Reading>>

\* DockerCleanupService.Execute: dangling images and build cache alone need
\* no turn; a turn that is busy ends the run before it removes anything.
BeginRun(o, host) ==
    /\ At(o, "idle") /\ ~running
    /\ IF host /\ ~Free(Stacks)
       THEN UNCHANGED <<op, running>>
       ELSE /\ running' = TRUE
            /\ op' = [op EXCEPT ![o] = [NoOp EXCEPT !.kind = "run",
                                 !.turn = IF host THEN RemovalTurn ELSE {},
                                 !.step = IF host THEN "ask" ELSE "over"]]
    /\ UNCHANGED <<objects, ctr, files, answered, Reading>>

\* removeEach, force=false: Docker refuses what is in use.
RemoveOne(o, s) ==
    /\ At(o, "remove") /\ s \in op[o].todo
    /\ objects' = IF s \in Unused THEN objects \ {s} ELSE objects
    /\ op' = [op EXCEPT ![o].todo = @ \ {s},
                        ![o].owed = IF s \in Unused THEN @ \cup {s} ELSE @]
    /\ UNCHANGED <<ctr, files, running, answered, Reading>>

Invalidate == snap' = NoSnap /\ fetch' = [fetch EXCEPT !.current = FALSE]

\* The deferred calls: Invalidate, the turn, the single flight, the answer.
EndRemoval(o) ==
    /\ op[o].kind \in Removals /\ (At(o, "over") \/ (At(o, "remove") /\ op[o].todo = {}))
    /\ Invalidate /\ Done(o)
    /\ running' = (running /\ op[o].kind # "run")
    /\ answered' = answered \cup (op[o].owed \ objects)
    /\ UNCHANGED <<objects, ctr, files>>

Next ==
    \/ \E o \in Ops, s \in Stacks :
          \/ \E kind \in OneStack : Begin(o, kind, s)
          \/ Pull(o, s) \/ Create(o, s) \/ Start(o, s) \/ Settle(o, s) \/ Fails(o, s)
          \/ Down(o, s)
          \/ \E says \in {"silent", "names", "unreadable"} : Edit(o, s, says)
          \/ RemoveOne(o, s)
    \/ \E s \in Stacks : Exit(s)
    \/ \E o \in Ops :
          \/ Serve(o) \/ ReadNames(o) \/ ReadDisk(o) \/ EndFetch(o) \/ FetchFails(o)
          \/ Look(o)
          \/ BeginRemoval(o, "prune", {}) \/ BeginRemoval(o, "pruneContainers", {})
          \/ \E req \in SUBSET Stacks : BeginRemoval(o, "free", req)
          \/ \E gone \in SUBSET objects : Prune(o, gone)
          \/ PruneContainers(o)
          \/ \E host \in BOOLEAN : BeginRun(o, host)
          \/ EndRemoval(o)

Spec == Init /\ [][Next]_vars

------------------------------------------------------------------------------
(* What the turns and the candidate list are for.                          *)

\* An up finds what it pulled when it creates the container, and the container
\* when it starts it: no prune, delete or cleanup takes either from under it.
MadeInTurnStays ==
    \A o \in Ops : op[o].kind = "up" =>
        /\ op[o].owed \subseteq objects
        /\ op[o].step \in {"start", "settle"} =>
               \A s \in op[o].turn : ctr[s] # "gone"

\* One cleanup run at a time, and the guard is held for exactly as long.
OneRunAtATime ==
    LET Runs == {o \in Ops : op[o].kind = "run"}
    IN  Cardinality(Runs) <= 1 /\ running = (Runs # {})

\* A summary asked for after a removal was answered does not show what was
\* removed, whatever fetch was under way then.
SummaryShowsTheRemoval ==
    [][\A o \in Ops : op[o].kind = "summary" =>
          /\ Serve(o) => snap.shown \cap op[o].owed = {}
          /\ EndFetch(o) => fetch.shown \cap op[o].owed = {}]_vars

HostInv == TypeOK /\ MadeInTurnStays /\ OneRunAtATime

\* The dialog and the cleanup runs never remove what a stack owns or a compose
\* file names at that moment, nor anything while a file cannot be read.
Removing(s) == \E o \in Ops : At(o, "remove") /\ s \in op[o].todo \ op'[o].todo
RemovesOnlyWhatNobodyNames ==
    [][\A s \in objects \ objects' : Removing(s) => s \notin Spared]_vars

=============================================================================
