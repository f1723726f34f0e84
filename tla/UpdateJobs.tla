----------------------------- MODULE UpdateJobs -----------------------------
(***************************************************************************)
(* Updates that a user asks for: the handlers that take a turn and queue a *)
(* job (handlers/updates.go), the manager that runs one job at a time      *)
(* (services/update_job_manager.go), the docker steps of a job             *)
(* (services/docker_update.go), the WebSocket that follows it              *)
(* (handlers/update_jobs_ws.go), beside a container prune, a shutdown and  *)
(* a crash.                                                                *)
(*                                                                         *)
(* What a job emits (lines and statuses) is numbered: event n of a job is  *)
(* the n-th that was fanned out, and a snapshot holds all before it.       *)
(***************************************************************************)
EXTENDS Integers, Sequences, FiniteSets, SequencesExt

CONSTANTS
  Posts,    \* POSTs to the update routes
  Containers,
  Stacks,
  StackOf,     \* the stack of a container, Nil for a standalone one
  Wants,        \* what a request may ask to have updated
  Stopped,     \* the containers that are stopped at first
  Clients,     \* WebSockets on a job
  Nil,
  QueueCap,    \* 256 in the code
  ChanCap,     \* 64 in the code
  MaxBoots     \* bound on restarts

ASSUME JobAssumption ==
  /\ IsFiniteSet(Containers) /\ Stacks \cap Containers = {}
  /\ StackOf \in [Containers -> Stacks \cup {Nil}]
  /\ Wants \in [Posts -> SUBSET (Stacks \cup Containers)]
  /\ Stopped \subseteq Containers
  /\ Nil \notin Stacks \cup Containers \cup Posts
  /\ QueueCap \in Nat \ {0} /\ ChanCap \in Nat \ {0} /\ MaxBoots \in Nat

Keys == Stacks \cup Containers
Prune == "prune"

VARIABLES
  req,      \* where a request is
  writes,   \* whether table update_history can be written
  todo,     \* the containers it has still to update, in order
  target,   \* the container or the stack it is for
  job,      \* the manager's record of it: status, outcome, events so far
  known,    \* the manager's table of jobs
  queue,    \* the channel of the worker
  work,     \* the job the worker runs, where it is and what came of it
  server,   \* "up", "stopping", "stopped"
  turn,     \* the operation lock
  pruning,  \* a prune holds the exclusive turn
  box,      \* the state of a container
  cached,   \* table cached_updates
  row,      \* table update_history
  client,   \* where a WebSocket is, and what it has been sent
  subs,     \* the subscribers of a job
  boots,
  past      \* history: verified containers, followers whose channel was full

jobs == <<job, known, queue>>
docker == <<box, pruning>>
tables == <<cached, row>>
sockets == <<client, subs>>
jobVars == <<req, writes, todo, target, jobs, work, server, turn, docker, tables, sockets, boots, past>>

Terminal == {"success", "error"}
Boxes == {"running", "stopped", "created", "gone"}
Stages == {"idle", "begin", "pull", "apply", "up", "settle", "stop", "remove", "create", "start",
           "verify", "verified", "failed", "returned", "finish", "close"}

(* The types of the variables. *)
JobsTypeOK ==
  /\ req \in [Posts -> {"new", "refused", "pushing", "queued", "running", "over", "lost"}]
  /\ writes \in BOOLEAN
  /\ todo \in [Posts -> Seq(Containers)]
  /\ target \in [Posts -> Keys \cup {Nil}]
  /\ job \in [Posts -> [status : {"queued", "pulling", "recreating"} \cup Terminal,
                           outcome : {"unset", "success", "no_change", "failed"}, n : Nat]]
  /\ known \subseteq Posts
  /\ queue \in Seq(Posts)
  /\ server \in {"up", "stopping", "stopped"}
  /\ turn \in [Keys -> Posts \cup {Nil}]
  /\ pruning \in BOOLEAN
  /\ box \in [Containers -> Boxes]
  /\ cached \subseteq Containers
  /\ row \in [Posts -> [Containers -> {"none", "pending", "success", "failed", "skipped"}]]
  /\ work \in [r : Posts \cup {Nil}, pc : Stages, was : BOOLEAN, adv : BOOLEAN,
               any : BOOLEAN, err : BOOLEAN, subs : SUBSET Clients]
  /\ client \in [Clients -> [at : {"new", "unknown", "open", "told", "cut", "gone"},
                             r : Posts \cup {Nil}, ch : Seq([n : Nat, done : BOOLEAN]),
                             last : Nat, closed : BOOLEAN]]
  /\ subs \in [Posts -> SUBSET Clients]
  /\ boots \in 0 .. MaxBoots
  /\ past \in [verified : SUBSET Containers, full : SUBSET Clients]

NoJob == [status |-> "queued", outcome |-> "unset", n |-> 0]
NoWork == [r |-> Nil, pc |-> "idle", was |-> FALSE, adv |-> FALSE, any |-> FALSE,
           err |-> FALSE, subs |-> {}]
NoClient == [at |-> "new", r |-> Nil, ch |-> <<>>, last |-> 0, closed |-> FALSE]

JobsInit ==
  /\ req = [r \in Posts |-> "new"]
  /\ writes \in BOOLEAN
  /\ todo = [r \in Posts |-> <<>>]
  /\ target = [r \in Posts |-> Nil]
  /\ job = [r \in Posts |-> NoJob]
  /\ known = {} /\ queue = <<>> /\ work = NoWork
  /\ server = "up"
  /\ turn = [k \in Keys |-> Nil]
  /\ pruning = FALSE
  /\ box = [c \in Containers |-> IF c \in Stopped THEN "stopped" ELSE "running"]
  /\ cached = Containers
  /\ row = [r \in Posts |-> [c \in Containers |-> "none"]]
  /\ client = [c \in Clients |-> NoClient]
  /\ subs = [r \in Posts |-> {}]
  /\ boots = 0
  /\ past = [verified |-> {}, full |-> {}]

-----------------------------------------------------------------------------
(* The handlers.                                                           *)

Free(k) == turn[k] = Nil /\ ~pruning

(* Every check before the turn, and a busy key, answers an error and       *)
(* leaves nothing behind.                                                  *)
Refuse(r) ==
  /\ req[r] = "new"
  /\ req' = [req EXCEPT ![r] = "refused"]
  /\ UNCHANGED <<writes, todo, target, jobs, work, server, turn, docker, tables, sockets, boots, past>>

LockKey(c) == IF StackOf[c] = Nil THEN c ELSE StackOf[c]

Inserted(r, c) == IF writes THEN [row EXCEPT ![r][c] = "pending"] ELSE row

Enqueue(r) ==
  /\ req' = [req EXCEPT ![r] = "pushing"]
  /\ known' = known \cup {r}

(* The key is taken before the history row is written and before anything  *)
(* is queued; a row that cannot be written is only logged.                 *)
UpdateContainer(r, c) ==
  /\ req[r] = "new" /\ c \in Wants[r]
  /\ Free(LockKey(c))
  /\ box[c] # "gone"
  /\ Enqueue(r)
  /\ todo' = [todo EXCEPT ![r] = <<c>>]
  /\ target' = [target EXCEPT ![r] = c]
  /\ turn' = [turn EXCEPT ![LockKey(c)] = r]
  /\ row' = Inserted(r, c)
  /\ UNCHANGED <<writes, job, queue, work, server, docker, cached, sockets, boots, past>>

(* The outdated services of a stack, read from the list before the turn is *)
(* taken; with none of them nothing is queued (Refuse).                    *)
Outdated(s) == {c \in cached : StackOf[c] = s}

UpdateStack(r, s) ==
  /\ req[r] = "new" /\ s \in Wants[r] /\ Free(s)
  /\ Outdated(s) # {}
  /\ Enqueue(r)
  /\ \E order \in SetToSeqs(Outdated(s)) : todo' = [todo EXCEPT ![r] = order]
  /\ target' = [target EXCEPT ![r] = s]
  /\ turn' = [turn EXCEPT ![s] = r]
  /\ UNCHANGED <<writes, job, queue, work, server, docker, tables, sockets, boots, past>>

(* The send that ends Enqueue waits while the queue is full. *)
Push(r) ==
  /\ req[r] = "pushing" /\ Len(queue) < QueueCap
  /\ req' = [req EXCEPT ![r] = "queued"]
  /\ queue' = Append(queue, r)
  /\ UNCHANGED <<writes, todo, target, job, known, work, server, turn, docker, tables, sockets, boots, past>>

-----------------------------------------------------------------------------
(* What a job tells its subscribers.                                       *)

(* Event n of job r goes to every subscriber whose channel has room. *)
FanOut(r, done) ==
  LET n == job[r].n + 1
      Room == {c \in subs[r] : Len(client[c].ch) < ChanCap}
  IN  /\ client' = [c \in Clients |-> IF c \in Room
                      THEN [client[c] EXCEPT !.ch = Append(@, [n |-> n, done |-> done])]
                      ELSE client[c]]
      /\ past' = [past EXCEPT !.full = @ \cup (subs[r] \ Room)]

(* setStatus, and the lines of the phase it begins: one event here. *)
SetStatus(r, status) ==
  /\ FanOut(r, FALSE)
  /\ job' = [job EXCEPT ![r].status = status, ![r].n = @ + 1]


-----------------------------------------------------------------------------
(* The worker: one job after another, one container after another.        *)

Doing(pc) == work.pc = pc
Cur == Head(todo[work.r])   \* the container the job is at
Whole == target[work.r] \in Stacks
Goto(pc) == work' = [work EXCEPT !.pc = pc]

TakeJob ==
  /\ server # "stopped" /\ Doing("idle") /\ queue # <<>>
  /\ queue' = Tail(queue)
  /\ req' = [req EXCEPT ![Head(queue)] = "running"]
  /\ work' = [NoWork EXCEPT !.r = Head(queue), !.pc = "begin"]
  /\ UNCHANGED <<writes, todo, target, job, known, server, turn, docker, tables, sockets, boots, past>>

(* The job of a stack writes a row for each service as it comes to it.  A  *)
(* container that cannot be found or inspected, a stacks table that cannot *)
(* be read, compose arguments that are refused: nothing has been touched.  *)
Inspect ==
  /\ Doing("begin")
  /\ row' = IF Whole THEN Inserted(work.r, Cur) ELSE row
  /\ \E pc \in {"pull", "failed"} :
       /\ pc = "pull" => box[Cur] # "gone"
       /\ work' = [work EXCEPT !.pc = pc, !.was = box[Cur] = "running", !.adv = FALSE]
  /\ UNCHANGED <<req, writes, todo, target, jobs, server, turn, docker, cached, sockets, boots, past>>

Pull ==
  /\ Doing("pull")
  /\ SetStatus(work.r, "pulling")
  /\ Goto("apply") \/ Goto("failed")
  /\ UNCHANGED <<req, writes, todo, target, known, queue, server, turn, docker, tables, subs, boots>>

Apply ==
  /\ Doing("apply")
  /\ SetStatus(work.r, "recreating")
  /\ Goto(IF StackOf[Cur] # Nil THEN "up" ELSE IF work.was THEN "stop" ELSE "remove")
  /\ UNCHANGED <<req, writes, todo, target, known, queue, server, turn, docker, tables, subs, boots>>

Step(pc) ==
  /\ Doing(pc)
  /\ UNCHANGED <<req, writes, todo, target, jobs, server, turn, pruning, tables, sockets, boots>>

(* compose up recreates the service and leaves it running; when it fails   *)
(* or runs out of time it may be at any point of that.                     *)
ComposeUp ==
  /\ Step("up") /\ UNCHANGED past
  /\ \/ /\ box' = [box EXCEPT ![Cur] = "running"]
        /\ \E adv \in BOOLEAN :
             work' = [work EXCEPT !.adv = adv, !.pc = IF Whole \/ work.was THEN "verify" ELSE "settle"]
     \/ /\ \E b \in {"running", "created", "gone", box[Cur]} : box' = [box EXCEPT ![Cur] = b]
        /\ Goto("failed")

(* A service that was stopped is stopped again; that it could not be is    *)
(* only logged, that it could not be looked for fails the update.          *)
Settle ==
  /\ Step("settle") /\ UNCHANGED past
  /\ \/ /\ \E b \in {"running", "stopped"} : box' = [box EXCEPT ![Cur] = b]
        /\ Goto("verify")
     \/ Goto("failed") /\ UNCHANGED box

Stop ==
  /\ Step("stop") /\ UNCHANGED past
  /\ \/ box[Cur] # "gone" /\ box' = [box EXCEPT ![Cur] = "stopped"] /\ Goto("remove")
     \/ Goto("failed") /\ UNCHANGED box

(* A container that is gone already is as good as removed when this update *)
(* has just stopped it itself, and an error otherwise.                     *)
RemoveOld ==
  /\ Step("remove") /\ UNCHANGED past
  /\ \/ /\ work.was \/ box[Cur] # "gone"
        /\ box' = [box EXCEPT ![Cur] = "gone"] /\ Goto("create")
     \/ Goto("failed") /\ UNCHANGED box

Create ==
  /\ Step("create") /\ UNCHANGED past
  /\ \/ /\ box' = [box EXCEPT ![Cur] = "created"]
        /\ \E adv \in BOOLEAN :
             work' = [work EXCEPT !.adv = adv, !.pc = IF work.was THEN "start" ELSE "verify"]
     \/ Goto("failed") /\ UNCHANGED box

StartNew ==
  /\ Step("start") /\ UNCHANGED past
  /\ \/ box[Cur] # "gone" /\ box' = [box EXCEPT ![Cur] = "running"] /\ Goto("verify")
     \/ Goto("failed") /\ UNCHANGED box

(* The image of the container that is there now is compared with the old. *)
Verify ==
  /\ Step("verify") /\ UNCHANGED box
  /\ \/ /\ box[Cur] # "gone" /\ Goto("verified")
        /\ past' = [past EXCEPT !.verified = @ \cup {Cur}]
     \/ Goto("failed") /\ UNCHANGED past

Evicts == IF Doing("verified") THEN Cur ELSE Nil

(* A verified container: its row, its place in the list, and the next one. *)
RecordOutcome ==
  /\ Doing("verified")
  /\ row' = IF writes THEN [row EXCEPT ![work.r][Cur] = "success"] ELSE row
  /\ cached' = cached \ {Evicts}
  /\ todo' = [todo EXCEPT ![work.r] = Tail(@)]
  /\ LET any == work.any \/ work.adv IN
       IF Len(todo[work.r]) > 1
       THEN work' = [work EXCEPT !.any = any, !.pc = "begin"] /\ UNCHANGED job
       ELSE /\ work' = [work EXCEPT !.any = any, !.pc = "returned"]
            /\ job' = [job EXCEPT ![work.r].outcome = IF any THEN "success" ELSE "no_change"]
  /\ UNCHANGED <<req, writes, target, known, queue, server, turn, docker, sockets, boots, past>>

(* A failed one ends the job; the rest of a stack gets rows that say so. *)
Rest == {todo[work.r][k] : k \in 2 .. Len(todo[work.r])}

(* MUTANT: what comes after the service that failed is forgotten. *)
SkippedNone == {}
Skipped == Rest

RecordFailure ==
  /\ Doing("failed")
  /\ row' = [row EXCEPT ![work.r] = [c \in Containers |->
       IF c = Cur /\ writes THEN "failed"
       ELSE IF c \in Skipped /\ writes THEN "skipped" ELSE @[c]]]
  /\ cached' = cached \ {Evicts}
  /\ todo' = [todo EXCEPT ![work.r] = <<>>]
  /\ job' = [job EXCEPT ![work.r].outcome = "failed"]
  /\ work' = [work EXCEPT !.pc = "returned", !.err = TRUE]
  /\ UNCHANGED <<req, writes, target, known, queue, server, turn, docker, sockets, boots, past>>

(* The deferred release, as the closure of the job returns. *)
ReleaseLock ==
  /\ Doing("returned")
  /\ turn' = [k \in Keys |-> IF turn[k] = work.r THEN Nil ELSE turn[k]]
  /\ Goto("finish")
  /\ UNCHANGED <<req, writes, todo, target, jobs, server, docker, tables, sockets, boots, past>>

(* The terminal status and the done event, under the mutex of the job; the *)
(* subscribers are taken off the list in the same critical section.        *)
Finish ==
  /\ Doing("finish")
  /\ FanOut(work.r, TRUE)
  /\ job' = [job EXCEPT ![work.r].status = IF work.err THEN "error" ELSE "success", ![work.r].n = @ + 1]
  /\ subs' = [subs EXCEPT ![work.r] = {}]
  /\ work' = [NoWork EXCEPT !.r = work.r, !.pc = "close", !.subs = subs[work.r]]
  /\ UNCHANGED <<req, writes, todo, target, known, queue, server, turn, docker, tables, boots>>

CloseChannels ==
  /\ Doing("close")
  /\ client' = [c \in Clients |-> [client[c] EXCEPT !.closed = @ \/ c \in work.subs]]
  /\ work' = NoWork
  /\ req' = [req EXCEPT ![work.r] = "over"]
  /\ UNCHANGED <<writes, todo, target, jobs, server, turn, docker, tables, subs, boots, past>>

(* The janitor, some time after the job has ended. *)
EvictExpired(r) ==
  /\ r \in known /\ job[r].status \in Terminal
  /\ known' = known \ {r}
  /\ job' = [job EXCEPT ![r] = NoJob]
  /\ UNCHANGED <<req, writes, todo, target, queue, work, server, turn, docker, tables, sockets, boots, past>>

-----------------------------------------------------------------------------
(* The WebSocket on a job.                                                 *)

Reader == UNCHANGED <<req, writes, todo, target, jobs, work, server, turn, docker, tables, boots, past>>

(* MUTANT: the snapshot is taken first, and the channel registered after.  *)
SnapshotEarlier(r) == IF job[r].n = 0 THEN 0 ELSE job[r].n - 1
Snapshot(r) == job[r].n

(* The snapshot and the registration are one critical section; a job that  *)
(* has ended answers done from the snapshot.                               *)
Subscribe(c, r) ==
  /\ client[c].at = "new" /\ req[r] \notin {"new", "refused"}
  /\ IF r \notin known
     THEN client' = [client EXCEPT ![c].at = "unknown"] /\ UNCHANGED subs
     ELSE IF job[r].status \in Terminal
     THEN client' = [client EXCEPT ![c].at = "told"] /\ UNCHANGED subs
     ELSE /\ client' = [client EXCEPT ![c].at = "open", ![c].r = r, ![c].last = Snapshot(r)]
          /\ subs' = [subs EXCEPT ![r] = @ \cup {c}]
  /\ Reader

(* The end of the handler, with the deferred unsubscribe. *)
Leave(c, how) ==
  /\ client' = [client EXCEPT ![c] = [NoClient EXCEPT !.at = how]]
  /\ subs' = [r \in Posts |-> subs[r] \ {c}]

Forward(c) ==
  /\ client[c].at = "open" /\ client[c].ch # <<>>
  /\ LET ev == Head(client[c].ch) IN
       IF ev.done THEN Leave(c, "told")
       ELSE client' = [client EXCEPT ![c].ch = Tail(@), ![c].last = ev.n] /\ UNCHANGED subs
  /\ Reader

(* A channel that is closed and empty ends the stream without a done frame. *)
SeeClosed(c) ==
  /\ client[c].at = "open" /\ client[c].ch = <<>> /\ client[c].closed
  /\ Leave(c, "cut")
  /\ Reader

Disconnect(c) ==
  /\ client[c].at = "open"
  /\ Leave(c, "gone")
  /\ Reader

-----------------------------------------------------------------------------
(* A container prune, a shutdown, a crash.                                 *)

Pruner == UNCHANGED <<req, writes, todo, target, jobs, work, server, turn, tables, sockets, boots, past>>

(* MUTANT: a prune asks for the turns of the stacks only. *)
StacksFree == \A s \in Stacks : turn[s] = Nil
AllFree == \A k \in Keys : turn[k] = Nil

PruneBegins ==
  /\ ~pruning /\ AllFree
  /\ pruning' = TRUE
  /\ UNCHANGED box /\ Pruner

PruneRemoves(c) ==
  /\ pruning /\ box[c] \in {"stopped", "created"}
  /\ box' = [box EXCEPT ![c] = "gone"]
  /\ UNCHANGED pruning /\ Pruner

PruneEnds ==
  /\ pruning /\ pruning' = FALSE
  /\ UNCHANGED box /\ Pruner

(* The worker sees the cancelled context between two jobs; the job it is   *)
(* at fails at its next docker call, or does not.                          *)
Shutdown ==
  /\ server = "up" /\ server' = "stopping"
  /\ UNCHANGED <<req, writes, todo, target, jobs, work, turn, docker, tables, sockets, boots, past>>

StopReturns ==
  /\ server = "stopping" /\ Doing("idle")
  /\ server' = "stopped"
  /\ UNCHANGED <<req, writes, todo, target, jobs, work, turn, docker, tables, sockets, boots, past>>

(* The process ends, wherever it is; the next one has none of its memory,  *)
(* and ends the rows that are pending.                                     *)
Sweep == [r \in Posts |-> [c \in Containers |-> IF row[r][c] = "pending" THEN "failed" ELSE row[r][c]]]

Restart ==
  /\ boots < MaxBoots /\ boots' = boots + 1
  /\ req' = [r \in Posts |-> IF req[r] \in {"pushing", "queued", "running"} THEN "lost" ELSE req[r]]
  /\ todo' = [r \in Posts |-> <<>>]
  /\ known' = {} /\ queue' = <<>> /\ work' = NoWork /\ server' = "up"
  /\ turn' = [k \in Keys |-> Nil] /\ pruning' = FALSE
  /\ row' = Sweep
  /\ client' = [c \in Clients |-> IF client[c].at = "open" THEN [NoClient EXCEPT !.at = "gone"] ELSE client[c]]
  /\ subs' = [r \in Posts |-> {}]
  /\ job' = [r \in Posts |-> NoJob] /\ UNCHANGED <<writes, target, box, cached, past>>

-----------------------------------------------------------------------------
Working ==
  \/ TakeJob \/ Inspect \/ Pull \/ Apply \/ ComposeUp \/ Settle \/ Stop \/ RemoveOld \/ Create
  \/ StartNew \/ Verify \/ RecordOutcome \/ RecordFailure \/ ReleaseLock \/ Finish \/ CloseChannels

JobsNext ==
  \/ \E r \in Posts : Refuse(r) \/ Push(r) \/ EvictExpired(r)
  \/ \E r \in Posts, c \in Containers : UpdateContainer(r, c)
  \/ \E r \in Posts, s \in Stacks : UpdateStack(r, s)
  \/ Working
  \/ \E c \in Clients, r \in Posts : Subscribe(c, r)
  \/ \E c \in Clients : Forward(c) \/ SeeClosed(c) \/ Disconnect(c)
  \/ PruneBegins \/ (\E c \in Containers : PruneRemoves(c)) \/ PruneEnds
  \/ Shutdown \/ StopReturns \/ Restart

JobsSpec == JobsInit /\ [][JobsNext]_jobVars

-----------------------------------------------------------------------------
(* While an update is recreating a container nothing else takes it away:   *)
(* between the create and the start of a standalone container, and between *)
(* its stop and its remove, a prune would.                                 *)
PruneSparesUpdates ==
  /\ Doing("remove") /\ work.was => box[Cur] = "stopped"
  /\ Doing("start") => box[Cur] = "created"
  /\ Doing("verified") /\ work.was => box[Cur] = "running"

JobsInv == JobsTypeOK /\ PruneSparesUpdates

(* What the tables say of an update that is over is what became of it: a   *)
(* container has left the list only when it was verified; where the rows   *)
(* can be written, none of them stays pending, every service of the stack  *)
(* that is still on the list has one, and a job that says success or no    *)
(* change failed nowhere.                                                  *)
TablesAreTrue ==
  /\ Containers \ cached \subseteq past.verified
  /\ \A r \in Posts : req[r] \in {"over", "lost"} /\ writes =>
       \A c \in Containers :
         /\ row[r][c] # "pending"
         /\ req[r] = "over" /\ target[r] = StackOf[c] /\ c \in cached => row[r][c] # "none"
         /\ r \in known /\ job[r].status = "success" => row[r][c] \notin {"failed", "skipped"}

(* A WebSocket is sent every event once and in order, from its snapshot to *)
(* done, and it ends without done only if its channel has been full.  None *)
(* is left waiting: it is subscribed to a job that can still end, or its   *)
(* channel is, or is about to be, closed.                                  *)
StreamIsExact ==
  /\ \A c \in Clients : client[c].at = "cut" => c \in past.full
  /\ \A c \in Clients : client[c].at = "open" =>
       LET ch == client[c].ch
           events == <<client[c].last>> \o [k \in 1 .. Len(ch) |-> ch[k].n]
       IN  /\ \A k \in 1 .. Len(ch) : events[k] < events[k + 1]
           /\ c \notin past.full /\ client[c].r \in known =>
                /\ Last(events) = job[client[c].r].n
                /\ Len(ch) = job[client[c].r].n - client[c].last
           /\ \A k \in 1 .. Len(ch) : ch[k].done => k = Len(ch)
           /\ \/ c \in subs[client[c].r] /\ job[client[c].r].status \notin Terminal
              \/ client[c].closed
              \/ Doing("close") /\ c \in work.subs

=============================================================================
