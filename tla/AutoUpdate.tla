----------------------------- MODULE AutoUpdate -----------------------------
(***************************************************************************)
(* Auto-update passes (services/scheduler.go, runAutoUpdates): goroutines  *)
(* that go through a list of available updates under the policies they     *)
(* read at the start, beside scans that refill the list, other passes, and *)
(* users who edit policies and work on stacks.  When passes begin and what *)
(* ends their contexts is in UpdateScheduler; here both may happen at any  *)
(* time, which covers it.                                                  *)
(*                                                                         *)
(* A container of a service is <<service, n>>, its n-th incarnation:       *)
(* compose and the standalone update both recreate a container under a new *)
(* id, and the list and the container policies speak of ids.               *)
(***************************************************************************)
EXTENDS Integers

CONSTANTS
  Passes,     \* goroutines that run a pass
  Services,   \* services with one container each
  Stacks,     \* managed stacks
  StackOf,    \* the stack of a service, None for a standalone container
  Targets,    \* stacks and containers on which policies are set
  User,       \* everyone else who takes turns in the operation lock
  None,
  MaxIds,     \* bound on the incarnations of a container
  MaxEdits    \* bound on the edits of policies

Containers == Services \X (1 .. MaxIds)
Keys == Stacks \cup Containers

Rows == [on : BOOLEAN, fails : 0 .. 3, paused : BOOLEAN]
Entries == [id : 1 .. MaxIds, lost : BOOLEAN]  \* lost: StackLookupFailed
Updates == [s : Services, e : Entries, key : Keys, t : Targets,
            res : {"ok", "same", "failed", None}]

ASSUME UpdateAssumption ==
  /\ StackOf \in [Services -> Stacks \cup {None}]
  /\ None \notin Passes \cup Stacks \cup Containers \cup Updates \cup {User}
  /\ User \notin Passes
  /\ Targets \subseteq Keys
  /\ MaxIds \in Nat \ {0} /\ MaxEdits \in Nat

NoEntries == [s \in Services |-> None]
Untouched == [t \in Targets |-> "none"]

VARIABLES
  at,       \* where a pass is
  ended,    \* passes whose context has ended
  todo,     \* the updates a pass has still to go through
  snap,     \* the failure counts a pass read with its policies
  out,      \* what a pass found under each policy
  cur,      \* the update a pass is working on, and how it came out
  cache,    \* table cached_updates
  policy,   \* table auto_update_policies
  id,       \* the incarnation of each service's container
  held,     \* the operation lock
  edit,     \* a policy edit between its read and its write
  edits,    \* the edits so far
  seen      \* history of what happened, read by no action

pass == <<at, ended, todo, snap, out, cur>>
users == <<edit, edits>>
vars == <<pass, cache, policy, id, held, users, seen>>

(* The types of the variables. *)
TypeOK ==
  /\ at \in [Passes -> {"idle", "read", "items", "locked", "updating", "returned"}]
  /\ ended \subseteq Passes
  /\ todo \in [Passes -> [Services -> Entries \cup {None}]]
  /\ snap \in [Passes -> [Targets -> (0 .. 2) \cup {None}]]
  /\ out \in [Passes -> [Targets -> {"none", "ok", "failed"}]]
  /\ cur \in [Passes -> Updates \cup {None}]
  /\ cache \in [Services -> Entries \cup {None}]
  /\ policy \in [Targets -> Rows \cup {None}]
  /\ id \in [Services -> 1 .. MaxIds]
  /\ held \in [Keys -> Passes \cup {User, None}]
  /\ edit \in [t : Targets, row : Rows] \cup {None}
  /\ edits \in 0 .. MaxEdits
  /\ seen \in [failed : [Passes -> SUBSET Targets], ok : [Passes -> SUBSET Targets],
               stale : [Passes -> SUBSET Targets], streak : [Targets -> 0 .. 3]]

On == [on |-> TRUE, fails |-> 0, paused |-> FALSE]

Init ==
  /\ at = [k \in Passes |-> "idle"]
  /\ ended = {}
  /\ todo = [k \in Passes |-> NoEntries]
  /\ snap = [k \in Passes |-> [t \in Targets |-> None]]
  /\ out = [k \in Passes |-> Untouched]
  /\ cur = [k \in Passes |-> None]
  /\ cache = NoEntries
  /\ policy \in [Targets -> {None, On}]
  /\ id = [s \in Services |-> 1]
  /\ held = [x \in Keys |-> None]
  /\ edit = None
  /\ edits = 0
  /\ seen = [failed |-> [k \in Passes |-> {}], ok |-> [k \in Passes |-> {}],
             stale |-> [k \in Passes |-> {}], streak |-> [t \in Targets |-> 0]]

Goes(k, from, to) == at[k] = from /\ at' = [at EXCEPT ![k] = to]

(***************************************************************************)
(* How a pass comes by its list.                                           *)
(***************************************************************************)
(* A scan that found these updates, the stacks of some of them unknown.    *)
(* SetCachedUpdates replaces the table in one transaction.                 *)
Found(found, lost) ==
  [s \in Services |-> IF s \in found THEN [id |-> id[s], lost |-> s \in lost] ELSE None]

SetCachedUpdates ==
  /\ \E found \in SUBSET Services : \E lost \in SUBSET found : cache' = Found(found, lost)
  /\ UNCHANGED <<pass, policy, id, held, users, seen>>

(* A tick in immediate mode: the pass goes through what its scan returned. *)
BeginImmediate(k) ==
  /\ Goes(k, "idle", "read")
  /\ \E found \in SUBSET Services : \E lost \in SUBSET found :
       /\ cache' = Found(found, lost)
       /\ todo' = [todo EXCEPT ![k] = Found(found, lost)]
  /\ UNCHANGED <<ended, snap, out, cur, policy, id, held, users, seen>>

(* The apply loop: GetCachedUpdates and pruneVanishedTargets.  What is gone *)
(* is evicted, what cannot be inspected is left for the next pass.          *)
Gone(s) == cache[s] # None /\ cache[s].id # id[s]

BeginScheduled(k) ==
  /\ Goes(k, "idle", "read")
  /\ cache' = [s \in Services |-> IF Gone(s) THEN None ELSE cache[s]]
  /\ \E unresolved \in SUBSET Services :
       todo' = [todo EXCEPT ![k] =
                  [s \in Services |-> IF s \in unresolved THEN None ELSE cache'[s]]]
  /\ UNCHANGED <<ended, snap, out, cur, policy, id, held, users, seen>>

(***************************************************************************)
(* A pass: runAutoUpdates.                                                 *)
(***************************************************************************)
Leave(k) ==
  /\ at' = [at EXCEPT ![k] = "idle"]
  /\ ended' = ended \ {k}
  /\ todo' = [todo EXCEPT ![k] = NoEntries]
  /\ snap' = [snap EXCEPT ![k] = [t \in Targets |-> None]]
  /\ seen' = [seen EXCEPT !.failed[k] = {}, !.ok[k] = {}, !.stale[k] = {}]
  /\ UNCHANGED <<out, cur, cache, policy, id, held, users>>

(* Auto-update is off, or one of the reads failed. *)
NoPass(k) == at[k] = "read" /\ Leave(k)

IsOn(row) == row # None /\ row.on /\ ~row.paused

(* MUTANT: a policy that is off is read as well. *)
EligibleIfStored(t) == policy[t] # None /\ policy[t].fails < 3

Eligible(t) == IsOn(policy[t])

ReadPolicies(k) ==
  /\ Goes(k, "read", "items")
  /\ snap' = [snap EXCEPT ![k] =
                [t \in Targets |-> IF Eligible(t) THEN policy[t].fails ELSE None]]
  /\ UNCHANGED <<ended, todo, out, cur, cache, policy, id, held, users, seen>>

(* The stack and the lock key of an update, as its scan saw them. *)
ScannedStack(s, e) == IF e.lost THEN None ELSE StackOf[s]
LockKey(s, e) == IF ScannedStack(s, e) = None THEN <<s, e.id>> ELSE ScannedStack(s, e)

(* policyFor: a container policy first, then the policy of its stack. *)
PolicyFor(k, s, e) ==
  LET read == {t \in Targets : snap[k][t] # None}
  IN  IF <<s, e.id>> \in read THEN <<s, e.id>>
      ELSE IF ScannedStack(s, e) \in read THEN ScannedStack(s, e) ELSE None

Passed(k, s) == todo' = [todo EXCEPT ![k][s] = None]

(* MUTANT: a stack the scan could not look up is taken to be none. *)
MayUpdateUnknown(k, s, e) == k \notin ended /\ held[LockKey(s, e)] = None

MayUpdate(k, s, e) ==
  /\ k \notin ended
  /\ ~e.lost
  /\ held[LockKey(s, e)] = None

(* No policy, the context ended, the stack unknown, or its turn taken. *)
SkipUpdate(k, s) ==
  /\ at[k] = "items" /\ todo[k][s] # None
  /\ \/ PolicyFor(k, s, todo[k][s]) = None
     \/ ~MayUpdate(k, s, todo[k][s])
  /\ Passed(k, s)
  /\ UNCHANGED <<at, ended, snap, out, cur, cache, policy, id, held, users, seen>>

TakeTurn(k, s) ==
  /\ todo[k][s] # None
  /\ PolicyFor(k, s, todo[k][s]) # None
  /\ MayUpdate(k, s, todo[k][s])
  /\ Goes(k, "items", "locked")
  /\ LET e == todo[k][s] IN
       /\ held' = [held EXCEPT ![LockKey(s, e)] = k]
       /\ cur' = [cur EXCEPT ![k] = [s |-> s, e |-> e, key |-> LockKey(s, e),
                                     t |-> PolicyFor(k, s, e), res |-> None]]
  /\ Passed(k, s)
  /\ UNCHANGED <<ended, snap, out, cache, policy, id, users, seen>>

(* The "pending" row of the history, without which nothing is updated. *)
InsertHistory(k) ==
  /\ Goes(k, "locked", "updating")
  /\ UNCHANGED <<ended, todo, snap, out, cur, cache, policy, id, held, users, seen>>

ReleaseTurn(k) ==
  /\ held' = [held EXCEPT ![cur[k].key] = None]
  /\ cur' = [cur EXCEPT ![k] = None]

InsertFails(k) ==
  /\ Goes(k, "locked", "items")
  /\ ReleaseTurn(k)
  /\ UNCHANGED <<ended, todo, snap, out, cache, policy, id, users, seen>>

(* UpdateContainer.  A container that is gone cannot be updated; otherwise *)
(* only a failure may leave the old container in place.                    *)
UpdateContainer(k) ==
  LET c == cur[k]
      live == c.e.id = id[c.s]
  IN  /\ Goes(k, "updating", "returned")
      /\ \E res \in {"ok", "same", "failed"}, recreated \in BOOLEAN :
           /\ ~live => res = "failed" /\ ~recreated
           /\ res # "failed" => recreated
           /\ recreated => id[c.s] < MaxIds
           /\ id' = IF recreated THEN [id EXCEPT ![c.s] = @ + 1] ELSE id
           /\ cur' = [cur EXCEPT ![k].res = res]
           /\ seen' = [seen EXCEPT
                !.failed[k] = IF res = "failed" THEN @ \cup {c.t} ELSE @,
                !.ok[k] = IF res = "ok" THEN @ \cup {c.t} ELSE @]
      /\ UNCHANGED <<ended, todo, snap, out, cache, policy, held, users>>

(* What a pass makes of several updates under one policy. *)
Outcome(sofar, res) ==
  IF res = "failed" THEN "failed" ELSE IF res = "ok" /\ sofar = "none" THEN "ok" ELSE sofar

(* MUTANT: a failed update is taken off the list too. *)
EvictsAlways(res) == TRUE

Evicts(res) == res # "failed"

(* The history row, the eviction (which may fail) and the release. *)
RecordUpdate(k) ==
  LET c == cur[k]
  IN  /\ Goes(k, "returned", "items")
      /\ \E deleted \in BOOLEAN :
           cache' = IF deleted /\ Evicts(c.res) /\ cache[c.s] # None /\ cache[c.s].id = c.e.id
                      THEN [cache EXCEPT ![c.s] = None] ELSE cache
      /\ out' = [out EXCEPT ![k][c.t] = Outcome(@, c.res)]
      /\ ReleaseTurn(k)
      /\ UNCHANGED <<ended, todo, snap, policy, id, users, seen>>

(* Every update has had its turn. *)
Through(k) == at[k] = "items" /\ todo[k] = NoEntries

MustPause(n) == n >= 3

RowAfter(n) == [on |-> TRUE, fails |-> n, paused |-> MustPause(n)]

FailsOf(row) == IF row = None THEN 0 ELSE row.fails

(* Every other pass that has read its policies has now read an old row. *)
Stale(k, t) ==
  [j \in Passes |-> IF j # k /\ at[j] \notin {"idle", "read"}
                      THEN seen.stale[j] \cup {t} ELSE seen.stale[j]]

(* Failed passes in a row, taken up from the row after an edit, a stale *)
(* write or a write that failed.                                        *)
StreakAfter(k, t, n) ==
  IF t \in seen.stale[k] THEN n
  ELSE IF t \in seen.failed[k] THEN seen.streak[t] + 1
  ELSE IF t \in seen.ok[k] THEN 0 ELSE seen.streak[t]

(* The upsert of one policy after every update has run. *)
SettlePolicy(k, t) ==
  LET n == IF out[k][t] = "failed" THEN snap[k][t] + 1 ELSE 0
  IN  /\ Through(k) /\ out[k][t] # "none"
      /\ out' = [out EXCEPT ![k][t] = "none"]
      /\ \/ /\ policy' = [policy EXCEPT ![t] = RowAfter(n)]
            /\ seen' = [seen EXCEPT !.streak[t] = StreakAfter(k, t, n), !.stale = Stale(k, t)]
         \/ /\ seen' = [seen EXCEPT !.streak[t] = FailsOf(policy[t])]
            /\ UNCHANGED policy
      /\ UNCHANGED <<at, ended, todo, snap, cur, cache, id, held, users>>

PassEnds(k) == Through(k) /\ out[k] = Untouched /\ Leave(k)

(* The pass deadline, or a stop of the scheduler. *)
ContextEnds(k) ==
  /\ at[k] # "idle" /\ k \notin ended
  /\ ended' = ended \cup {k}
  /\ UNCHANGED <<at, todo, snap, out, cur, cache, policy, id, held, users, seen>>

(***************************************************************************)
(* Users: the policy handlers, and the stack handlers under the lock.      *)
(***************************************************************************)
Edited(t, row) ==
  /\ policy' = [policy EXCEPT ![t] = row]
  /\ seen' = [seen EXCEPT !.stale = Stale(None, t), !.streak[t] = FailsOf(row)]
  /\ UNCHANGED <<pass, cache, id, held>>

(* upsertAutoUpdatePolicy reads the row and writes it in two statements: *)
(* what it will write is settled by what it read.                        *)
RowOf(row, on) ==
  LET kept == row # None /\ on /\ ~row.paused
  IN  [on |-> on, fails |-> IF kept THEN row.fails ELSE 0, paused |-> FALSE]

ReadForEdit(t, on) ==
  /\ edit = None /\ edits < MaxEdits
  /\ edit' = [t |-> t, row |-> RowOf(policy[t], on)]
  /\ edits' = edits + 1
  /\ UNCHANGED <<pass, cache, policy, id, held, seen>>

UpsertPolicy ==
  /\ edit # None
  /\ Edited(edit.t, edit.row)
  /\ edit' = None
  /\ UNCHANGED edits

DeletePolicy(t) ==
  /\ policy[t] # None /\ edits < MaxEdits
  /\ Edited(t, None)
  /\ edits' = edits + 1
  /\ UNCHANGED edit

OwnKey(s) == LockKey(s, [id |-> id[s], lost |-> FALSE])

UserTakes(s) ==
  /\ held[OwnKey(s)] = None
  /\ held' = [held EXCEPT ![OwnKey(s)] = User]
  /\ UNCHANGED <<pass, cache, policy, id, users, seen>>

Redeploy(s) ==
  /\ held[OwnKey(s)] = User /\ id[s] < MaxIds
  /\ id' = [id EXCEPT ![s] = @ + 1]
  /\ UNCHANGED <<pass, cache, policy, held, users, seen>>

UserLeaves(key) ==
  /\ held[key] = User
  /\ held' = [held EXCEPT ![key] = None]
  /\ UNCHANGED <<pass, cache, policy, id, users, seen>>

Works(k) ==
  \/ NoPass(k) \/ ReadPolicies(k)
  \/ \E s \in Services : SkipUpdate(k, s) \/ TakeTurn(k, s)
  \/ InsertHistory(k) \/ InsertFails(k) \/ UpdateContainer(k) \/ RecordUpdate(k)
  \/ \E t \in Targets : SettlePolicy(k, t)
  \/ PassEnds(k)

Next ==
  \/ SetCachedUpdates
  \/ \E k \in Passes : BeginImmediate(k) \/ BeginScheduled(k) \/ Works(k) \/ ContextEnds(k)
  \/ \E t \in Targets, on \in BOOLEAN : ReadForEdit(t, on)
  \/ UpsertPolicy
  \/ \E t \in Targets : DeletePolicy(t)
  \/ \E s \in Services : UserTakes(s) \/ Redeploy(s)
  \/ \E key \in Keys : UserLeaves(key)

Spec == Init /\ [][Next]_vars

(***************************************************************************)
(* Properties.                                                             *)
(***************************************************************************)
(* A pass has the turns it needs and no others: while it updates a         *)
(* container that exists, the turn of the stack that container really      *)
(* belongs to (which is why an update whose stack the scan could not look  *)
(* up is skipped), or of the container if there is none; and at no time a  *)
(* turn left behind by an update it has done with, on which the next       *)
(* operation would be refused for ever (scheduler.go:1202-1267, 1337).     *)
TurnsAreExact ==
  \A k \in Passes :
    /\ (at[k] = "updating" /\ cur[k].e.id = id[cur[k].s]) =>
         held[IF StackOf[cur[k].s] = None THEN <<cur[k].s, cur[k].e.id>>
              ELSE StackOf[cur[k].s]] = k
    /\ \A key \in Keys : held[key] = k => cur[k] # None /\ cur[k].key = key

(* The failure counter of a policy is the number of passes in a row with a *)
(* failed update under it, however many services failed or succeeded in    *)
(* one pass, and whatever was skipped; at three the policy is paused       *)
(* (scheduler.go:1340-1395).  A row that somebody else wrote while a pass  *)
(* ran restarts the count.                                                 *)
CountsFailedPasses ==
  \A t \in Targets : policy[t] # None =>
    /\ policy[t].fails = seen.streak[t]
    /\ policy[t].paused <=> policy[t].fails = 3

(* What a pass must keep right whoever works, scans or edits beside it.    *)
PassInv == TypeOK /\ TurnsAreExact /\ CountsFailedPasses

(* A pass turns a policy on again only if the policy was turned off,       *)
(* deleted or paused while that pass ran: a pass that begins afterwards    *)
(* leaves it alone (scheduler.go:1109-1129, 1342-1395).                    *)
OffStaysOff ==
  [][\A t \in Targets : (~IsOn(policy[t]) /\ IsOn(policy'[t])) =>
       \/ edit # None /\ edit' = None
       \/ \E k \in Passes : t \in seen.stale[k]]_vars

(* An update leaves the list only when a scan writes the list anew or its  *)
(* container has been replaced: what was skipped or has failed is there    *)
(* for the next pass (scheduler.go:1271-1336, 964-1006).                   *)
NoUpdateIsDropped ==
  [][\A s \in Services : (cache[s] # None /\ cache'[s] = None) =>
       \/ SetCachedUpdates
       \/ \E k \in Passes : BeginImmediate(k)
       \/ cache[s].id # id[s]]_vars
=============================================================================
