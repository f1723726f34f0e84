-------------------------- MODULE AutoUpdateProofs --------------------------
(***************************************************************************)
(* Theorems about auto-update passes, for any number of passes, any        *)
(* services, stacks and policies, and any assignment of services to stacks *)
(* (standalone containers included).                                       *)
(***************************************************************************)
EXTENDS AutoUpdate, UpdateScheduler, TLAPS

(* What the turns depend on has its type. *)
TurnTypes ==
  /\ at \in [Passes -> {"idle", "read", "items", "locked", "updating", "returned"}]
  /\ todo \in [Passes -> [Services -> Entries \cup {None}]]
  /\ cur \in [Passes -> Updates \cup {None}]
  /\ cache \in [Services -> Entries \cup {None}]
  /\ id \in [Services -> 1 .. MaxIds]
  /\ held \in [Keys -> Passes \cup {User, None}]

(* A pass that is working on an update, and no other, holds a turn, and it *)
(* is the turn of what the update really is.                               *)
TurnsMatch ==
  \A k \in Passes :
    /\ at[k] \in {"locked", "updating", "returned"} <=> cur[k] # None
    /\ cur[k] # None =>
         /\ ~cur[k].e.lost
         /\ cur[k].key = LockKey(cur[k].s, cur[k].e)
         /\ held[cur[k].key] = k
    /\ \A key \in Keys : held[key] = k => cur[k] # None /\ cur[k].key = key

(* What a scan makes of the list has the type of a list.                   *)
LEMMA FoundType ==
  ASSUME TurnTypes, NEW found \in SUBSET Services, NEW lost \in SUBSET found
  PROVE  Found(found, lost) \in [Services -> Entries \cup {None}]
  BY DEF TurnTypes, Found, Entries

(* The key of an update is a stack or a container.                         *)
LEMMA KeyType ==
  ASSUME NEW s \in Services, NEW e \in Entries
  PROVE  LockKey(s, e) \in Keys
  BY UpdateAssumption DEF LockKey, ScannedStack, Keys, Containers, Entries

(* A policy that is found is the policy of a target.                       *)
LEMMA PolicyType ==
  ASSUME NEW k \in Passes, NEW s, NEW e, PolicyFor(k, s, e) # None
  PROVE  PolicyFor(k, s, e) \in Targets
  BY DEF PolicyFor

(* Every step preserves these types.                                       *)
LEMMA TurnTypesStep ==
  ASSUME TurnTypes, TurnsMatch, [Next]_vars
  PROVE  TurnTypes'
  <1> USE UpdateAssumption DEF TurnTypes, TurnsMatch
  <1>1. CASE SetCachedUpdates
    <2>1. PICK found \in SUBSET Services : \E lost \in SUBSET found : cache' = Found(found, lost)
      BY <1>1 DEF SetCachedUpdates
    <2>2. PICK lost \in SUBSET found : cache' = Found(found, lost)
      BY <2>1
    <2>3. Found(found, lost) \in [Services -> Entries \cup {None}]
      BY FoundType
    <2> QED
      BY <1>1, <2>2, <2>3 DEF SetCachedUpdates, pass
  <1>2. ASSUME NEW k \in Passes, BeginImmediate(k) PROVE TurnTypes'
    <2>1. PICK found \in SUBSET Services : \E lost \in SUBSET found :
            /\ cache' = Found(found, lost)
            /\ todo' = [todo EXCEPT ![k] = Found(found, lost)]
      BY <1>2 DEF BeginImmediate
    <2>2. PICK lost \in SUBSET found :
            /\ cache' = Found(found, lost)
            /\ todo' = [todo EXCEPT ![k] = Found(found, lost)]
      BY <2>1
    <2>3. Found(found, lost) \in [Services -> Entries \cup {None}]
      BY FoundType
    <2> QED
      BY <1>2, <2>2, <2>3 DEF BeginImmediate, Goes
  <1>3. ASSUME NEW k \in Passes, BeginScheduled(k) PROVE TurnTypes'
    BY <1>3 DEF BeginScheduled, Goes, Gone
  <1>4. ASSUME NEW k \in Passes, NoPass(k) PROVE TurnTypes'
    BY <1>4 DEF NoPass, Leave, NoEntries
  <1>5. ASSUME NEW k \in Passes, ReadPolicies(k) PROVE TurnTypes'
    BY <1>5 DEF ReadPolicies, Goes
  <1>6. ASSUME NEW k \in Passes, NEW s \in Services, SkipUpdate(k, s) PROVE TurnTypes'
    BY <1>6 DEF SkipUpdate, Passed
  <1>7. ASSUME NEW k \in Passes, NEW s \in Services, TakeTurn(k, s) PROVE TurnTypes'
    BY <1>7, KeyType, PolicyType DEF TakeTurn, Goes, Passed, MayUpdate, Updates
  <1>8. ASSUME NEW k \in Passes, InsertHistory(k) PROVE TurnTypes'
    BY <1>8 DEF InsertHistory, Goes
  <1>9. ASSUME NEW k \in Passes, InsertFails(k) PROVE TurnTypes'
    BY <1>9 DEF InsertFails, Goes, ReleaseTurn
  <1>10. ASSUME NEW k \in Passes, UpdateContainer(k) PROVE TurnTypes'
    <2>1. cur[k] \in Updates
      BY <1>10 DEF UpdateContainer, Goes
    <2>2. PICK res \in {"ok", "same", "failed"} : cur' = [cur EXCEPT ![k].res = res]
      BY <1>10 DEF UpdateContainer
    <2>3. cur' \in [Passes -> Updates \cup {None}]
      BY <2>1, <2>2 DEF Updates
    <2>4. id' \in [Services -> 1 .. MaxIds]
      BY <1>10, <2>1 DEF UpdateContainer, Updates
    <2> QED
      BY <1>10, <2>3, <2>4 DEF UpdateContainer, Goes
  <1>11. ASSUME NEW k \in Passes, RecordUpdate(k) PROVE TurnTypes'
    <2>1. /\ cur' = [cur EXCEPT ![k] = None]
          /\ \E key : held' = [held EXCEPT ![key] = None]
      BY <1>11 DEF RecordUpdate, ReleaseTurn
    <2>2. \E s \in Services : cache' = [cache EXCEPT ![s] = None] \/ cache' = cache
      <3>1. cur[k] \in Updates
        BY <1>11 DEF RecordUpdate, Goes
      <3>2. cur[k].s \in Services
        BY <3>1 DEF Updates
      <3> QED
        BY <1>11, <3>2 DEF RecordUpdate
    <2>3. at' = [at EXCEPT ![k] = "items"] /\ UNCHANGED <<todo, id>>
      BY <1>11 DEF RecordUpdate, Goes
    <2>4. cache' \in [Services -> Entries \cup {None}]
      BY <2>2
    <2>5. cur' \in [Passes -> Updates \cup {None}]
      BY <2>1
    <2>6. held' \in [Keys -> Passes \cup {User, None}]
      <3> HIDE DEF TurnsMatch
      <3>1. PICK key : held' = [held EXCEPT ![key] = None]
        BY <2>1
      <3> QED
        BY <3>1
    <2> QED
      BY <2>3, <2>4, <2>5, <2>6
  <1>12. ASSUME NEW k \in Passes, NEW t \in Targets, SettlePolicy(k, t) PROVE TurnTypes'
    BY <1>12 DEF SettlePolicy
  <1>13. ASSUME NEW k \in Passes, PassEnds(k) PROVE TurnTypes'
    BY <1>13 DEF PassEnds, Through, Leave, NoEntries
  <1>14. ASSUME NEW k \in Passes, ContextEnds(k) PROVE TurnTypes'
    BY <1>14 DEF ContextEnds
  <1>15. ASSUME NEW t \in Targets, NEW on \in BOOLEAN, ReadForEdit(t, on) PROVE TurnTypes'
    BY <1>15 DEF ReadForEdit, pass
  <1>16. CASE UpsertPolicy
    BY <1>16 DEF UpsertPolicy, Edited, pass
  <1>17. ASSUME NEW t \in Targets, DeletePolicy(t) PROVE TurnTypes'
    BY <1>17 DEF DeletePolicy, Edited, pass
  <1>18. ASSUME NEW s \in Services, UserTakes(s) PROVE TurnTypes'
    BY <1>18 DEF UserTakes, pass
  <1>19. ASSUME NEW s \in Services, Redeploy(s) PROVE TurnTypes'
    BY <1>19 DEF Redeploy, pass
  <1>20. ASSUME NEW key \in Keys, UserLeaves(key) PROVE TurnTypes'
    BY <1>20 DEF UserLeaves, pass
  <1>21. CASE UNCHANGED vars
    BY <1>21 DEF vars, pass
  <1> HIDE DEF TurnTypes, TurnsMatch
  <1> QED
    BY <1>1, <1>2, <1>3, <1>4, <1>5, <1>6, <1>7, <1>8, <1>9, <1>10, <1>11,
       <1>12, <1>13, <1>14, <1>15, <1>16, <1>17, <1>18, <1>19, <1>20, <1>21 DEF Next, Works

(* A turn is taken with the update and given back with it.                 *)
LEMMA TurnsStep ==
  ASSUME TurnTypes, TurnsMatch, [Next]_vars
  PROVE  TurnsMatch'
  <1> USE UpdateAssumption DEF TurnTypes, TurnsMatch
  <1>1. CASE SetCachedUpdates
    BY <1>1, FoundType DEF SetCachedUpdates, pass
  <1>2. ASSUME NEW k \in Passes, BeginImmediate(k) PROVE TurnsMatch'
    BY <1>2, FoundType DEF BeginImmediate, Goes
  <1>3. ASSUME NEW k \in Passes, BeginScheduled(k) PROVE TurnsMatch'
    BY <1>3 DEF BeginScheduled, Goes, Gone
  <1>4. ASSUME NEW k \in Passes, NoPass(k) PROVE TurnsMatch'
    BY <1>4 DEF NoPass, Leave, NoEntries
  <1>5. ASSUME NEW k \in Passes, ReadPolicies(k) PROVE TurnsMatch'
    BY <1>5 DEF ReadPolicies, Goes
  <1>6. ASSUME NEW k \in Passes, NEW s \in Services, SkipUpdate(k, s) PROVE TurnsMatch'
    BY <1>6 DEF SkipUpdate, Passed
  <1>7. ASSUME NEW k \in Passes, NEW s \in Services, TakeTurn(k, s) PROVE TurnsMatch'
    BY <1>7, KeyType, PolicyType DEF TakeTurn, Goes, Passed, MayUpdate, Updates
  <1>8. ASSUME NEW k \in Passes, InsertHistory(k) PROVE TurnsMatch'
    BY <1>8 DEF InsertHistory, Goes
  <1>9. ASSUME NEW k \in Passes, InsertFails(k) PROVE TurnsMatch'
    BY <1>9 DEF InsertFails, Goes, ReleaseTurn
  <1>10. ASSUME NEW k \in Passes, UpdateContainer(k) PROVE TurnsMatch'
    BY <1>10 DEF UpdateContainer, Goes, Updates
  <1>11. ASSUME NEW k \in Passes, RecordUpdate(k) PROVE TurnsMatch'
    BY <1>11 DEF RecordUpdate, Goes, ReleaseTurn
  <1>12. ASSUME NEW k \in Passes, NEW t \in Targets, SettlePolicy(k, t) PROVE TurnsMatch'
    BY <1>12 DEF SettlePolicy
  <1>13. ASSUME NEW k \in Passes, PassEnds(k) PROVE TurnsMatch'
    BY <1>13 DEF PassEnds, Through, Leave, NoEntries
  <1>14. ASSUME NEW k \in Passes, ContextEnds(k) PROVE TurnsMatch'
    BY <1>14 DEF ContextEnds
  <1>15. ASSUME NEW t \in Targets, NEW on \in BOOLEAN, ReadForEdit(t, on) PROVE TurnsMatch'
    BY <1>15 DEF ReadForEdit, pass
  <1>16. CASE UpsertPolicy
    BY <1>16 DEF UpsertPolicy, Edited, pass
  <1>17. ASSUME NEW t \in Targets, DeletePolicy(t) PROVE TurnsMatch'
    BY <1>17 DEF DeletePolicy, Edited, pass
  <1>18. ASSUME NEW s \in Services, UserTakes(s) PROVE TurnsMatch'
    BY <1>18 DEF UserTakes, pass
  <1>19. ASSUME NEW s \in Services, Redeploy(s) PROVE TurnsMatch'
    BY <1>19 DEF Redeploy, pass
  <1>20. ASSUME NEW key \in Keys, UserLeaves(key) PROVE TurnsMatch'
    BY <1>20 DEF UserLeaves, pass
  <1>21. CASE UNCHANGED vars
    BY <1>21 DEF vars, pass
  <1> HIDE DEF TurnTypes, TurnsMatch
  <1> QED
    BY <1>1, <1>2, <1>3, <1>4, <1>5, <1>6, <1>7, <1>8, <1>9, <1>10, <1>11,
       <1>12, <1>13, <1>14, <1>15, <1>16, <1>17, <1>18, <1>19, <1>20, <1>21 DEF Next, Works

(* A pass has exactly the turn of the container it is updating.            *)
THEOREM TurnsExact == Spec => []TurnsAreExact
  <1>1. Init => TurnTypes /\ TurnsMatch
    BY UpdateAssumption DEF Init, TurnTypes, TurnsMatch, NoEntries
  <1>2. Spec => [](TurnTypes /\ TurnsMatch)
    BY <1>1, TurnTypesStep, TurnsStep, PTL DEF Spec
  <1>3. TurnTypes /\ TurnsMatch => TurnsAreExact
    BY UpdateAssumption DEF TurnTypes, TurnsMatch, TurnsAreExact, LockKey, ScannedStack, Updates
  <1> QED
    BY <1>2, <1>3, PTL

(* An update that did not fail has replaced its container.                 *)
Replaced ==
  \A k \in Passes : (at[k] = "returned" /\ cur[k].res # "failed") =>
    cur[k].e.id < id[cur[k].s]

(* Incarnations only grow.                                                 *)
LEMMA ReplacedStep ==
  ASSUME TurnTypes, TurnsMatch, Replaced, [Next]_vars
  PROVE  Replaced'
  <1> USE UpdateAssumption DEF TurnTypes, TurnsMatch, Replaced
  <1>1. CASE SetCachedUpdates
    BY <1>1 DEF SetCachedUpdates, pass
  <1>2. ASSUME NEW k \in Passes, BeginImmediate(k) PROVE Replaced'
    BY <1>2 DEF BeginImmediate, Goes
  <1>3. ASSUME NEW k \in Passes, BeginScheduled(k) PROVE Replaced'
    BY <1>3 DEF BeginScheduled, Goes, Gone
  <1>4. ASSUME NEW k \in Passes, NoPass(k) PROVE Replaced'
    BY <1>4 DEF NoPass, Leave, NoEntries
  <1>5. ASSUME NEW k \in Passes, ReadPolicies(k) PROVE Replaced'
    <2>1. \A j \in Passes : at'[j] = at[j] \/ at'[j] = "items"
      BY <1>5 DEF ReadPolicies, Goes
    <2>2. UNCHANGED <<cur, id>>
      BY <1>5 DEF ReadPolicies
    <2> QED
      BY <2>1, <2>2
  <1>6. ASSUME NEW k \in Passes, NEW s \in Services, SkipUpdate(k, s) PROVE Replaced'
    BY <1>6 DEF SkipUpdate, Passed
  <1>7. ASSUME NEW k \in Passes, NEW s \in Services, TakeTurn(k, s) PROVE Replaced'
    BY <1>7 DEF TakeTurn, Goes, Passed, MayUpdate, Updates
  <1>8. ASSUME NEW k \in Passes, InsertHistory(k) PROVE Replaced'
    BY <1>8 DEF InsertHistory, Goes
  <1>9. ASSUME NEW k \in Passes, InsertFails(k) PROVE Replaced'
    BY <1>9 DEF InsertFails, Goes, ReleaseTurn
  <1>10. ASSUME NEW k \in Passes, UpdateContainer(k) PROVE Replaced'
    <2>1. cur[k] \in Updates
      BY <1>10 DEF UpdateContainer, Goes
    <2>2. cur[k].s \in Services /\ cur[k].e.id \in Int
      BY <2>1 DEF Updates, Entries
    <2>3. PICK res \in {"ok", "same", "failed"}, recreated \in BOOLEAN :
            /\ cur[k].e.id # id[cur[k].s] => res = "failed"
            /\ res # "failed" => recreated
            /\ id' = IF recreated THEN [id EXCEPT ![cur[k].s] = @ + 1] ELSE id
            /\ cur' = [cur EXCEPT ![k].res = res]
      BY <1>10 DEF UpdateContainer
    <2>4. \A s \in Services : id[s] \in Int /\ id'[s] \in Int /\ id'[s] >= id[s]
      BY <2>2, <2>3
    <2>5. ASSUME NEW j \in Passes, at'[j] = "returned", cur'[j].res # "failed"
          PROVE  cur'[j].e.id < id'[cur'[j].s]
      <3>1. CASE j = k
        <4>1. cur'[k].e = cur[k].e /\ cur'[k].s = cur[k].s /\ cur'[k].res = res
          BY <2>1, <2>3 DEF Updates
        <4>2. id'[cur[k].s] = id[cur[k].s] + 1 /\ cur[k].e.id = id[cur[k].s]
          BY <2>2, <2>3, <2>5, <3>1, <4>1
        <4> QED
          BY <2>2, <3>1, <4>1, <4>2
      <3>2. CASE j # k
        <4>1. cur'[j] = cur[j] /\ at[j] = "returned"
          BY <1>10, <2>3, <2>5, <3>2 DEF UpdateContainer, Goes
        <4>2. cur[j] \in Updates
          BY <4>1
        <4>3. cur[j].s \in Services /\ cur[j].e.id \in Int
          BY <4>2 DEF Updates, Entries
        <4>4. cur[j].e.id < id[cur[j].s]
          BY <2>5, <4>1
        <4> QED
          BY <2>4, <2>5, <4>1, <4>3, <4>4
      <3> QED
        BY <3>1, <3>2
    <2> QED
      BY <2>5
  <1>11. ASSUME NEW k \in Passes, RecordUpdate(k) PROVE Replaced'
    BY <1>11 DEF RecordUpdate, Goes, ReleaseTurn
  <1>12. ASSUME NEW k \in Passes, NEW t \in Targets, SettlePolicy(k, t) PROVE Replaced'
    BY <1>12 DEF SettlePolicy
  <1>13. ASSUME NEW k \in Passes, PassEnds(k) PROVE Replaced'
    BY <1>13 DEF PassEnds, Through, Leave, NoEntries
  <1>14. ASSUME NEW k \in Passes, ContextEnds(k) PROVE Replaced'
    BY <1>14 DEF ContextEnds
  <1>15. ASSUME NEW t \in Targets, NEW on \in BOOLEAN, ReadForEdit(t, on) PROVE Replaced'
    BY <1>15 DEF ReadForEdit, pass
  <1>16. CASE UpsertPolicy
    BY <1>16 DEF UpsertPolicy, Edited, pass
  <1>17. ASSUME NEW t \in Targets, DeletePolicy(t) PROVE Replaced'
    BY <1>17 DEF DeletePolicy, Edited, pass
  <1>18. ASSUME NEW s \in Services, UserTakes(s) PROVE Replaced'
    BY <1>18 DEF UserTakes, pass
  <1>19. ASSUME NEW s \in Services, Redeploy(s) PROVE Replaced'
    BY <1>19 DEF Redeploy, pass, Updates, Entries
  <1>20. ASSUME NEW key \in Keys, UserLeaves(key) PROVE Replaced'
    BY <1>20 DEF UserLeaves, pass
  <1>21. CASE UNCHANGED vars
    BY <1>21 DEF vars, pass
  <1> HIDE DEF TurnTypes, TurnsMatch, Replaced
  <1> QED
    BY <1>1, <1>2, <1>3, <1>4, <1>5, <1>6, <1>7, <1>8, <1>9, <1>10, <1>11,
       <1>12, <1>13, <1>14, <1>15, <1>16, <1>17, <1>18, <1>19, <1>20, <1>21 DEF Next, Works

(* The passes of every reachable state: what is known of a pass's updates  *)
(* holds at all times.                                                     *)
LEMMA ReplacedAlways == Spec => [](TurnTypes /\ TurnsMatch /\ Replaced)
  <1>1. Init => TurnTypes /\ TurnsMatch /\ Replaced
    BY UpdateAssumption DEF Init, TurnTypes, TurnsMatch, Replaced, NoEntries
  <1> QED
    BY <1>1, TurnTypesStep, TurnsStep, ReplacedStep, PTL DEF Spec

(* What a pass skipped, or failed to update, stays on the list.            *)
THEOREM UpdatesKept == Spec => NoUpdateIsDropped
  <1> DEFINE Kept == \A s \in Services : (cache[s] # None /\ cache'[s] = None) =>
                       \/ SetCachedUpdates
                       \/ \E k \in Passes : BeginImmediate(k)
                       \/ cache[s].id # id[s]
  <1>1. ASSUME TurnTypes, TurnsMatch, Replaced, [Next]_vars PROVE [Kept]_vars
    <2> USE UpdateAssumption
    <2>1. ASSUME NEW k \in Passes, BeginScheduled(k) PROVE Kept
      BY <1>1, <2>1 DEF BeginScheduled, Gone, TurnTypes
    <2>2. ASSUME NEW k \in Passes, RecordUpdate(k) PROVE Kept
      <3>1. cur[k] \in Updates
        BY <1>1, <2>2 DEF RecordUpdate, Goes, TurnsMatch, TurnTypes
      <3>2. cur[k].res # "failed" => cur[k].e.id < id[cur[k].s]
        BY <1>1, <2>2 DEF RecordUpdate, Goes, Replaced
      <3>3. cur[k].e.id \in Int /\ cur[k].s \in Services /\ id[cur[k].s] \in Int
        BY <1>1, <3>1 DEF Updates, Entries, TurnTypes
      <3>4. ASSUME NEW s \in Services, cache[s] # None, cache'[s] = None
            PROVE  cache[s].id # id[s]
        <4>1. cur[k].res # "failed" /\ s = cur[k].s /\ cache[s].id = cur[k].e.id
          BY <1>1, <2>2, <3>3, <3>4 DEF RecordUpdate, Evicts, TurnTypes
        <4> QED
          BY <3>2, <3>3, <4>1
      <3> QED
        BY <3>4
    <2>3. CASE SetCachedUpdates
      BY <2>3
    <2>4. ASSUME NEW k \in Passes, BeginImmediate(k) PROVE Kept
      BY <2>4
    <2>5. \/ cache' = cache
          \/ SetCachedUpdates
          \/ \E k \in Passes : BeginImmediate(k) \/ BeginScheduled(k) \/ RecordUpdate(k)
      <3>1. ASSUME NEW k \in Passes, Works(k) PROVE cache' = cache \/ RecordUpdate(k)
        <4>1. CASE NoPass(k) \/ PassEnds(k) \/ ReadPolicies(k) \/ InsertHistory(k) \/ InsertFails(k)
          BY <4>1 DEF NoPass, PassEnds, Leave, ReadPolicies, InsertHistory, InsertFails
        <4>2. CASE \E s \in Services : SkipUpdate(k, s) \/ TakeTurn(k, s)
          BY <4>2 DEF SkipUpdate, TakeTurn
        <4>3. CASE UpdateContainer(k)
          BY <4>3 DEF UpdateContainer
        <4>4. CASE \E t \in Targets : SettlePolicy(k, t)
          BY <4>4 DEF SettlePolicy
        <4> QED
          BY <3>1, <4>1, <4>2, <4>3, <4>4 DEF Works
      <3>2. CASE \E k \in Passes : ContextEnds(k)
        BY <3>2 DEF ContextEnds
      <3>3. CASE UpsertPolicy \/ \E t \in Targets : DeletePolicy(t) \/ \E on \in BOOLEAN : ReadForEdit(t, on)
        BY <3>3 DEF UpsertPolicy, DeletePolicy, ReadForEdit, Edited
      <3>4. CASE (\E s \in Services : UserTakes(s) \/ Redeploy(s)) \/ \E key \in Keys : UserLeaves(key)
        BY <3>4 DEF UserTakes, Redeploy, UserLeaves
      <3>5. CASE UNCHANGED vars
        BY <3>5 DEF vars
      <3> QED
        BY <1>1, <3>1, <3>2, <3>3, <3>4, <3>5 DEF Next
    <2> QED
      BY <2>1, <2>2, <2>3, <2>4, <2>5
  <1>2. TurnTypes /\ TurnsMatch /\ Replaced /\ [Next]_vars => [Kept]_vars
    BY <1>1
  <1> QED
    BY <1>2, ReplacedAlways, PTL DEF Spec, NoUpdateIsDropped

-----------------------------------------------------------------------------
(* What a pass still has to write of a policy: until every update has had  *)
(* its turn, and then until the policy is settled.                         *)
Unsettled(k, t) == ~Through(k) \/ out[k][t] # "none"

(* The update under t that has just failed and is not yet recorded.        *)
JustFailed(k, t) == at[k] = "returned" /\ cur[k].t = t /\ cur[k].res = "failed"

(* What a pass found under a policy is what happened under it.             *)
OutcomeSeen(k, t) ==
  /\ at[k] \in {"idle", "read"} => out[k][t] = "none"
  /\ out[k][t] # "none" \/ (cur[k] # None /\ cur[k].t = t) => snap[k][t] # None
  /\ out[k][t] = "failed" => t \in seen.failed[k]
  /\ out[k][t] = "ok" => t \in seen.ok[k]
  /\ at[k] = "returned" /\ cur[k].t = t =>
       /\ cur[k].res = "failed" => t \in seen.failed[k]
       /\ cur[k].res = "ok" => t \in seen.ok[k]
  /\ Unsettled(k, t) /\ t \in seen.failed[k] => out[k][t] = "failed" \/ JustFailed(k, t)

OutcomesAreSeen == \A k \in Passes, t \in Targets : OutcomeSeen(k, t)

(* Unless somebody else has written the row since, a policy that a pass    *)
(* goes by and has not settled is on and has the count the pass read.      *)
SnapIsFresh(k, t) ==
  (at[k] \notin {"idle", "read"} /\ Unsettled(k, t) /\ snap[k][t] # None
     /\ t \notin seen.stale[k]) => IsOn(policy[t]) /\ policy[t].fails = snap[k][t]

SnapsAreFresh == \A k \in Passes, t \in Targets : SnapIsFresh(k, t)

(* An edit that is under way never writes a row that should be paused.     *)
EditsArePlain == edit # None => ~edit.row.paused /\ edit.row.fails # 3

CountInv == OutcomesAreSeen /\ SnapsAreFresh /\ EditsArePlain /\ CountsFailedPasses

(* What the counting depends on has its type as well.                      *)
CountTypes ==
  /\ ended \subseteq Passes
  /\ snap \in [Passes -> [Targets -> (0 .. 2) \cup {None}]]
  /\ out \in [Passes -> [Targets -> {"none", "ok", "failed"}]]
  /\ policy \in [Targets -> Rows \cup {None}]
  /\ edit \in [t : Targets, row : Rows] \cup {None}
  /\ edits \in 0 .. MaxEdits

SeenTypes ==
  seen \in [failed : [Passes -> SUBSET Targets], ok : [Passes -> SUBSET Targets],
            stale : [Passes -> SUBSET Targets], streak : [Targets -> 0 .. 3]]

(* The type invariant falls into the part about turns, the part about      *)
(* counts and the part about what was seen.                                *)
LEMMA TypesTogether == TypeOK <=> TurnTypes /\ CountTypes /\ SeenTypes
  BY DEF TypeOK, TurnTypes, CountTypes, SeenTypes

(* Counts stay within their bounds: a pass reads a policy that is not      *)
(* paused, so one more failure takes it to three at most.                  *)
LEMMA CountBounds ==
  /\ 0 \in 0 .. 2 /\ 0 \in 0 .. 3 /\ 0 # 3
  /\ \A n \in 0 .. 2 : n + 1 \in 0 .. 3 /\ n \in 0 .. 3 /\ n # 3
  /\ \A n \in 0 .. 3 : n # 3 => n \in 0 .. 2
  /\ \A n \in 0 .. 3 : MustPause(n) <=> n = 3
  BY DEF MustPause

(* The rows of the policies, and the counts read from them.                *)
LEMMA RowTypes ==
  /\ \A row \in Rows : row.fails \in 0 .. 3 /\ row.on \in BOOLEAN /\ row.paused \in BOOLEAN
  /\ \A n \in 0 .. 3 : RowAfter(n) \in Rows
  /\ \A row \in Rows \cup {None} : FailsOf(row) \in 0 .. 3
  BY CountBounds DEF Rows, RowAfter, FailsOf, MustPause

(* Every step preserves these types.                                       *)
LEMMA CountTypesStep ==
  ASSUME TurnTypes, TurnsMatch, CountTypes, CountInv, [Next]_vars
  PROVE  CountTypes'
  <1> USE UpdateAssumption DEF CountTypes
  <1>1. CASE SetCachedUpdates
    BY <1>1 DEF SetCachedUpdates, pass, users
  <1>2. ASSUME NEW k \in Passes, BeginImmediate(k) PROVE CountTypes'
    BY <1>2 DEF BeginImmediate, Goes, users
  <1>3. ASSUME NEW k \in Passes, BeginScheduled(k) PROVE CountTypes'
    BY <1>3 DEF BeginScheduled, Goes, users
  <1>4. ASSUME NEW k \in Passes, NoPass(k) PROVE CountTypes'
    BY <1>4 DEF NoPass, Leave, users
  <1>5. ASSUME NEW k \in Passes, ReadPolicies(k) PROVE CountTypes'
    <2>1. ASSUME NEW t \in Targets, Eligible(t) PROVE policy[t].fails \in 0 .. 2
      <3>1. policy[t] \in Rows /\ policy[t] # None /\ ~policy[t].paused
        BY <2>1 DEF Eligible, IsOn
      <3>2. policy[t].fails \in 0 .. 3 /\ policy[t].fails # 3
        BY <3>1, RowTypes DEF CountInv, CountsFailedPasses
      <3> QED
        BY <3>2, CountBounds
    <2>2. snap' = [snap EXCEPT ![k] =
                     [t \in Targets |-> IF Eligible(t) THEN policy[t].fails ELSE None]]
      BY <1>5 DEF ReadPolicies
    <2>3. [t \in Targets |-> IF Eligible(t) THEN policy[t].fails ELSE None]
            \in [Targets -> (0 .. 2) \cup {None}]
      BY <2>1
    <2>4. snap' \in [Passes -> [Targets -> (0 .. 2) \cup {None}]]
      BY <2>2, <2>3
    <2> QED
      BY <1>5, <2>4 DEF ReadPolicies, Goes, users
  <1>6. ASSUME NEW k \in Passes, NEW s \in Services, SkipUpdate(k, s)
        PROVE  CountTypes'
    BY <1>6 DEF SkipUpdate, Passed, users
  <1>7. ASSUME NEW k \in Passes, NEW s \in Services, TakeTurn(k, s)
        PROVE  CountTypes'
    BY <1>7 DEF TakeTurn, Goes, Passed, users
  <1>8. ASSUME NEW k \in Passes, InsertHistory(k) PROVE CountTypes'
    BY <1>8 DEF InsertHistory, Goes, users
  <1>9. ASSUME NEW k \in Passes, InsertFails(k) PROVE CountTypes'
    BY <1>9 DEF InsertFails, Goes, ReleaseTurn, users
  <1>10. ASSUME NEW k \in Passes, UpdateContainer(k) PROVE CountTypes'
    BY <1>10 DEF UpdateContainer, Goes, users
  <1>11. ASSUME NEW k \in Passes, RecordUpdate(k) PROVE CountTypes'
    <2>1. cur[k] \in Updates
      BY <1>11 DEF RecordUpdate, Goes, TurnTypes, TurnsMatch
    <2>2. out' = [out EXCEPT ![k][cur[k].t] = Outcome(@, cur[k].res)]
      BY <1>11 DEF RecordUpdate
    <2>3. \A j \in Passes, t \in Targets :
            Outcome(out[j][t], cur[k].res) \in {"none", "ok", "failed"}
      BY DEF Outcome
    <2>4. out' \in [Passes -> [Targets -> {"none", "ok", "failed"}]]
      BY <2>2, <2>3
    <2> QED
      BY <1>11, <2>4 DEF RecordUpdate, users
  <1>12. ASSUME NEW k \in Passes, NEW t \in Targets, SettlePolicy(k, t)
        PROVE  CountTypes'
    <2> DEFINE n == IF out[k][t] = "failed" THEN snap[k][t] + 1 ELSE 0
    <2>1. snap[k][t] \in 0 .. 2
      BY <1>12 DEF SettlePolicy, CountInv, OutcomesAreSeen, OutcomeSeen
    <2>2. RowAfter(n) \in Rows
      <3>1. n \in 0 .. 3
        BY <2>1, CountBounds
      <3> QED
        BY <3>1, RowTypes
    <2>3. policy' = [policy EXCEPT ![t] = RowAfter(n)] \/ policy' = policy
      BY <1>12 DEF SettlePolicy
    <2>4. out' = [out EXCEPT ![k][t] = "none"]
      BY <1>12 DEF SettlePolicy
    <2> HIDE DEF n
    <2>5. policy' \in [Targets -> Rows \cup {None}]
      BY <2>2, <2>3
    <2>6. out' \in [Passes -> [Targets -> {"none", "ok", "failed"}]]
      BY <2>4
    <2> QED
      BY <1>12, <2>5, <2>6 DEF SettlePolicy, users
  <1>13. ASSUME NEW k \in Passes, PassEnds(k) PROVE CountTypes'
    BY <1>13 DEF PassEnds, Leave, users
  <1>14. ASSUME NEW k \in Passes, ContextEnds(k) PROVE CountTypes'
    BY <1>14 DEF ContextEnds, users
  <1>15. ASSUME NEW t \in Targets, NEW on \in BOOLEAN, ReadForEdit(t, on)
        PROVE  CountTypes'
    <2>1. RowOf(policy[t], on) \in Rows
      BY RowTypes, CountBounds DEF RowOf, Rows
    <2>2. edit' = [t |-> t, row |-> RowOf(policy[t], on)]
      BY <1>15 DEF ReadForEdit
    <2>3. edit' \in [t : Targets, row : Rows]
      BY <2>1, <2>2
    <2>4. edits' \in 0 .. MaxEdits
      <3>1. edits < MaxEdits /\ edits' = edits + 1 /\ edits \in 0 .. MaxEdits /\ MaxEdits \in Nat
        BY <1>15 DEF ReadForEdit
      <3> QED
        BY <3>1
    <2> QED
      BY <1>15, <2>3, <2>4 DEF ReadForEdit, pass
  <1>16. CASE UpsertPolicy
    BY <1>16 DEF UpsertPolicy, Edited, pass
  <1>17. ASSUME NEW t \in Targets, DeletePolicy(t) PROVE CountTypes'
    BY <1>17 DEF DeletePolicy, Edited, pass
  <1>18. ASSUME NEW s \in Services, UserTakes(s) PROVE CountTypes'
    BY <1>18 DEF UserTakes, pass, users
  <1>19. ASSUME NEW s \in Services, Redeploy(s) PROVE CountTypes'
    BY <1>19 DEF Redeploy, pass, users
  <1>20. ASSUME NEW key \in Keys, UserLeaves(key) PROVE CountTypes'
    BY <1>20 DEF UserLeaves, pass, users
  <1>21. CASE UNCHANGED vars
    BY <1>21 DEF vars, pass, users
  <1> HIDE DEF CountTypes
  <1>22. ASSUME NEW k \in Passes, Works(k) PROVE CountTypes'
    BY <1>22, <1>4, <1>5, <1>6, <1>7, <1>8, <1>9, <1>10, <1>11, <1>12, <1>13 DEF Works
  <1> QED
    BY <1>1, <1>2, <1>3, <1>14, <1>15, <1>16, <1>17, <1>18, <1>19, <1>20,
       <1>21, <1>22 DEF Next

(* The streak of a policy a pass settles: the count it writes.             *)
LEMMA Streak ==
  ASSUME TurnTypes, CountTypes, SeenTypes, CountInv, NEW k \in Passes, NEW t \in Targets,
         SettlePolicy(k, t)
  PROVE  LET n == IF out[k][t] = "failed" THEN snap[k][t] + 1 ELSE 0 IN
         /\ n \in 0 .. 3
         /\ StreakAfter(k, t, n) = n
  <1> DEFINE n == IF out[k][t] = "failed" THEN snap[k][t] + 1 ELSE 0
  <1>1. /\ Through(k) /\ at[k] = "items" /\ out[k][t] \in {"ok", "failed"}
        /\ OutcomeSeen(k, t) /\ SnapIsFresh(k, t)
    BY DEF SettlePolicy, Through, CountTypes, CountInv, OutcomesAreSeen, SnapsAreFresh
  <1>2. snap[k][t] \in 0 .. 2 /\ Unsettled(k, t) /\ ~JustFailed(k, t)
    BY <1>1 DEF OutcomeSeen, CountTypes, Unsettled, JustFailed
  <1>3. n \in 0 .. 3
    BY <1>2, CountBounds
  <1>4. CASE t \in seen.stale[k]
    BY <1>3, <1>4 DEF StreakAfter
  <1>5. CASE t \notin seen.stale[k]
    <2>1. policy[t] # None /\ policy[t].fails = snap[k][t]
      <3>1. at[k] \notin {"idle", "read"} /\ snap[k][t] # None
        BY <1>1 DEF OutcomeSeen
      <3> QED
        BY <1>1, <1>2, <1>5, <3>1 DEF SnapIsFresh, IsOn
    <2>2. seen.streak[t] = snap[k][t]
      BY <2>1 DEF CountInv, CountsFailedPasses
    <2>3. t \in seen.failed[k] <=> out[k][t] = "failed"
      BY <1>1, <1>2 DEF OutcomeSeen
    <2>4. out[k][t] = "ok" => t \in seen.ok[k]
      BY <1>1 DEF OutcomeSeen
    <2> QED
      BY <1>1, <1>3, <1>5, <2>2, <2>3, <2>4 DEF StreakAfter
  <1> QED
    BY <1>3, <1>4, <1>5

(* Every step preserves the types of what the passes have seen.            *)
LEMMA SeenTypesStep ==
  ASSUME TurnTypes, TurnsMatch, CountTypes, SeenTypes, CountInv, [Next]_vars
  PROVE  SeenTypes'
  <1> USE UpdateAssumption DEF SeenTypes
  <1>1. CASE SetCachedUpdates
    BY <1>1 DEF SetCachedUpdates, pass, users
  <1>2. ASSUME NEW k \in Passes, BeginImmediate(k) PROVE SeenTypes'
    BY <1>2 DEF BeginImmediate, Goes, users
  <1>3. ASSUME NEW k \in Passes, BeginScheduled(k) PROVE SeenTypes'
    BY <1>3 DEF BeginScheduled, Goes, users
  <1>4. ASSUME NEW k \in Passes, NoPass(k) PROVE SeenTypes'
    BY <1>4 DEF NoPass, Leave, users
  <1>5. ASSUME NEW k \in Passes, ReadPolicies(k) PROVE SeenTypes'
    BY <1>5 DEF ReadPolicies, Eligible, Goes, users
  <1>6. ASSUME NEW k \in Passes, NEW s \in Services, SkipUpdate(k, s)
        PROVE  SeenTypes'
    BY <1>6 DEF SkipUpdate, Passed, users
  <1>7. ASSUME NEW k \in Passes, NEW s \in Services, TakeTurn(k, s)
        PROVE  SeenTypes'
    BY <1>7 DEF TakeTurn, Goes, Passed, users
  <1>8. ASSUME NEW k \in Passes, InsertHistory(k) PROVE SeenTypes'
    BY <1>8 DEF InsertHistory, Goes, users
  <1>9. ASSUME NEW k \in Passes, InsertFails(k) PROVE SeenTypes'
    BY <1>9 DEF InsertFails, Goes, ReleaseTurn, users
  <1>10. ASSUME NEW k \in Passes, UpdateContainer(k) PROVE SeenTypes'
    <2>1. cur[k].t \in Targets
      BY <1>10 DEF UpdateContainer, Goes, TurnTypes, TurnsMatch, Updates
    <2>2. PICK res \in {"ok", "same", "failed"} :
            seen' = [seen EXCEPT
                !.failed[k] = IF res = "failed" THEN @ \cup {cur[k].t} ELSE @,
                !.ok[k] = IF res = "ok" THEN @ \cup {cur[k].t} ELSE @]
      BY <1>10 DEF UpdateContainer
    <2> DEFINE f == IF res = "failed" THEN seen.failed[k] \cup {cur[k].t} ELSE seen.failed[k]
               g == IF res = "ok" THEN seen.ok[k] \cup {cur[k].t} ELSE seen.ok[k]
    <2>3. f \in SUBSET Targets /\ g \in SUBSET Targets
      BY <2>1
    <2>4. seen' = [seen EXCEPT !.failed[k] = f, !.ok[k] = g]
      BY <2>2
    <2> HIDE DEF f, g
    <2> QED
      BY <2>3, <2>4
  <1>11. ASSUME NEW k \in Passes, RecordUpdate(k) PROVE SeenTypes'
    BY <1>11 DEF RecordUpdate, Goes, ReleaseTurn, users
  <1>12. ASSUME NEW k \in Passes, NEW t \in Targets, SettlePolicy(k, t)
        PROVE  SeenTypes'
    <2> DEFINE n == IF out[k][t] = "failed" THEN snap[k][t] + 1 ELSE 0
    <2>1. CASE seen' = [seen EXCEPT !.streak[t] = StreakAfter(k, t, n), !.stale = Stale(k, t)]
      <3>1. StreakAfter(k, t, n) \in 0 .. 3
        BY <1>12, Streak
      <3>2. Stale(k, t) \in [Passes -> SUBSET Targets]
        BY DEF Stale
      <3> HIDE DEF n
      <3> QED
        BY <2>1, <3>1, <3>2
    <2>2. CASE seen' = [seen EXCEPT !.streak[t] = FailsOf(policy[t])]
      <3>1. FailsOf(policy[t]) \in 0 .. 3
        BY RowTypes DEF CountTypes
      <3> QED
        BY <2>2, <3>1
    <2> QED
      BY <1>12, <2>1, <2>2 DEF SettlePolicy
  <1>13. ASSUME NEW k \in Passes, PassEnds(k) PROVE SeenTypes'
    BY <1>13 DEF PassEnds, Leave, users
  <1>14. ASSUME NEW k \in Passes, ContextEnds(k) PROVE SeenTypes'
    BY <1>14 DEF ContextEnds, users
  <1>15. ASSUME NEW t \in Targets, NEW on \in BOOLEAN, ReadForEdit(t, on)
        PROVE  SeenTypes'
    BY <1>15 DEF ReadForEdit, RowOf, pass
  <1>16. CASE UpsertPolicy
    <2>1. edit.t \in Targets /\ FailsOf(edit.row) \in 0 .. 3
      BY <1>16, RowTypes DEF UpsertPolicy, CountTypes
    <2>2. Stale(None, edit.t) \in [Passes -> SUBSET Targets]
      BY <2>1 DEF Stale
    <2>3. seen' = [seen EXCEPT !.stale = Stale(None, edit.t), !.streak[edit.t] = FailsOf(edit.row)]
      BY <1>16 DEF UpsertPolicy, Edited
    <2> QED
      BY <2>1, <2>2, <2>3
  <1>17. ASSUME NEW t \in Targets, DeletePolicy(t) PROVE SeenTypes'
    <2>1. FailsOf(None) \in 0 .. 3
      BY RowTypes
    <2>2. Stale(None, t) \in [Passes -> SUBSET Targets]
      BY DEF Stale
    <2>3. seen' = [seen EXCEPT !.stale = Stale(None, t), !.streak[t] = FailsOf(None)]
      BY <1>17 DEF DeletePolicy, Edited
    <2> QED
      BY <2>1, <2>2, <2>3
  <1>18. ASSUME NEW s \in Services, UserTakes(s) PROVE SeenTypes'
    BY <1>18 DEF UserTakes, pass, users
  <1>19. ASSUME NEW s \in Services, Redeploy(s) PROVE SeenTypes'
    BY <1>19 DEF Redeploy, pass, users
  <1>20. ASSUME NEW key \in Keys, UserLeaves(key) PROVE SeenTypes'
    BY <1>20 DEF UserLeaves, pass, users
  <1>21. CASE UNCHANGED vars
    BY <1>21 DEF vars, pass, users
  <1> HIDE DEF SeenTypes
  <1>22. ASSUME NEW k \in Passes, Works(k) PROVE SeenTypes'
    BY <1>22, <1>4, <1>5, <1>6, <1>7, <1>8, <1>9, <1>10, <1>11, <1>12, <1>13 DEF Works
  <1> QED
    BY <1>1, <1>2, <1>3, <1>14, <1>15, <1>16, <1>17, <1>18, <1>19, <1>20,
       <1>21, <1>22 DEF Next

-----------------------------------------------------------------------------
(* A policy that is found was read.                                        *)
LEMMA PolicyRead ==
  ASSUME NEW k \in Passes, NEW s, NEW e, PolicyFor(k, s, e) # None
  PROVE  snap[k][PolicyFor(k, s, e)] # None
  BY DEF PolicyFor

(* What a step leaves alone of one pass.                                   *)
LEMMA OutcomeStays ==
  ASSUME OutcomesAreSeen, NEW j \in Passes, NEW t \in Targets,
         at'[j] = at[j], out'[j] = out[j], todo'[j] = todo[j], cur'[j] = cur[j],
         snap'[j] = snap[j], seen'.failed[j] = seen.failed[j], seen'.ok[j] = seen.ok[j]
  PROVE  OutcomeSeen(j, t)'
  BY DEF OutcomesAreSeen, OutcomeSeen, Unsettled, JustFailed, Through

(* A step keeps what the passes found what was seen to happen.             *)
LEMMA OutcomesStep ==
  ASSUME TurnTypes, TurnsMatch, CountTypes, SeenTypes, CountInv, [Next]_vars
  PROVE  OutcomesAreSeen'
  <1> USE UpdateAssumption
  <1>1. CASE SetCachedUpdates
    BY <1>1 DEF SetCachedUpdates, pass, users, CountInv, OutcomesAreSeen, OutcomeSeen,
         Unsettled, JustFailed, Through, TurnTypes, TurnsMatch, CountTypes,
         SeenTypes
  <1>2. ASSUME NEW k \in Passes, BeginImmediate(k) PROVE OutcomesAreSeen'
    BY <1>2 DEF BeginImmediate, Goes, users, CountInv, OutcomesAreSeen, OutcomeSeen,
         Unsettled, JustFailed, Through, TurnTypes, TurnsMatch, CountTypes,
         SeenTypes
  <1>3. ASSUME NEW k \in Passes, BeginScheduled(k) PROVE OutcomesAreSeen'
    BY <1>3 DEF BeginScheduled, Goes, users, CountInv, OutcomesAreSeen, OutcomeSeen,
         Unsettled, JustFailed, Through, TurnTypes, TurnsMatch, CountTypes,
         SeenTypes
  <1>4. ASSUME NEW k \in Passes, NoPass(k) PROVE OutcomesAreSeen'
    <2>1. ASSUME NEW j \in Passes, NEW u \in Targets, j # k PROVE OutcomeSeen(j, u)'
      <3>1. /\ at'[j] = at[j] /\ out'[j] = out[j] /\ todo'[j] = todo[j] /\ cur'[j] = cur[j]
            /\ snap'[j] = snap[j] /\ seen'.failed[j] = seen.failed[j] /\ seen'.ok[j] = seen.ok[j]
        BY <1>4, <2>1 DEF NoPass, Leave, TurnTypes, CountTypes, SeenTypes
      <3> QED
        BY <3>1, OutcomeStays DEF CountInv
    <2>2. ASSUME NEW u \in Targets PROVE OutcomeSeen(k, u)'
      <3>1. /\ at'[k] = "idle" /\ out'[k] = out[k] /\ cur'[k] = cur[k]
            /\ seen'.failed[k] = {} /\ seen'.ok[k] = {} /\ at[k] = "read"
        BY <1>4 DEF NoPass, Leave, TurnTypes, CountTypes, SeenTypes
      <3>2. OutcomeSeen(k, u)
        BY DEF CountInv, OutcomesAreSeen
      <3>3. out[k][u] = "none" /\ cur[k] = None
        BY <1>4, <3>1, <3>2 DEF OutcomeSeen, TurnsMatch
      <3> QED
        BY <3>1, <3>3 DEF OutcomeSeen, JustFailed
    <2> QED
      BY <2>1, <2>2 DEF OutcomesAreSeen
  <1>5. ASSUME NEW k \in Passes, ReadPolicies(k) PROVE OutcomesAreSeen'
    <2>1. ASSUME NEW j \in Passes, NEW u \in Targets, j # k PROVE OutcomeSeen(j, u)'
      <3>1. /\ at'[j] = at[j] /\ out'[j] = out[j] /\ todo'[j] = todo[j] /\ cur'[j] = cur[j]
            /\ snap'[j] = snap[j] /\ seen'.failed[j] = seen.failed[j] /\ seen'.ok[j] = seen.ok[j]
        BY <1>5, <2>1 DEF ReadPolicies, Goes, TurnTypes, CountTypes, SeenTypes
      <3> QED
        BY <3>1, OutcomeStays DEF CountInv
    <2>2. ASSUME NEW u \in Targets PROVE OutcomeSeen(k, u)'
      <3>1. /\ at[k] = "read" /\ at'[k] = "items" /\ out'[k] = out[k] /\ cur'[k] = cur[k]
            /\ seen'.failed[k] = seen.failed[k] /\ seen'.ok[k] = seen.ok[k]
        BY <1>5 DEF ReadPolicies, Goes, TurnTypes, CountTypes, SeenTypes
      <3>2. OutcomeSeen(k, u)
        BY DEF CountInv, OutcomesAreSeen
      <3>3. out[k][u] = "none" /\ cur[k] = None /\ u \notin seen.failed[k]
        BY <3>1, <3>2 DEF OutcomeSeen, TurnsMatch, Unsettled, Through, JustFailed
      <3> QED
        BY <3>1, <3>3 DEF OutcomeSeen, JustFailed
    <2> QED
      BY <2>1, <2>2 DEF OutcomesAreSeen
  <1>6. ASSUME NEW k \in Passes, NEW s \in Services, SkipUpdate(k, s)
        PROVE  OutcomesAreSeen'
    BY <1>6 DEF SkipUpdate, Passed, NoEntries, users, CountInv, OutcomesAreSeen, OutcomeSeen, Unsettled,
         JustFailed, Through, TurnTypes, TurnsMatch, CountTypes, SeenTypes
  <1>7. ASSUME NEW k \in Passes, NEW s \in Services, TakeTurn(k, s)
        PROVE  OutcomesAreSeen'
    <2>1. ASSUME NEW j \in Passes, NEW u \in Targets, j # k PROVE OutcomeSeen(j, u)'
      <3>1. /\ at'[j] = at[j] /\ out'[j] = out[j] /\ todo'[j] = todo[j] /\ cur'[j] = cur[j]
            /\ snap'[j] = snap[j] /\ seen'.failed[j] = seen.failed[j] /\ seen'.ok[j] = seen.ok[j]
        BY <1>7, <2>1 DEF TakeTurn, Goes, Passed, TurnTypes, CountTypes, SeenTypes
      <3> QED
        BY <3>1, OutcomeStays DEF CountInv
    <2>2. ASSUME NEW u \in Targets PROVE OutcomeSeen(k, u)'
      <3>1. /\ at[k] = "items" /\ at'[k] = "locked" /\ out'[k] = out[k] /\ snap'[k] = snap[k]
            /\ snap[k][cur'[k].t] # None /\ todo[k][s] # None
            /\ seen'.failed[k] = seen.failed[k] /\ seen'.ok[k] = seen.ok[k]
        BY <1>7, PolicyRead DEF TakeTurn, Goes, Passed, TurnTypes, CountTypes, SeenTypes
      <3>2. OutcomeSeen(k, u)
        BY DEF CountInv, OutcomesAreSeen
      <3>3. /\ out[k][u] # "none" => snap[k][u] # None
            /\ u \in seen.failed[k] => out[k][u] = "failed"
        BY <3>1, <3>2 DEF OutcomeSeen, Unsettled, Through, JustFailed, NoEntries
      <3> QED
        BY <3>1, <3>2, <3>3 DEF OutcomeSeen, JustFailed
    <2> QED
      BY <2>1, <2>2 DEF OutcomesAreSeen
  <1>8. ASSUME NEW k \in Passes, InsertHistory(k) PROVE OutcomesAreSeen'
    BY <1>8 DEF InsertHistory, Goes, users, CountInv, OutcomesAreSeen, OutcomeSeen,
         Unsettled, JustFailed, Through, TurnTypes, TurnsMatch, CountTypes,
         SeenTypes
  <1>9. ASSUME NEW k \in Passes, InsertFails(k) PROVE OutcomesAreSeen'
    BY <1>9 DEF InsertFails, Goes, ReleaseTurn, users, CountInv, OutcomesAreSeen,
         OutcomeSeen, Unsettled, JustFailed, Through, TurnTypes, TurnsMatch,
         CountTypes, SeenTypes
  <1>10. ASSUME NEW k \in Passes, UpdateContainer(k) PROVE OutcomesAreSeen'
    BY <1>10 DEF UpdateContainer, Goes, users, CountInv, OutcomesAreSeen, OutcomeSeen,
         Unsettled, JustFailed, Through, TurnTypes, TurnsMatch, CountTypes,
         SeenTypes
  <1>11. ASSUME NEW k \in Passes, RecordUpdate(k) PROVE OutcomesAreSeen'
    BY <1>11 DEF RecordUpdate, Goes, ReleaseTurn, Outcome, users, CountInv, OutcomesAreSeen, OutcomeSeen,
         Unsettled, JustFailed, Through, TurnTypes, TurnsMatch, CountTypes, SeenTypes
  <1>12. ASSUME NEW k \in Passes, NEW t \in Targets, SettlePolicy(k, t)
        PROVE  OutcomesAreSeen'
    <2>1. ASSUME NEW j \in Passes, NEW u \in Targets, j # k PROVE OutcomeSeen(j, u)'
      <3>1. /\ at'[j] = at[j] /\ out'[j] = out[j] /\ todo'[j] = todo[j] /\ cur'[j] = cur[j]
            /\ snap'[j] = snap[j] /\ seen'.failed[j] = seen.failed[j] /\ seen'.ok[j] = seen.ok[j]
        BY <1>12, <2>1 DEF SettlePolicy, Through, TurnTypes, CountTypes, SeenTypes
      <3> QED
        BY <3>1, OutcomeStays DEF CountInv
    <2>2. ASSUME NEW u \in Targets PROVE OutcomeSeen(k, u)'
      <3>1. /\ at[k] = "items" /\ at'[k] = at[k] /\ todo[k] = NoEntries /\ todo'[k] = todo[k]
            /\ out'[k] = [out[k] EXCEPT ![t] = "none"] /\ cur'[k] = cur[k] /\ snap'[k] = snap[k]
            /\ seen'.failed[k] = seen.failed[k] /\ seen'.ok[k] = seen.ok[k]
        BY <1>12 DEF SettlePolicy, Through, TurnTypes, CountTypes, SeenTypes
      <3>2. OutcomeSeen(k, u)
        BY DEF CountInv, OutcomesAreSeen
      <3>3. cur[k] = None /\ out'[k][u] = (IF u = t THEN "none" ELSE out[k][u])
        BY <3>1 DEF TurnsMatch, CountTypes
      <3> QED
        BY <3>1, <3>2, <3>3 DEF OutcomeSeen, JustFailed, Unsettled, Through
    <2> QED
      BY <2>1, <2>2 DEF OutcomesAreSeen
  <1>13. ASSUME NEW k \in Passes, PassEnds(k) PROVE OutcomesAreSeen'
    <2>1. ASSUME NEW j \in Passes, NEW u \in Targets, j # k PROVE OutcomeSeen(j, u)'
      <3>1. /\ at'[j] = at[j] /\ out'[j] = out[j] /\ todo'[j] = todo[j] /\ cur'[j] = cur[j]
            /\ snap'[j] = snap[j] /\ seen'.failed[j] = seen.failed[j] /\ seen'.ok[j] = seen.ok[j]
        BY <1>13, <2>1 DEF PassEnds, Through, Leave, TurnTypes, CountTypes, SeenTypes
      <3> QED
        BY <3>1, OutcomeStays DEF CountInv
    <2>2. ASSUME NEW u \in Targets PROVE OutcomeSeen(k, u)'
      <3>1. /\ at'[k] = "idle" /\ out'[k] = out[k] /\ cur'[k] = cur[k]
            /\ seen'.failed[k] = {} /\ seen'.ok[k] = {}
            /\ at[k] = "items" /\ out[k] = Untouched
        BY <1>13 DEF PassEnds, Through, Leave, TurnTypes, CountTypes, SeenTypes
      <3>2. OutcomeSeen(k, u)
        BY DEF CountInv, OutcomesAreSeen
      <3>3. out[k][u] = "none" /\ cur[k] = None
        BY <3>1 DEF Untouched, TurnsMatch
      <3> QED
        BY <3>1, <3>3 DEF OutcomeSeen, JustFailed
    <2> QED
      BY <2>1, <2>2 DEF OutcomesAreSeen
  <1>14. ASSUME NEW k \in Passes, ContextEnds(k) PROVE OutcomesAreSeen'
    BY <1>14 DEF ContextEnds, users, CountInv, OutcomesAreSeen, OutcomeSeen, Unsettled,
         JustFailed, Through, TurnTypes, TurnsMatch, CountTypes, SeenTypes
  <1>15. ASSUME NEW t \in Targets, NEW on \in BOOLEAN, ReadForEdit(t, on)
        PROVE  OutcomesAreSeen'
    BY <1>15 DEF ReadForEdit, RowOf, pass, CountInv, OutcomesAreSeen, OutcomeSeen,
         Unsettled, JustFailed, Through, TurnTypes, TurnsMatch, CountTypes,
         SeenTypes
  <1>16. CASE UpsertPolicy
    BY <1>16 DEF UpsertPolicy, Edited, pass, CountInv, OutcomesAreSeen, OutcomeSeen,
         Unsettled, JustFailed, Through, TurnTypes, TurnsMatch, CountTypes,
         SeenTypes
  <1>17. ASSUME NEW t \in Targets, DeletePolicy(t) PROVE OutcomesAreSeen'
    BY <1>17 DEF DeletePolicy, Edited, pass, CountInv, OutcomesAreSeen, OutcomeSeen,
         Unsettled, JustFailed, Through, TurnTypes, TurnsMatch, CountTypes,
         SeenTypes
  <1>18. ASSUME NEW s \in Services, UserTakes(s) PROVE OutcomesAreSeen'
    BY <1>18 DEF UserTakes, pass, users, CountInv, OutcomesAreSeen, OutcomeSeen,
         Unsettled, JustFailed, Through, TurnTypes, TurnsMatch, CountTypes,
         SeenTypes
  <1>19. ASSUME NEW s \in Services, Redeploy(s) PROVE OutcomesAreSeen'
    BY <1>19 DEF Redeploy, pass, users, CountInv, OutcomesAreSeen, OutcomeSeen, Unsettled,
         JustFailed, Through, TurnTypes, TurnsMatch, CountTypes, SeenTypes
  <1>20. ASSUME NEW key \in Keys, UserLeaves(key) PROVE OutcomesAreSeen'
    BY <1>20 DEF UserLeaves, pass, users, CountInv, OutcomesAreSeen, OutcomeSeen,
         Unsettled, JustFailed, Through, TurnTypes, TurnsMatch, CountTypes,
         SeenTypes
  <1>21. CASE UNCHANGED vars
    BY <1>21 DEF vars, pass, users, CountInv, OutcomesAreSeen, OutcomeSeen, Unsettled,
         JustFailed, Through, TurnTypes, TurnsMatch, CountTypes, SeenTypes
  <1>22. ASSUME NEW k \in Passes, Works(k) PROVE OutcomesAreSeen'
    BY <1>22, <1>4, <1>5, <1>6, <1>7, <1>8, <1>9, <1>10, <1>11, <1>12, <1>13 DEF Works
  <1> QED
    BY <1>1, <1>2, <1>3, <1>14, <1>15, <1>16, <1>17, <1>18, <1>19, <1>20,
       <1>21, <1>22 DEF Next

(* A snapshot stays fresh while neither its pass nor its policy moves.     *)
LEMMA SnapStays ==
  ASSUME SnapsAreFresh, NEW j \in Passes, NEW t \in Targets,
         at'[j] = at[j], out'[j] = out[j], todo'[j] = todo[j], snap'[j] = snap[j],
         seen'.stale[j] = seen.stale[j], policy'[t] = policy[t]
  PROVE  SnapIsFresh(j, t)'
  BY DEF SnapsAreFresh, SnapIsFresh, Unsettled, Through

(* A step that changes a policy makes every other reading of it stale.     *)
LEMMA SnapsStep ==
  ASSUME TurnTypes, TurnsMatch, CountTypes, SeenTypes, CountInv, [Next]_vars
  PROVE  SnapsAreFresh'
  <1> USE UpdateAssumption
  <1>1. CASE SetCachedUpdates
    BY <1>1 DEF SetCachedUpdates, pass, users, CountInv, SnapsAreFresh, SnapIsFresh,
         Unsettled, Through, TurnTypes, CountTypes, SeenTypes
  <1>2. ASSUME NEW k \in Passes, BeginImmediate(k) PROVE SnapsAreFresh'
    BY <1>2 DEF BeginImmediate, Goes, users, CountInv, SnapsAreFresh, SnapIsFresh,
         Unsettled, Through, TurnTypes, CountTypes, SeenTypes
  <1>3. ASSUME NEW k \in Passes, BeginScheduled(k) PROVE SnapsAreFresh'
    BY <1>3 DEF BeginScheduled, Goes, users, CountInv, SnapsAreFresh, SnapIsFresh,
         Unsettled, Through, TurnTypes, CountTypes, SeenTypes
  <1>4. ASSUME NEW k \in Passes, NoPass(k) PROVE SnapsAreFresh'
    BY <1>4 DEF NoPass, Leave, users, CountInv, SnapsAreFresh, SnapIsFresh, Unsettled,
         Through, TurnTypes, CountTypes, SeenTypes
  <1>5. ASSUME NEW k \in Passes, ReadPolicies(k) PROVE SnapsAreFresh'
    BY <1>5 DEF ReadPolicies, Eligible, Goes, users, CountInv, SnapsAreFresh,
         SnapIsFresh, Unsettled, Through, TurnTypes, CountTypes, SeenTypes
  <1>6. ASSUME NEW k \in Passes, NEW s \in Services, SkipUpdate(k, s)
        PROVE  SnapsAreFresh'
    <2>1. ASSUME NEW j \in Passes, NEW u \in Targets, j # k PROVE SnapIsFresh(j, u)'
      <3>1. /\ at'[j] = at[j] /\ out'[j] = out[j] /\ todo'[j] = todo[j] /\ snap'[j] = snap[j]
            /\ seen'.stale[j] = seen.stale[j] /\ policy'[u] = policy[u]
        BY <1>6, <2>1 DEF SkipUpdate, Passed, TurnTypes, CountTypes, SeenTypes
      <3> QED
        BY <3>1, SnapStays DEF CountInv
    <2>2. ASSUME NEW u \in Targets PROVE SnapIsFresh(k, u)'
      <3>1. /\ at[k] = "items" /\ todo[k] # NoEntries /\ snap'[k] = snap[k] /\ out'[k] = out[k]
            /\ seen'.stale[k] = seen.stale[k] /\ policy'[u] = policy[u]
        BY <1>6 DEF SkipUpdate, Passed, TurnTypes, CountTypes, SeenTypes, NoEntries
      <3>2. SnapIsFresh(k, u) /\ Unsettled(k, u)
        BY <3>1 DEF CountInv, SnapsAreFresh, Unsettled, Through
      <3> QED
        BY <3>1, <3>2 DEF SnapIsFresh
    <2> QED
      BY <2>1, <2>2 DEF SnapsAreFresh
  <1>7. ASSUME NEW k \in Passes, NEW s \in Services, TakeTurn(k, s)
        PROVE  SnapsAreFresh'
    <2>1. ASSUME NEW j \in Passes, NEW u \in Targets, j # k PROVE SnapIsFresh(j, u)'
      <3>1. /\ at'[j] = at[j] /\ out'[j] = out[j] /\ todo'[j] = todo[j] /\ snap'[j] = snap[j]
            /\ seen'.stale[j] = seen.stale[j] /\ policy'[u] = policy[u]
        BY <1>7, <2>1 DEF TakeTurn, Goes, Passed, TurnTypes, CountTypes, SeenTypes
      <3> QED
        BY <3>1, SnapStays DEF CountInv
    <2>2. ASSUME NEW u \in Targets PROVE SnapIsFresh(k, u)'
      <3>1. /\ at[k] = "items" /\ todo[k] # NoEntries /\ snap'[k] = snap[k] /\ out'[k] = out[k]
            /\ seen'.stale[k] = seen.stale[k] /\ policy'[u] = policy[u]
        BY <1>7 DEF TakeTurn, Goes, Passed, TurnTypes, CountTypes, SeenTypes, NoEntries
      <3>2. SnapIsFresh(k, u) /\ Unsettled(k, u)
        BY <3>1 DEF CountInv, SnapsAreFresh, Unsettled, Through
      <3> QED
        BY <3>1, <3>2 DEF SnapIsFresh
    <2> QED
      BY <2>1, <2>2 DEF SnapsAreFresh
  <1>8. ASSUME NEW k \in Passes, InsertHistory(k) PROVE SnapsAreFresh'
    BY <1>8 DEF InsertHistory, Goes, users, CountInv, SnapsAreFresh, SnapIsFresh,
         Unsettled, Through, TurnTypes, CountTypes, SeenTypes
  <1>9. ASSUME NEW k \in Passes, InsertFails(k) PROVE SnapsAreFresh'
    BY <1>9 DEF InsertFails, Goes, ReleaseTurn, users, CountInv, SnapsAreFresh,
         SnapIsFresh, Unsettled, Through, TurnTypes, CountTypes, SeenTypes
  <1>10. ASSUME NEW k \in Passes, UpdateContainer(k) PROVE SnapsAreFresh'
    BY <1>10 DEF UpdateContainer, Goes, users, CountInv, SnapsAreFresh, SnapIsFresh,
         Unsettled, Through, TurnTypes, CountTypes, SeenTypes
  <1>11. ASSUME NEW k \in Passes, RecordUpdate(k) PROVE SnapsAreFresh'
    BY <1>11 DEF RecordUpdate, Goes, ReleaseTurn, users, CountInv, SnapsAreFresh,
         SnapIsFresh, Unsettled, Through, TurnTypes, CountTypes, SeenTypes
  <1>12. ASSUME NEW k \in Passes, NEW t \in Targets, SettlePolicy(k, t)
        PROVE  SnapsAreFresh'
    <2>1. CASE UNCHANGED policy /\ seen'.stale = seen.stale
      <3>1. ASSUME NEW j \in Passes, NEW u \in Targets PROVE SnapIsFresh(j, u)'
        <4>1. /\ at'[j] = at[j] /\ todo'[j] = todo[j] /\ snap'[j] = snap[j]
              /\ out'[j][u] # "none" => out[j][u] # "none"
          BY <1>12 DEF SettlePolicy, CountTypes
        <4>2. SnapIsFresh(j, u)
          BY DEF CountInv, SnapsAreFresh
        <4> QED
          BY <2>1, <4>1, <4>2 DEF SnapIsFresh, Unsettled, Through
      <3> QED
        BY <3>1 DEF SnapsAreFresh
    <2>2. CASE /\ \A u \in Targets : u # t => policy'[u] = policy[u]
               /\ seen'.stale = Stale(k, t)
      <3>1. ASSUME NEW j \in Passes, NEW u \in Targets PROVE SnapIsFresh(j, u)'
        <4>1. /\ at'[j] = at[j] /\ todo'[j] = todo[j] /\ snap'[j] = snap[j]
              /\ out'[j][u] # "none" => out[j][u] # "none"
          BY <1>12 DEF SettlePolicy, CountTypes
        <4>2. SnapIsFresh(j, u)
          BY DEF CountInv, SnapsAreFresh
        <4>3. CASE j = k /\ u = t
          <5>1. at'[k] = "items" /\ todo'[k] = NoEntries /\ out'[k][t] = "none"
            BY <1>12 DEF SettlePolicy, Through, CountTypes
          <5> QED
            BY <4>3, <5>1 DEF SnapIsFresh, Unsettled, Through
        <4>4. CASE j # k /\ u = t
          <5>1. at[j] \notin {"idle", "read"} => u \in seen'.stale[j]
            BY <2>2, <4>4 DEF Stale
          <5> QED
            BY <4>1, <5>1 DEF SnapIsFresh
        <4>5. CASE u # t
          <5>1. policy'[u] = policy[u] /\ (u \in seen.stale[j] => u \in seen'.stale[j])
            BY <2>2, <4>5 DEF Stale
          <5> QED
            BY <4>1, <4>2, <5>1 DEF SnapIsFresh, Unsettled, Through
        <4> QED
          BY <4>3, <4>4, <4>5
      <3> QED
        BY <3>1 DEF SnapsAreFresh
    <2>3. \/ UNCHANGED policy /\ seen'.stale = seen.stale
          \/ /\ \A u \in Targets : u # t => policy'[u] = policy[u]
             /\ seen'.stale = Stale(k, t)
      BY <1>12 DEF SettlePolicy, SeenTypes, CountTypes
    <2> QED
      BY <2>1, <2>2, <2>3
  <1>13. ASSUME NEW k \in Passes, PassEnds(k) PROVE SnapsAreFresh'
    BY <1>13 DEF PassEnds, Leave, users, CountInv, SnapsAreFresh, SnapIsFresh, Unsettled,
         Through, TurnTypes, CountTypes, SeenTypes
  <1>14. ASSUME NEW k \in Passes, ContextEnds(k) PROVE SnapsAreFresh'
    BY <1>14 DEF ContextEnds, users, CountInv, SnapsAreFresh, SnapIsFresh, Unsettled,
         Through, TurnTypes, CountTypes, SeenTypes
  <1>15. ASSUME NEW t \in Targets, NEW on \in BOOLEAN, ReadForEdit(t, on)
        PROVE  SnapsAreFresh'
    BY <1>15 DEF ReadForEdit, RowOf, pass, CountInv, SnapsAreFresh, SnapIsFresh,
         Unsettled, Through, TurnTypes, CountTypes, SeenTypes
  <1>16. CASE UpsertPolicy
    <2>1. ASSUME NEW j \in Passes, NEW u \in Targets PROVE SnapIsFresh(j, u)'
      <3>3. CASE u = edit.t
        <4>1. at'[j] = at[j] /\ (at[j] \notin {"idle", "read"} => u \in seen'.stale[j])
          BY <1>16, <3>3 DEF UpsertPolicy, Edited, pass, Stale, SeenTypes
        <4> QED
          BY <4>1 DEF SnapIsFresh
      <3>4. CASE u # edit.t
        <4>1. /\ at'[j] = at[j] /\ todo'[j] = todo[j] /\ snap'[j] = snap[j]
              /\ out'[j][u] = out[j][u] /\ policy'[u] = policy[u]
              /\ u \in seen.stale[j] => u \in seen'.stale[j]
          BY <1>16, <3>4 DEF UpsertPolicy, Edited, pass, Stale, TurnTypes, CountTypes, SeenTypes
        <4>2. SnapIsFresh(j, u)
          BY DEF CountInv, SnapsAreFresh
        <4> QED
          BY <4>1, <4>2 DEF SnapIsFresh, Unsettled, Through
      <3> QED
        BY <3>3, <3>4
    <2> QED
      BY <2>1 DEF SnapsAreFresh
  <1>17. ASSUME NEW t \in Targets, DeletePolicy(t) PROVE SnapsAreFresh'
    <2>1. ASSUME NEW j \in Passes, NEW u \in Targets PROVE SnapIsFresh(j, u)'
      <3>3. CASE u = t
        <4>1. at'[j] = at[j] /\ (at[j] \notin {"idle", "read"} => u \in seen'.stale[j])
          BY <1>17, <3>3 DEF DeletePolicy, Edited, pass, Stale, SeenTypes
        <4> QED
          BY <4>1 DEF SnapIsFresh
      <3>4. CASE u # t
        <4>1. /\ at'[j] = at[j] /\ todo'[j] = todo[j] /\ snap'[j] = snap[j]
              /\ out'[j][u] = out[j][u] /\ policy'[u] = policy[u]
              /\ u \in seen.stale[j] => u \in seen'.stale[j]
          BY <1>17, <3>4 DEF DeletePolicy, Edited, pass, Stale, TurnTypes, CountTypes, SeenTypes
        <4>2. SnapIsFresh(j, u)
          BY DEF CountInv, SnapsAreFresh
        <4> QED
          BY <4>1, <4>2 DEF SnapIsFresh, Unsettled, Through
      <3> QED
        BY <3>3, <3>4
    <2> QED
      BY <2>1 DEF SnapsAreFresh
  <1>18. ASSUME NEW s \in Services, UserTakes(s) PROVE SnapsAreFresh'
    BY <1>18 DEF UserTakes, pass, users, CountInv, SnapsAreFresh, SnapIsFresh, Unsettled,
         Through, TurnTypes, CountTypes, SeenTypes
  <1>19. ASSUME NEW s \in Services, Redeploy(s) PROVE SnapsAreFresh'
    BY <1>19 DEF Redeploy, pass, users, CountInv, SnapsAreFresh, SnapIsFresh, Unsettled,
         Through, TurnTypes, CountTypes, SeenTypes
  <1>20. ASSUME NEW key \in Keys, UserLeaves(key) PROVE SnapsAreFresh'
    BY <1>20 DEF UserLeaves, pass, users, CountInv, SnapsAreFresh, SnapIsFresh, Unsettled,
         Through, TurnTypes, CountTypes, SeenTypes
  <1>21. CASE UNCHANGED vars
    BY <1>21 DEF vars, pass, users, CountInv, SnapsAreFresh, SnapIsFresh, Unsettled,
         Through, TurnTypes, CountTypes, SeenTypes
  <1>22. ASSUME NEW k \in Passes, Works(k) PROVE SnapsAreFresh'
    BY <1>22, <1>4, <1>5, <1>6, <1>7, <1>8, <1>9, <1>10, <1>11, <1>12, <1>13 DEF Works
  <1> QED
    BY <1>1, <1>2, <1>3, <1>14, <1>15, <1>16, <1>17, <1>18, <1>19, <1>20,
       <1>21, <1>22 DEF Next

(* A step changes a count as it changes the failed passes in a row.        *)
LEMMA CountsStep ==
  ASSUME TurnTypes, TurnsMatch, CountTypes, SeenTypes, CountInv, [Next]_vars
  PROVE  (EditsArePlain /\ CountsFailedPasses)'
  <1> USE UpdateAssumption
      DEF CountInv, EditsArePlain, CountsFailedPasses, CountTypes, SeenTypes
  <1>1. CASE SetCachedUpdates
    BY <1>1 DEF SetCachedUpdates, pass, users
  <1>2. ASSUME NEW k \in Passes, BeginImmediate(k)
        PROVE  (EditsArePlain /\ CountsFailedPasses)'
    BY <1>2 DEF BeginImmediate, Goes, users
  <1>3. ASSUME NEW k \in Passes, BeginScheduled(k)
        PROVE  (EditsArePlain /\ CountsFailedPasses)'
    BY <1>3 DEF BeginScheduled, Goes, users
  <1>4. ASSUME NEW k \in Passes, NoPass(k)
        PROVE  (EditsArePlain /\ CountsFailedPasses)'
    BY <1>4 DEF NoPass, Leave, users
  <1>5. ASSUME NEW k \in Passes, ReadPolicies(k)
        PROVE  (EditsArePlain /\ CountsFailedPasses)'
    BY <1>5 DEF ReadPolicies, Eligible, Goes, users
  <1>6. ASSUME NEW k \in Passes, NEW s \in Services, SkipUpdate(k, s)
        PROVE  (EditsArePlain /\ CountsFailedPasses)'
    BY <1>6 DEF SkipUpdate, Passed, users
  <1>7. ASSUME NEW k \in Passes, NEW s \in Services, TakeTurn(k, s)
        PROVE  (EditsArePlain /\ CountsFailedPasses)'
    BY <1>7 DEF TakeTurn, Goes, Passed, users
  <1>8. ASSUME NEW k \in Passes, InsertHistory(k)
        PROVE  (EditsArePlain /\ CountsFailedPasses)'
    BY <1>8 DEF InsertHistory, Goes, users
  <1>9. ASSUME NEW k \in Passes, InsertFails(k)
        PROVE  (EditsArePlain /\ CountsFailedPasses)'
    BY <1>9 DEF InsertFails, Goes, ReleaseTurn, users
  <1>10. ASSUME NEW k \in Passes, UpdateContainer(k)
        PROVE  (EditsArePlain /\ CountsFailedPasses)'
    BY <1>10 DEF UpdateContainer, Goes, users
  <1>11. ASSUME NEW k \in Passes, RecordUpdate(k)
        PROVE  (EditsArePlain /\ CountsFailedPasses)'
    BY <1>11 DEF RecordUpdate, Goes, ReleaseTurn, users
  <1>12. ASSUME NEW k \in Passes, NEW t \in Targets, SettlePolicy(k, t)
        PROVE  (EditsArePlain /\ CountsFailedPasses)'
    <2> DEFINE n == IF out[k][t] = "failed" THEN snap[k][t] + 1 ELSE 0
    <2>1. n \in 0 .. 3 /\ StreakAfter(k, t, n) = n
      BY <1>12, Streak
    <2>2. CASE /\ policy' = [policy EXCEPT ![t] = RowAfter(n)]
               /\ seen' = [seen EXCEPT !.streak[t] = StreakAfter(k, t, n), !.stale = Stale(k, t)]
      <3>1. RowAfter(n).fails = n /\ (RowAfter(n).paused <=> n = 3)
        BY <2>1, CountBounds DEF RowAfter
      <3> HIDE DEF n
      <3>2. policy'[t] = RowAfter(n) /\ seen'.streak[t] = n
        BY <2>1, <2>2
      <3>3. \A u \in Targets : u # t => policy'[u] = policy[u] /\ seen'.streak[u] = seen.streak[u]
        BY <2>2
      <3> QED
        BY <1>12, <3>1, <3>2, <3>3 DEF SettlePolicy, users
    <2>3. CASE seen' = [seen EXCEPT !.streak[t] = FailsOf(policy[t])] /\ UNCHANGED policy
      <3>1. \A u \in Targets : u # t => seen'.streak[u] = seen.streak[u]
        BY <2>3
      <3>2. policy[t] # None => seen'.streak[t] = policy[t].fails
        BY <2>3 DEF FailsOf
      <3> QED
        BY <1>12, <2>3, <3>1, <3>2 DEF SettlePolicy, users
    <2> QED
      BY <1>12, <2>2, <2>3 DEF SettlePolicy
  <1>13. ASSUME NEW k \in Passes, PassEnds(k)
        PROVE  (EditsArePlain /\ CountsFailedPasses)'
    BY <1>13 DEF PassEnds, Leave, users
  <1>14. ASSUME NEW k \in Passes, ContextEnds(k)
        PROVE  (EditsArePlain /\ CountsFailedPasses)'
    BY <1>14 DEF ContextEnds, users
  <1>15. ASSUME NEW t \in Targets, NEW on \in BOOLEAN, ReadForEdit(t, on)
        PROVE  (EditsArePlain /\ CountsFailedPasses)'
    BY <1>15 DEF ReadForEdit, RowOf, pass
  <1>16. CASE UpsertPolicy
    <2>1. edit.t \in Targets /\ edit.row \in Rows /\ ~edit.row.paused /\ edit.row.fails # 3
      BY <1>16 DEF UpsertPolicy
    <2>2. policy'[edit.t] = edit.row /\ seen'.streak[edit.t] = FailsOf(edit.row)
      BY <1>16, <2>1 DEF UpsertPolicy, Edited
    <2>3. \A u \in Targets : u # edit.t => policy'[u] = policy[u] /\ seen'.streak[u] = seen.streak[u]
      BY <1>16, <2>1 DEF UpsertPolicy, Edited
    <2> QED
      BY <1>16, <2>1, <2>2, <2>3 DEF UpsertPolicy, FailsOf
  <1>17. ASSUME NEW t \in Targets, DeletePolicy(t)
        PROVE  (EditsArePlain /\ CountsFailedPasses)'
    BY <1>17 DEF DeletePolicy, Edited, pass
  <1>18. ASSUME NEW s \in Services, UserTakes(s)
        PROVE  (EditsArePlain /\ CountsFailedPasses)'
    BY <1>18 DEF UserTakes, pass, users
  <1>19. ASSUME NEW s \in Services, Redeploy(s)
        PROVE  (EditsArePlain /\ CountsFailedPasses)'
    BY <1>19 DEF Redeploy, pass, users
  <1>20. ASSUME NEW key \in Keys, UserLeaves(key)
        PROVE  (EditsArePlain /\ CountsFailedPasses)'
    BY <1>20 DEF UserLeaves, pass, users
  <1>21. CASE UNCHANGED vars
    BY <1>21 DEF vars, pass, users
  <1> HIDE DEF CountInv, EditsArePlain, CountsFailedPasses, CountTypes, SeenTypes
  <1>22. ASSUME NEW k \in Passes, Works(k) PROVE (EditsArePlain /\ CountsFailedPasses)'
    BY <1>22, <1>4, <1>5, <1>6, <1>7, <1>8, <1>9, <1>10, <1>11, <1>12, <1>13 DEF Works
  <1> QED
    BY <1>1, <1>2, <1>3, <1>14, <1>15, <1>16, <1>17, <1>18, <1>19, <1>20,
       <1>21, <1>22 DEF Next

-----------------------------------------------------------------------------
(* The inductive invariant: the types, the turns of what a pass still has  *)
(* to do, and of every policy what the passes under way have seen of it,   *)
(* so that its count of failed passes can be compared.                     *)
PassIInv == TurnTypes /\ TurnsMatch /\ CountTypes /\ SeenTypes /\ CountInv

(* At the start every policy is off or on with no failures.                *)
LEMMA CountsAtStart == Init => PassIInv
  <1> SUFFICES ASSUME Init PROVE PassIInv
    OBVIOUS
  <1> USE UpdateAssumption DEF Init
  <1>1. TurnTypes /\ TurnsMatch
    BY DEF TurnTypes, TurnsMatch, NoEntries
  <1>2. CountTypes
    <2>1. On \in Rows /\ 0 \in 0 .. MaxEdits
      BY CountBounds DEF On, Rows
    <2>2. policy \in [Targets -> Rows \cup {None}]
      BY <2>1
    <2> QED
      BY <2>1, <2>2 DEF CountTypes, Untouched
  <1>3. SeenTypes
    BY CountBounds DEF SeenTypes
  <1>4. OutcomesAreSeen
    BY DEF OutcomesAreSeen, OutcomeSeen, Unsettled, JustFailed, Through, Untouched
  <1>5. SnapsAreFresh /\ EditsArePlain
    BY DEF SnapsAreFresh, SnapIsFresh, EditsArePlain
  <1>6. CountsFailedPasses
    BY CountBounds DEF CountsFailedPasses, On
  <1> QED
    BY <1>1, <1>2, <1>3, <1>4, <1>5, <1>6 DEF PassIInv, CountInv

(* The inductive invariant holds in every reachable state.                 *)
LEMMA CountsAlways == Spec => []PassIInv
  <1>1. PassIInv /\ [Next]_vars => PassIInv'
    BY TurnTypesStep, TurnsStep, CountTypesStep, SeenTypesStep, OutcomesStep, SnapsStep, CountsStep
       DEF PassIInv, CountInv
  <1> QED
    BY <1>1, CountsAtStart, PTL DEF Spec

(* The failure counter of a policy is the number of passes in a row with a *)
(* failed update under it, the policy is paused at three of them, and a    *)
(* pass has the turns it needs and no others.                              *)
THEOREM PassSafe == Spec => []PassInv
  <1>1. PassIInv /\ TurnsAreExact => PassInv
    BY TypesTogether DEF PassIInv, PassInv, CountInv
  <1> QED
    BY <1>1, CountsAlways, TurnsExact, PTL

(* A policy that is off, deleted or paused before a pass reads it is not   *)
(* turned on by that pass.                                                 *)
THEOREM OffStays == Spec => OffStaysOff
  <1> DEFINE Off == \A t \in Targets : (~IsOn(policy[t]) /\ IsOn(policy'[t])) =>
                      \/ edit # None /\ edit' = None
                      \/ \E k \in Passes : t \in seen.stale[k]
  <1>1. ASSUME PassIInv, [Next]_vars PROVE Off
    <2> USE UpdateAssumption
    <2>1. ASSUME NEW k \in Passes, NEW t \in Targets, SettlePolicy(k, t) PROVE Off
      <3>1. ASSUME NEW u \in Targets, u # t PROVE policy'[u] = policy[u]
        BY <1>1, <2>1, <3>1 DEF SettlePolicy, PassIInv, CountTypes
      <3>2. t \in seen.stale[k] \/ IsOn(policy[t])
        <4>1. OutcomeSeen(k, t) /\ SnapIsFresh(k, t)
          BY <1>1 DEF PassIInv, CountInv, OutcomesAreSeen, SnapsAreFresh
        <4>2. at[k] = "items" /\ Unsettled(k, t) /\ snap[k][t] # None
          BY <2>1, <4>1 DEF SettlePolicy, Through, Unsettled, OutcomeSeen
        <4> QED
          BY <4>1, <4>2 DEF SnapIsFresh
      <3> QED
        BY <3>1, <3>2
    <2>2. CASE UpsertPolicy
      BY <2>2 DEF UpsertPolicy
    <2>3. ASSUME NEW t \in Targets, DeletePolicy(t) PROVE Off
      BY <1>1, <2>3 DEF DeletePolicy, Edited, IsOn, PassIInv, CountTypes
    <2>4. \/ policy' = policy
          \/ UpsertPolicy
          \/ \E t \in Targets : DeletePolicy(t) \/ \E k \in Passes : SettlePolicy(k, t)
      <3>1. ASSUME NEW k \in Passes, Works(k)
            PROVE  policy' = policy \/ \E t \in Targets : SettlePolicy(k, t)
        <4>1. CASE NoPass(k) \/ PassEnds(k) \/ ReadPolicies(k) \/ InsertHistory(k) \/ InsertFails(k)
          BY <4>1 DEF NoPass, PassEnds, Leave, ReadPolicies, InsertHistory, InsertFails
        <4>2. CASE \E s \in Services : SkipUpdate(k, s) \/ TakeTurn(k, s)
          BY <4>2 DEF SkipUpdate, TakeTurn
        <4>3. CASE UpdateContainer(k) \/ RecordUpdate(k)
          BY <4>3 DEF UpdateContainer, RecordUpdate
        <4> QED
          BY <3>1, <4>1, <4>2, <4>3 DEF Works
      <3>2. CASE SetCachedUpdates \/ \E k \in Passes : BeginImmediate(k) \/ BeginScheduled(k)
        BY <3>2 DEF SetCachedUpdates, BeginImmediate, BeginScheduled
      <3>3. CASE \E k \in Passes : ContextEnds(k)
        BY <3>3 DEF ContextEnds
      <3>4. CASE \E t \in Targets, on \in BOOLEAN : ReadForEdit(t, on)
        BY <3>4 DEF ReadForEdit
      <3>5. CASE (\E s \in Services : UserTakes(s) \/ Redeploy(s)) \/ \E key \in Keys : UserLeaves(key)
        BY <3>5 DEF UserTakes, Redeploy, UserLeaves
      <3>6. CASE UNCHANGED vars
        BY <3>6 DEF vars
      <3> QED
        BY <1>1, <3>1, <3>2, <3>3, <3>4, <3>5, <3>6 DEF Next
    <2>5. CASE policy' = policy
      BY <2>5
    <2> QED
      BY <2>1, <2>2, <2>3, <2>4, <2>5
  <1>2. PassIInv /\ [Next]_vars => [Off]_vars
    BY <1>1
  <1> QED
    BY <1>2, CountsAlways, PTL DEF Spec, OffStaysOff

-----------------------------------------------------------------------------
(* The scheduler that starts the passes: any tasks, loops and saves, and   *)
(* any scan intervals.                                                     *)

(* Every step preserves the types.                                         *)
LEMMA SchedTypeStep ==
  ASSUME SchedTypeOK, [SchedNext]_schedVars
  PROVE  SchedTypeOK'
  <1> USE DEF SchedTypeOK, Modes, Rates
  <1>1. ASSUME NEW k \in Tasks, Tick(k) PROVE SchedTypeOK'
    BY <1>1 DEF Tick, TaskGoes
  <1>2. ASSUME NEW k \in Tasks, RunScan(k) PROVE SchedTypeOK'
    BY <1>2 DEF RunScan, TaskGoes
  <1>3. ASSUME NEW k \in Tasks, StartBackgroundScan(k) PROVE SchedTypeOK'
    BY <1>3 DEF StartBackgroundScan, TaskGoes
  <1>4. ASSUME NEW k \in Tasks, ScanFails(k) PROVE SchedTypeOK'
    BY <1>4 DEF ScanFails, TaskGoes
  <1>5. ASSUME NEW k \in Tasks, ScanReturns(k) PROVE SchedTypeOK'
    BY <1>5 DEF ScanReturns, TaskGoes
  <1>6. ASSUME NEW k \in Tasks, ReadMode(k) PROVE SchedTypeOK'
    BY <1>6 DEF ReadMode, TaskGoes
  <1>7. ASSUME NEW k \in Tasks, ApplyReturns(k) PROVE SchedTypeOK'
    BY <1>7 DEF ApplyReturns, TaskGoes
  <1>8. ASSUME NEW l \in Loops, InstantComes(l) PROVE SchedTypeOK'
    BY <1>8 DEF InstantComes
  <1>9. ASSUME NEW l \in Loops, ApplyNow(l) PROVE SchedTypeOK'
    BY <1>9 DEF ApplyNow
  <1>10. ASSUME NEW l \in Loops, ApplyDeferred(l) PROVE SchedTypeOK'
    BY <1>10 DEF ApplyDeferred, AfterDeferral
  <1>11. ASSUME NEW l \in Loops, ApplyEnds(l) PROVE SchedTypeOK'
    BY <1>11 DEF ApplyEnds
  <1>12. ASSUME NEW l \in Loops, Rearm(l) PROVE SchedTypeOK'
    BY <1>12 DEF Rearm, Timer
  <1>13. ASSUME NEW v \in Saves, NEW m \in Modes, NEW i \in Rates,
             NEW reload \in BOOLEAN, WriteSettings(v, m, i, reload) PROVE SchedTypeOK'
    BY <1>13 DEF WriteSettings
  <1>14. ASSUME NEW v \in Saves, Halt(v) PROVE SchedTypeOK'
    <2>1. CASE life.closed /\ save[v].to # Nil
      <3>1. Onward(v) /\ UNCHANGED <<task, loop, now, flag, timer, stored, life>>
        BY <1>14, <2>1 DEF Halt
      <3>2. save' \in [Saves -> [step : {"idle", "written", "halting", "reload"},
                                changed : BOOLEAN, to : Rates, reload : BOOLEAN]]
        BY <3>1 DEF Onward, NoSave
      <3> QED
        BY <3>1, <3>2
    <2>2. CASE ~(life.closed /\ save[v].to # Nil)
      <3>1. save' \in [Saves -> [step : {"idle", "written", "halting", "reload"},
                                changed : BOOLEAN, to : Rates, reload : BOOLEAN]]
        BY <1>14, <2>2 DEF Halt
      <3>2. /\ StopLocked(v, life.closed)
            /\ UNCHANGED <<task, flag, stored>>
        BY <1>14, <2>2 DEF Halt
      <3> QED
        BY <3>1, <3>2 DEF StopLocked, NoTimer
    <2> QED
      BY <2>1, <2>2
  <1>15. ASSUME NEW v \in Saves, HaltReturns(v) PROVE SchedTypeOK'
    <2>1. save' \in [Saves -> [step : {"idle", "written", "halting", "reload"},
                              changed : BOOLEAN, to : Rates, reload : BOOLEAN]]
      BY <1>15 DEF HaltReturns, Onward, NoSave
    <2>2. life' \in [rate : Rates, stopped : BOOLEAN, closed : BOOLEAN, joined : BOOLEAN,
                     by : Saves \cup {Closer, Nil}]
      BY <1>15 DEF HaltReturns
    <2>3. /\ loop' \in [Loops -> {"off", "wait", "late", "apply"}]
          /\ now' \in Loops \cup {Nil}
          /\ timer' \in [armed : BOOLEAN, due : BOOLEAN, rearm : BOOLEAN, known : BOOLEAN]
      <3>1. CASE save[v].to = Nil
        BY <1>15, <3>1 DEF HaltReturns
      <3>2. ASSUME NEW known \in BOOLEAN, StartLocked(known)
            PROVE  /\ loop' \in [Loops -> {"off", "wait", "late", "apply"}]
                   /\ now' \in Loops \cup {Nil}
                   /\ timer' \in [armed : BOOLEAN, due : BOOLEAN, rearm : BOOLEAN, known : BOOLEAN]
        BY <3>2 DEF StartLocked, Timer
      <3>3. save[v].to # Nil => \E known \in BOOLEAN : StartLocked(known)
        BY <1>15 DEF HaltReturns
      <3> QED
        BY <3>1, <3>2, <3>3
    <2> QED
      BY <1>15, <2>1, <2>2, <2>3 DEF HaltReturns
  <1>16. ASSUME NEW v \in Saves, ReloadApplySchedule(v) PROVE SchedTypeOK'
    <2>1. timer' \in [armed : BOOLEAN, due : BOOLEAN, rearm : BOOLEAN, known : BOOLEAN]
      BY <1>16 DEF ReloadApplySchedule
    <2>2. save' \in [Saves -> [step : {"idle", "written", "halting", "reload"},
                              changed : BOOLEAN, to : Rates, reload : BOOLEAN]]
      BY <1>16 DEF ReloadApplySchedule, NoSave
    <2> QED
      BY <1>16, <2>1, <2>2 DEF ReloadApplySchedule
  <1>17. CASE Close
    BY <1>17 DEF Close, StopLocked, NoTimer
  <1>18. CASE CloseReturns
    <2>1. life' \in [rate : Rates, stopped : BOOLEAN, closed : BOOLEAN, joined : BOOLEAN,
                     by : Saves \cup {Closer, Nil}]
      BY <1>18 DEF CloseReturns
    <2> QED
      BY <1>18, <2>1 DEF CloseReturns
  <1>19. CASE UNCHANGED schedVars
    BY <1>19 DEF schedVars
  <1> HIDE DEF SchedTypeOK, Modes, Rates
  <1>20. CASE \E k \in Tasks : Tick(k) \/ StartBackgroundScan(k) \/ TaskWorks(k)
    BY <1>20, <1>1, <1>2, <1>3, <1>4, <1>5, <1>6, <1>7 DEF TaskWorks
  <1>21. CASE \E l \in Loops : InstantComes(l) \/ ApplyDeferred(l) \/ LoopWorks(l)
    BY <1>21, <1>8, <1>9, <1>10, <1>11, <1>12 DEF LoopWorks
  <1>22. CASE \E v \in Saves :
               \/ \E m \in Modes, i \in Rates, reload \in BOOLEAN : WriteSettings(v, m, i, reload)
               \/ Halt(v) \/ HaltReturns(v) \/ ReloadApplySchedule(v)
    BY <1>22, <1>13, <1>14, <1>15, <1>16
  <1> QED
    BY <1>17, <1>18, <1>19, <1>20, <1>21, <1>22 DEF SchedNext

(* The variables of the scheduler keep their types: every value that the   *)
(* actions compute from another component's is one that component has.     *)
THEOREM SchedTypes == SchedSpec => []SchedTypeOK
  <1>1. SchedInit => SchedTypeOK
    BY DEF SchedInit, SchedTypeOK, Modes, Rates, Timer, NoTimer, NoSave
  <1> QED
    BY <1>1, SchedTypeStep, PTL DEF SchedSpec

(* The flag says which scan or which apply of a loop is under way.         *)
LEMMA SchedTurnsStep ==
  ASSUME SchedTypeOK, ScanAndApplyTakeTurns, [SchedNext]_schedVars
  PROVE  ScanAndApplyTakeTurns'
  <1> USE SchedulerAssumption DEF SchedTypeOK, ScanAndApplyTakeTurns
  <1>1. ASSUME NEW k \in Tasks, Tick(k) PROVE ScanAndApplyTakeTurns'
    BY <1>1 DEF Tick, TaskGoes
  <1>2. ASSUME NEW k \in Tasks, RunScan(k) PROVE ScanAndApplyTakeTurns'
    BY <1>2 DEF RunScan, TaskGoes
  <1>3. ASSUME NEW k \in Tasks, StartBackgroundScan(k) PROVE ScanAndApplyTakeTurns'
    BY <1>3 DEF StartBackgroundScan, TaskGoes
  <1>4. ASSUME NEW k \in Tasks, ScanFails(k) PROVE ScanAndApplyTakeTurns'
    BY <1>4 DEF ScanFails, TaskGoes
  <1>5. ASSUME NEW k \in Tasks, ScanReturns(k) PROVE ScanAndApplyTakeTurns'
    BY <1>5 DEF ScanReturns, TaskGoes
  <1>6. ASSUME NEW k \in Tasks, ReadMode(k) PROVE ScanAndApplyTakeTurns'
    BY <1>6 DEF ReadMode, TaskGoes
  <1>7. ASSUME NEW k \in Tasks, ApplyReturns(k) PROVE ScanAndApplyTakeTurns'
    BY <1>7 DEF ApplyReturns, TaskGoes
  <1>8. ASSUME NEW l \in Loops, InstantComes(l) PROVE ScanAndApplyTakeTurns'
    BY <1>8 DEF InstantComes
  <1>9. ASSUME NEW l \in Loops, ApplyNow(l) PROVE ScanAndApplyTakeTurns'
    BY <1>9 DEF ApplyNow, MayApply
  <1>10. ASSUME NEW l \in Loops, ApplyDeferred(l) PROVE ScanAndApplyTakeTurns'
    BY <1>10 DEF ApplyDeferred, AfterDeferral
  <1>11. ASSUME NEW l \in Loops, ApplyEnds(l) PROVE ScanAndApplyTakeTurns'
    BY <1>11 DEF ApplyEnds
  <1>12. ASSUME NEW l \in Loops, Rearm(l) PROVE ScanAndApplyTakeTurns'
    BY <1>12 DEF Rearm, Timer
  <1>13. ASSUME NEW v \in Saves, NEW m \in Modes, NEW i \in Rates,
             NEW reload \in BOOLEAN, WriteSettings(v, m, i, reload) PROVE ScanAndApplyTakeTurns'
    BY <1>13 DEF WriteSettings
  <1>14. ASSUME NEW v \in Saves, Halt(v) PROVE ScanAndApplyTakeTurns'
    BY <1>14 DEF Halt, Onward, NoSave, StopLocked, NoTimer, Waits
  <1>15. ASSUME NEW v \in Saves, HaltReturns(v) PROVE ScanAndApplyTakeTurns'
    BY <1>15 DEF HaltReturns, Onward, NoSave, StartLocked, Timer
  <1>16. ASSUME NEW v \in Saves, ReloadApplySchedule(v) PROVE ScanAndApplyTakeTurns'
    BY <1>16 DEF ReloadApplySchedule, NoSave
  <1>17. CASE Close
    BY <1>17 DEF Close, StopLocked, NoTimer, Waits
  <1>18. CASE CloseReturns
    BY <1>18 DEF CloseReturns
  <1>19. CASE UNCHANGED schedVars
    BY <1>19 DEF schedVars
  <1> HIDE DEF SchedTypeOK, ScanAndApplyTakeTurns
  <1>20. CASE \E k \in Tasks : Tick(k) \/ StartBackgroundScan(k) \/ TaskWorks(k)
    BY <1>20, <1>1, <1>2, <1>3, <1>4, <1>5, <1>6, <1>7 DEF TaskWorks
  <1>21. CASE \E l \in Loops : InstantComes(l) \/ ApplyDeferred(l) \/ LoopWorks(l)
    BY <1>21, <1>8, <1>9, <1>10, <1>11, <1>12 DEF LoopWorks
  <1>22. CASE \E v \in Saves :
               \/ \E m \in Modes, i \in Rates, reload \in BOOLEAN : WriteSettings(v, m, i, reload)
               \/ Halt(v) \/ HaltReturns(v) \/ ReloadApplySchedule(v)
    BY <1>22, <1>13, <1>14, <1>15, <1>16
  <1> QED
    BY <1>17, <1>18, <1>19, <1>20, <1>21, <1>22 DEF SchedNext

(* Scans and scheduled applies take turns, over any number of restarts.    *)
THEOREM TurnsTaken == SchedSpec => []ScanAndApplyTakeTurns
  <1>1. SchedInit => ScanAndApplyTakeTurns
    BY DEF SchedInit, ScanAndApplyTakeTurns
  <1> QED
    BY <1>1, SchedTurnsStep, SchedTypes, PTL DEF SchedSpec

(* Whatever begins asks first whether the scheduler is stopped.            *)
LEMMA SchedQuietStep ==
  ASSUME SchedTypeOK, StoppedMeansQuiet, [SchedNext]_schedVars
  PROVE  StoppedMeansQuiet'
  <1> USE DEF SchedTypeOK, StoppedMeansQuiet, Quiet
  <1>1. ASSUME NEW k \in Tasks, Tick(k) PROVE StoppedMeansQuiet'
    BY <1>1 DEF Tick, TaskGoes, MayBegin
  <1>2. ASSUME NEW k \in Tasks, RunScan(k) PROVE StoppedMeansQuiet'
    BY <1>2 DEF RunScan, TaskGoes
  <1>3. ASSUME NEW k \in Tasks, StartBackgroundScan(k) PROVE StoppedMeansQuiet'
    BY <1>3 DEF StartBackgroundScan, TaskGoes, MayBegin
  <1>4. ASSUME NEW k \in Tasks, ScanFails(k) PROVE StoppedMeansQuiet'
    BY <1>4 DEF ScanFails, TaskGoes
  <1>5. ASSUME NEW k \in Tasks, ScanReturns(k) PROVE StoppedMeansQuiet'
    BY <1>5 DEF ScanReturns, TaskGoes
  <1>6. ASSUME NEW k \in Tasks, ReadMode(k) PROVE StoppedMeansQuiet'
    BY <1>6 DEF ReadMode, TaskGoes
  <1>7. ASSUME NEW k \in Tasks, ApplyReturns(k) PROVE StoppedMeansQuiet'
    BY <1>7 DEF ApplyReturns, TaskGoes
  <1>8. ASSUME NEW l \in Loops, InstantComes(l) PROVE StoppedMeansQuiet'
    BY <1>8 DEF InstantComes
  <1>9. ASSUME NEW l \in Loops, ApplyNow(l) PROVE StoppedMeansQuiet'
    BY <1>9 DEF ApplyNow, MayApply, MayBegin
  <1>10. ASSUME NEW l \in Loops, ApplyDeferred(l) PROVE StoppedMeansQuiet'
    BY <1>10 DEF ApplyDeferred, AfterDeferral
  <1>11. ASSUME NEW l \in Loops, ApplyEnds(l) PROVE StoppedMeansQuiet'
    BY <1>11 DEF ApplyEnds
  <1>12. ASSUME NEW l \in Loops, Rearm(l) PROVE StoppedMeansQuiet'
    BY <1>12 DEF Rearm, Timer
  <1>13. ASSUME NEW v \in Saves, NEW m \in Modes, NEW i \in Rates,
             NEW reload \in BOOLEAN, WriteSettings(v, m, i, reload) PROVE StoppedMeansQuiet'
    BY <1>13 DEF WriteSettings
  <1>14. ASSUME NEW v \in Saves, Halt(v) PROVE StoppedMeansQuiet'
    BY <1>14 DEF Halt, Onward, NoSave, StopLocked, NoTimer, Waits
  <1>15. ASSUME NEW v \in Saves, HaltReturns(v) PROVE StoppedMeansQuiet'
    BY <1>15 DEF HaltReturns, Onward, NoSave, StartLocked, Timer
  <1>16. ASSUME NEW v \in Saves, ReloadApplySchedule(v) PROVE StoppedMeansQuiet'
    BY <1>16 DEF ReloadApplySchedule, NoSave
  <1>17. CASE Close
    BY <1>17 DEF Close, StopLocked, NoTimer, Waits
  <1>18. CASE CloseReturns
    BY <1>18 DEF CloseReturns
  <1>19. CASE UNCHANGED schedVars
    BY <1>19 DEF schedVars
  <1> HIDE DEF SchedTypeOK, StoppedMeansQuiet, Quiet
  <1>20. CASE \E k \in Tasks : Tick(k) \/ StartBackgroundScan(k) \/ TaskWorks(k)
    BY <1>20, <1>1, <1>2, <1>3, <1>4, <1>5, <1>6, <1>7 DEF TaskWorks
  <1>21. CASE \E l \in Loops : InstantComes(l) \/ ApplyDeferred(l) \/ LoopWorks(l)
    BY <1>21, <1>8, <1>9, <1>10, <1>11, <1>12 DEF LoopWorks
  <1>22. CASE \E v \in Saves :
               \/ \E m \in Modes, i \in Rates, reload \in BOOLEAN : WriteSettings(v, m, i, reload)
               \/ Halt(v) \/ HaltReturns(v) \/ ReloadApplySchedule(v)
    BY <1>22, <1>13, <1>14, <1>15, <1>16
  <1> QED
    BY <1>17, <1>18, <1>19, <1>20, <1>21, <1>22 DEF SchedNext

(* A scheduler that has been stopped and waited for is quiet.              *)
THEOREM StoppedQuiet == SchedSpec => []StoppedMeansQuiet
  <1>1. SchedInit => StoppedMeansQuiet
    BY DEF SchedInit, StoppedMeansQuiet
  <1> QED
    BY <1>1, SchedQuietStep, SchedTypes, PTL DEF SchedSpec

(* One save at a time changes the interval, and until it has told the      *)
(* scheduler, what it has to tell is what is stored.                       *)
IntervalInv ==
  /\ \A v, w \in Saves : save[v].changed /\ save[w].changed => v = w
  /\ \A v \in Saves : save[v].step \in {"written", "halting"} =>
       save[v].changed /\ save[v].to = stored.interval

(* scanIntervalMu keeps the interval still between the write and the tell. *)
LEMMA IntervalStep ==
  ASSUME SchedTypeOK, IntervalInv, [SchedNext]_schedVars
  PROVE  IntervalInv'
  <1> USE DEF SchedTypeOK, IntervalInv
  <1>1. ASSUME NEW k \in Tasks, Tick(k) PROVE IntervalInv'
    BY <1>1 DEF Tick, TaskGoes
  <1>2. ASSUME NEW k \in Tasks, RunScan(k) PROVE IntervalInv'
    BY <1>2 DEF RunScan, TaskGoes
  <1>3. ASSUME NEW k \in Tasks, StartBackgroundScan(k) PROVE IntervalInv'
    BY <1>3 DEF StartBackgroundScan, TaskGoes
  <1>4. ASSUME NEW k \in Tasks, ScanFails(k) PROVE IntervalInv'
    BY <1>4 DEF ScanFails, TaskGoes
  <1>5. ASSUME NEW k \in Tasks, ScanReturns(k) PROVE IntervalInv'
    BY <1>5 DEF ScanReturns, TaskGoes
  <1>6. ASSUME NEW k \in Tasks, ReadMode(k) PROVE IntervalInv'
    BY <1>6 DEF ReadMode, TaskGoes
  <1>7. ASSUME NEW k \in Tasks, ApplyReturns(k) PROVE IntervalInv'
    BY <1>7 DEF ApplyReturns, TaskGoes
  <1>8. ASSUME NEW l \in Loops, InstantComes(l) PROVE IntervalInv'
    BY <1>8 DEF InstantComes
  <1>9. ASSUME NEW l \in Loops, ApplyNow(l) PROVE IntervalInv'
    BY <1>9 DEF ApplyNow
  <1>10. ASSUME NEW l \in Loops, ApplyDeferred(l) PROVE IntervalInv'
    BY <1>10 DEF ApplyDeferred, AfterDeferral
  <1>11. ASSUME NEW l \in Loops, ApplyEnds(l) PROVE IntervalInv'
    BY <1>11 DEF ApplyEnds
  <1>12. ASSUME NEW l \in Loops, Rearm(l) PROVE IntervalInv'
    BY <1>12 DEF Rearm, Timer
  <1>13. ASSUME NEW v \in Saves, NEW m \in Modes, NEW i \in Rates,
             NEW reload \in BOOLEAN, WriteSettings(v, m, i, reload) PROVE IntervalInv'
    BY <1>13 DEF WriteSettings, MayChange, NoSave
  <1>14. ASSUME NEW v \in Saves, Halt(v) PROVE IntervalInv'
    BY <1>14 DEF Halt, Onward, NoSave, StopLocked, NoTimer
  <1>15. ASSUME NEW v \in Saves, HaltReturns(v) PROVE IntervalInv'
    BY <1>15 DEF HaltReturns, Onward, NoSave, StartLocked, Timer
  <1>16. ASSUME NEW v \in Saves, ReloadApplySchedule(v) PROVE IntervalInv'
    BY <1>16 DEF ReloadApplySchedule, NoSave
  <1>17. CASE Close
    BY <1>17 DEF Close, StopLocked, NoTimer
  <1>18. CASE CloseReturns
    BY <1>18 DEF CloseReturns
  <1>19. CASE UNCHANGED schedVars
    BY <1>19 DEF schedVars
  <1> HIDE DEF SchedTypeOK, IntervalInv
  <1>20. CASE \E k \in Tasks : Tick(k) \/ StartBackgroundScan(k) \/ TaskWorks(k)
    BY <1>20, <1>1, <1>2, <1>3, <1>4, <1>5, <1>6, <1>7 DEF TaskWorks
  <1>21. CASE \E l \in Loops : InstantComes(l) \/ ApplyDeferred(l) \/ LoopWorks(l)
    BY <1>21, <1>8, <1>9, <1>10, <1>11, <1>12 DEF LoopWorks
  <1>22. CASE \E v \in Saves :
               \/ \E m \in Modes, i \in Rates, reload \in BOOLEAN : WriteSettings(v, m, i, reload)
               \/ Halt(v) \/ HaltReturns(v) \/ ReloadApplySchedule(v)
    BY <1>22, <1>13, <1>14, <1>15, <1>16
  <1> QED
    BY <1>17, <1>18, <1>19, <1>20, <1>21, <1>22 DEF SchedNext

(* What a save has told the scheduler is what is stored.                   *)
THEOREM IntervalRuns == SchedSpec => StoredIntervalRuns
  <1>1. SchedInit => IntervalInv
    BY DEF SchedInit, IntervalInv, NoSave
  <1>2. SchedSpec => []IntervalInv
    BY <1>1, IntervalStep, SchedTypes, PTL DEF SchedSpec
  <1>3. ASSUME SchedTypeOK, IntervalInv, [SchedNext]_schedVars, NEW v \in Saves,
               save[v].step = "halting", save'[v].step # "halting"
        PROVE  life'.rate = stored'.interval
    <2> USE <1>3 DEF SchedTypeOK, IntervalInv
    <2>1. save' # save
      BY DEF SchedTypeOK
    <2>2. ASSUME NEW w \in Saves, NEW m \in Modes, NEW i \in Rates,
                 NEW reload \in BOOLEAN, WriteSettings(w, m, i, reload)
          PROVE  FALSE
      BY <2>2 DEF WriteSettings, NoSave
    <2>3. ASSUME NEW w \in Saves, Halt(w) PROVE FALSE
      BY <2>3 DEF Halt, Onward, NoSave
    <2>4. ASSUME NEW w \in Saves, ReloadApplySchedule(w) PROVE FALSE
      BY <2>4 DEF ReloadApplySchedule, NoSave
    <2>5. ASSUME NEW w \in Saves, HaltReturns(w) PROVE life'.rate = stored'.interval
      <3>1. w = v
        BY <2>5 DEF HaltReturns, Onward, NoSave
      <3> QED
        BY <2>5, <3>1 DEF HaltReturns
    <2>6. \E w \in Saves :
            \/ \E m \in Modes, i \in Rates, reload \in BOOLEAN : WriteSettings(w, m, i, reload)
            \/ Halt(w) \/ HaltReturns(w) \/ ReloadApplySchedule(w)
      BY <2>1 DEF SchedNext, schedVars, Tick, StartBackgroundScan, TaskWorks, RunScan, ScanFails,
                  ScanReturns, ReadMode, ApplyReturns, InstantComes, ApplyDeferred, LoopWorks,
                  ApplyNow, ApplyEnds, Rearm, Close, CloseReturns
    <2> QED
      BY <2>2, <2>3, <2>4, <2>5, <2>6
  <1>4. SchedTypeOK /\ IntervalInv /\ [SchedNext]_schedVars =>
          [\A v \in Saves : (save[v].step = "halting" /\ save'[v].step # "halting") =>
             life'.rate = stored'.interval]_schedVars
    BY <1>3
  <1> QED
    BY <1>2, <1>4, SchedTypes, PTL DEF SchedSpec, StoredIntervalRuns

(* While a stop is being waited for no loop is the current one, and the    *)
(* save that asked for it is the one that lifecycleMu belongs to.          *)
HaltInv ==
  /\ now = Nil => ~timer.due
  /\ life.by # Nil => now = Nil
  /\ \A v \in Saves : save[v].step = "halting" => life.by = v

(* lifecycleMu is held from the stop to the restart.                       *)
LEMMA HaltStep ==
  ASSUME SchedTypeOK, HaltInv, [SchedNext]_schedVars
  PROVE  HaltInv'
  <1> USE SchedulerAssumption DEF SchedTypeOK, HaltInv
  <1>1. ASSUME NEW k \in Tasks, Tick(k) PROVE HaltInv'
    BY <1>1 DEF Tick, TaskGoes, MayBegin
  <1>2. ASSUME NEW k \in Tasks, RunScan(k) PROVE HaltInv'
    BY <1>2 DEF RunScan, TaskGoes
  <1>3. ASSUME NEW k \in Tasks, StartBackgroundScan(k) PROVE HaltInv'
    BY <1>3 DEF StartBackgroundScan, TaskGoes
  <1>4. ASSUME NEW k \in Tasks, ScanFails(k) PROVE HaltInv'
    BY <1>4 DEF ScanFails, TaskGoes
  <1>5. ASSUME NEW k \in Tasks, ScanReturns(k) PROVE HaltInv'
    BY <1>5 DEF ScanReturns, TaskGoes
  <1>6. ASSUME NEW k \in Tasks, ReadMode(k) PROVE HaltInv'
    BY <1>6 DEF ReadMode, TaskGoes
  <1>7. ASSUME NEW k \in Tasks, ApplyReturns(k) PROVE HaltInv'
    BY <1>7 DEF ApplyReturns, TaskGoes
  <1>8. ASSUME NEW l \in Loops, InstantComes(l) PROVE HaltInv'
    BY <1>8 DEF InstantComes, Waits
  <1>9. ASSUME NEW l \in Loops, ApplyNow(l) PROVE HaltInv'
    BY <1>9 DEF ApplyNow
  <1>10. ASSUME NEW l \in Loops, ApplyDeferred(l) PROVE HaltInv'
    BY <1>10 DEF ApplyDeferred, AfterDeferral
  <1>11. ASSUME NEW l \in Loops, ApplyEnds(l) PROVE HaltInv'
    BY <1>11 DEF ApplyEnds
  <1>12. ASSUME NEW l \in Loops, Rearm(l) PROVE HaltInv'
    BY <1>12 DEF Rearm, Timer
  <1>13. ASSUME NEW v \in Saves, NEW m \in Modes, NEW i \in Rates,
             NEW reload \in BOOLEAN, WriteSettings(v, m, i, reload) PROVE HaltInv'
    BY <1>13 DEF WriteSettings, NoSave
  <1>14. ASSUME NEW v \in Saves, Halt(v) PROVE HaltInv'
    BY <1>14 DEF Halt, Onward, NoSave, StopLocked, NoTimer
  <1>15. ASSUME NEW v \in Saves, HaltReturns(v) PROVE HaltInv'
    BY <1>15 DEF HaltReturns, Onward, NoSave, StartLocked, Timer
  <1>16. ASSUME NEW v \in Saves, ReloadApplySchedule(v) PROVE HaltInv'
    BY <1>16 DEF ReloadApplySchedule, NoSave
  <1>17. CASE Close
    BY <1>17 DEF Close, StopLocked, NoTimer
  <1>18. CASE CloseReturns
    BY <1>18 DEF CloseReturns
  <1>19. CASE UNCHANGED schedVars
    BY <1>19 DEF schedVars
  <1> HIDE DEF SchedTypeOK, HaltInv
  <1>20. CASE \E k \in Tasks : Tick(k) \/ StartBackgroundScan(k) \/ TaskWorks(k)
    BY <1>20, <1>1, <1>2, <1>3, <1>4, <1>5, <1>6, <1>7 DEF TaskWorks
  <1>21. CASE \E l \in Loops : InstantComes(l) \/ ApplyDeferred(l) \/ LoopWorks(l)
    BY <1>21, <1>8, <1>9, <1>10, <1>11, <1>12 DEF LoopWorks
  <1>22. CASE \E v \in Saves :
               \/ \E m \in Modes, i \in Rates, reload \in BOOLEAN : WriteSettings(v, m, i, reload)
               \/ Halt(v) \/ HaltReturns(v) \/ ReloadApplySchedule(v)
    BY <1>22, <1>13, <1>14, <1>15, <1>16
  <1> QED
    BY <1>17, <1>18, <1>19, <1>20, <1>21, <1>22 DEF SchedNext

(* The invariant about a halted scheduler holds in every reachable state.  *)
LEMMA Halted == SchedSpec => []HaltInv
  <1>1. SchedInit => HaltInv
    BY DEF SchedInit, HaltInv, Timer, NoTimer, NoSave
  <1> QED
    BY <1>1, HaltStep, SchedTypes, PTL DEF SchedSpec

(* A due instant goes only with an apply, a new reading or a stop.         *)
THEOREM DueKept == SchedSpec => DueIsNotLost
  <1>1. ASSUME SchedTypeOK, HaltInv, [SchedNext]_schedVars, timer.due, ~timer'.due
        PROVE  (\E l \in Loops : loop[l] = "apply" /\ l = now) \/ timer.rearm \/ life'.stopped
    <2> USE <1>1, SchedulerAssumption DEF SchedTypeOK, HaltInv
    <2>1. timer' # timer
      OBVIOUS
    <2>2. ASSUME NEW l \in Loops, InstantComes(l) PROVE FALSE
      BY <2>2 DEF InstantComes
    <2>3. ASSUME NEW l \in Loops, ApplyDeferred(l) PROVE FALSE
      BY <2>3 DEF ApplyDeferred, AfterDeferral
    <2>4. ASSUME NEW l \in Loops, ApplyEnds(l) PROVE loop[l] = "apply" /\ l = now
      BY <2>4 DEF ApplyEnds
    <2>5. ASSUME NEW l \in Loops, Rearm(l) PROVE timer.rearm
      BY <2>5 DEF Rearm
    <2>6. ASSUME NEW v \in Saves, Halt(v) PROVE life'.stopped
      BY <2>1, <2>6 DEF Halt, StopLocked
    <2>7. ASSUME NEW v \in Saves, HaltReturns(v) PROVE FALSE
      BY <2>7 DEF HaltReturns
    <2>8. ASSUME NEW v \in Saves, ReloadApplySchedule(v) PROVE FALSE
      BY <2>8 DEF ReloadApplySchedule
    <2>9. CASE Close
      BY <2>9 DEF Close, StopLocked
    <2>10. \/ \E l \in Loops : InstantComes(l) \/ ApplyDeferred(l) \/ ApplyEnds(l) \/ Rearm(l)
           \/ \E v \in Saves : Halt(v) \/ HaltReturns(v) \/ ReloadApplySchedule(v)
           \/ Close
      BY <2>1 DEF SchedNext, schedVars, Tick, StartBackgroundScan, TaskWorks, RunScan, ScanFails,
                  ScanReturns, ReadMode, ApplyReturns, LoopWorks, ApplyNow, WriteSettings,
                  CloseReturns
    <2> QED
      BY <2>2, <2>3, <2>4, <2>5, <2>6, <2>7, <2>8, <2>9, <2>10
  <1>2. SchedTypeOK /\ HaltInv /\ [SchedNext]_schedVars =>
          [(timer.due /\ ~timer'.due) =>
             (\E l \in Loops : loop[l] = "apply" /\ l = now) \/ timer.rearm \/ life'.stopped]_schedVars
    BY <1>1
  <1> QED
    BY <1>2, Halted, SchedTypes, PTL DEF SchedSpec, DueIsNotLost

(* The loop is armed for what is stored, or will be: a save that touched   *)
(* the schedule has still to say so, or the loop has still to read it.     *)
ArmedInv ==
  now # Nil =>
    \/ \E v \in Saves : save[v].reload
    \/ timer.rearm \/ ~timer.known
    \/ timer.armed = (stored.mode = "scheduled")

(* A save that leaves the schedule alone leaves the mode alone.            *)
LEMMA ArmedStep ==
  ASSUME SchedTypeOK, HaltInv, ArmedInv, [SchedNext]_schedVars
  PROVE  ArmedInv'
  <1> USE SchedulerAssumption DEF SchedTypeOK, HaltInv, ArmedInv
  <1>1. ASSUME NEW k \in Tasks, Tick(k) PROVE ArmedInv'
    BY <1>1 DEF Tick, TaskGoes
  <1>2. ASSUME NEW k \in Tasks, RunScan(k) PROVE ArmedInv'
    BY <1>2 DEF RunScan, TaskGoes
  <1>3. ASSUME NEW k \in Tasks, StartBackgroundScan(k) PROVE ArmedInv'
    BY <1>3 DEF StartBackgroundScan, TaskGoes
  <1>4. ASSUME NEW k \in Tasks, ScanFails(k) PROVE ArmedInv'
    BY <1>4 DEF ScanFails, TaskGoes
  <1>5. ASSUME NEW k \in Tasks, ScanReturns(k) PROVE ArmedInv'
    BY <1>5 DEF ScanReturns, TaskGoes
  <1>6. ASSUME NEW k \in Tasks, ReadMode(k) PROVE ArmedInv'
    BY <1>6 DEF ReadMode, TaskGoes
  <1>7. ASSUME NEW k \in Tasks, ApplyReturns(k) PROVE ArmedInv'
    BY <1>7 DEF ApplyReturns, TaskGoes
  <1>8. ASSUME NEW l \in Loops, InstantComes(l) PROVE ArmedInv'
    BY <1>8 DEF InstantComes
  <1>9. ASSUME NEW l \in Loops, ApplyNow(l) PROVE ArmedInv'
    BY <1>9 DEF ApplyNow
  <1>10. ASSUME NEW l \in Loops, ApplyDeferred(l) PROVE ArmedInv'
    BY <1>10 DEF ApplyDeferred, AfterDeferral
  <1>11. ASSUME NEW l \in Loops, ApplyEnds(l) PROVE ArmedInv'
    BY <1>11 DEF ApplyEnds
  <1>12. ASSUME NEW l \in Loops, Rearm(l) PROVE ArmedInv'
    BY <1>12 DEF Rearm, Timer
  <1>13. ASSUME NEW v \in Saves, NEW m \in Modes, NEW i \in Rates,
             NEW reload \in BOOLEAN, WriteSettings(v, m, i, reload) PROVE ArmedInv'
    BY <1>13 DEF WriteSettings, NoSave
  <1>14. ASSUME NEW v \in Saves, Halt(v) PROVE ArmedInv'
    BY <1>14 DEF Halt, Onward, NoSave, StopLocked, NoTimer
  <1>15. ASSUME NEW v \in Saves, HaltReturns(v) PROVE ArmedInv'
    BY <1>15 DEF HaltReturns, Onward, NoSave, StartLocked, Timer
  <1>16. ASSUME NEW v \in Saves, ReloadApplySchedule(v) PROVE ArmedInv'
    BY <1>16 DEF ReloadApplySchedule, NoSave
  <1>17. CASE Close
    BY <1>17 DEF Close, StopLocked, NoTimer
  <1>18. CASE CloseReturns
    BY <1>18 DEF CloseReturns
  <1>19. CASE UNCHANGED schedVars
    BY <1>19 DEF schedVars
  <1> HIDE DEF SchedTypeOK, HaltInv, ArmedInv
  <1>20. CASE \E k \in Tasks : Tick(k) \/ StartBackgroundScan(k) \/ TaskWorks(k)
    BY <1>20, <1>1, <1>2, <1>3, <1>4, <1>5, <1>6, <1>7 DEF TaskWorks
  <1>21. CASE \E l \in Loops : InstantComes(l) \/ ApplyDeferred(l) \/ LoopWorks(l)
    BY <1>21, <1>8, <1>9, <1>10, <1>11, <1>12 DEF LoopWorks
  <1>22. CASE \E v \in Saves :
               \/ \E m \in Modes, i \in Rates, reload \in BOOLEAN : WriteSettings(v, m, i, reload)
               \/ Halt(v) \/ HaltReturns(v) \/ ReloadApplySchedule(v)
    BY <1>22, <1>13, <1>14, <1>15, <1>16
  <1> QED
    BY <1>17, <1>18, <1>19, <1>20, <1>21, <1>22 DEF SchedNext

(* A saved schedule reaches the loop.                                      *)
THEOREM ModeArmed == SchedSpec => []SavedModeIsArmed
  <1>1. SchedInit => ArmedInv
    BY DEF SchedInit, ArmedInv, Timer, NoTimer
  <1>2. SchedSpec => []ArmedInv
    BY <1>1, ArmedStep, Halted, SchedTypes, PTL DEF SchedSpec
  <1>3. ArmedInv => SavedModeIsArmed
    BY DEF ArmedInv, SavedModeIsArmed, NoSave
  <1> QED
    BY <1>2, <1>3, PTL

(* The four invariants of the module together.                             *)
THEOREM UpdaterSafe == SchedSpec => []UpdaterInv
  BY SchedTypes, TurnsTaken, StoppedQuiet, ModeArmed, PTL DEF UpdaterInv

(* Neither a saved interval nor a due instant is lost.                     *)
THEOREM NothingLost == SchedSpec => NothingSavedIsLost
  BY IntervalRuns, DueKept DEF NothingSavedIsLost

=============================================================================
