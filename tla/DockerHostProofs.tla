--------------------------- MODULE DockerHostProofs ---------------------------
(***************************************************************************)
(* Theorems about what stack operations make in Docker and what removes    *)
(* it, for any stacks and any number of operations.                        *)
(***************************************************************************)
EXTENDS DockerHost, FiniteSetTheorems, TLAPS

(* What an operation of each kind does, and on which turns: a removal that *)
(* removes by name has every stack's turn until it is over.                *)
Shape(o) ==
  LET p == op[o] IN
  /\ p.kind = "none" => p = NoOp
  /\ p.kind \in OneStack =>
       /\ \E s \in Stacks : p.turn = {s}
       /\ p.step \in {"work", "create", "start", "settle"}
       /\ p.step # "work" => p.kind = "up"
       /\ p.kind = "up" => p.owed \subseteq p.turn
  /\ p.kind = "summary" => p.turn = {} /\ p.step = "ask"
  /\ p.kind \in {"prune", "pruneContainers"} => p.turn = Stacks /\ p.step \in {"work", "over"}
  /\ p.kind = "free" => p.turn = Stacks /\ p.step \in {"ask", "remove", "over"}
  /\ p.kind = "run" =>
       /\ p.step \in {"ask", "again", "remove", "over"}
       /\ p.step # "over" => p.turn = Stacks

(* Nobody has a turn that somebody else has.                               *)
TurnsApart == \A o, p \in Ops : o # p => op[o].turn \cap op[p].turn = {}

TurnsInv == TurnsApart /\ \A o \in Ops : Shape(o)

(* The single-flight guard is held by the one run there is.                *)
RunsInv ==
  /\ \A o, p \in Ops : op[o].kind = "run" /\ op[p].kind = "run" => o = p
  /\ running <=> \E o \in Ops : op[o].kind = "run"

(* What a removal has still to remove nobody names, and neither does       *)
(* anybody name a candidate it is about to be given.                       *)
Removes(o) == op[o].kind \in {"free", "run"}

SparedInv ==
  /\ fetch.by # Nobody => fetch.step \in {"names", "disk"} /\ Asks(fetch.by)
  /\ \A o \in Ops : fetch.by = o /\ Removes(o) =>
       /\ fetch.step = "names" => fetch.spared = Spared
       /\ fetch.step = "disk" => fetch.cand \cap Spared = {}
  /\ \A o \in Ops : At(o, "remove") => op[o].todo \cap Spared = {}

(* What was answered as removed is in no list that is kept, and what a     *)
(* reader is owed is in no list it is about to be given.                   *)
ShownInv ==
  /\ \A o \in Ops : op[o].kind = "summary" => op[o].owed \subseteq answered
  /\ \A o \in Ops : fetch.by = o /\ fetch.step = "disk" /\ op[o].kind = "summary" =>
       fetch.shown \cap op[o].owed = {}
  /\ fetch.step = "disk" /\ fetch.current => fetch.shown \cap answered = {}
  /\ snap.valid => snap.shown \cap answered = {}

HostIInv == TypeOK /\ TurnsInv /\ MadeInTurnStays /\ RunsInv /\ SparedInv /\ ShownInv

-----------------------------------------------------------------------------
(* The records of an operation, and of the fetch.                          *)
OpType ==
  [kind : OneStack \cup Removals \cup {"summary", "none"},
   step : {"idle", "work", "create", "start", "settle", "ask", "again", "remove", "over"},
   turn : SUBSET Stacks, todo : SUBSET Stacks, owed : SUBSET Stacks]

FetchType ==
  [by : Ops \cup {Nobody}, step : {"none", "names", "disk"}, spared : SUBSET Stacks,
   shown : SUBSET Stacks, cand : SUBSET Stacks, current : BOOLEAN]

(* What an operation becomes when it goes on, when it is done and when it  *)
(* begins.                                                                 *)
LEMMA Becomes ==
  ASSUME TypeOK, NEW o \in Ops
  PROVE  /\ op \in [Ops -> OpType]
         /\ NoOp \in OpType
         /\ Done(o) => op' \in [Ops -> OpType]
         /\ \A step \in {"create", "start", "settle", "over"} :
              Go(o, step) => op' \in [Ops -> OpType]
         /\ \A kind \in OneStack, s \in Stacks :
              [NoOp EXCEPT !.kind = kind, !.turn = {s}, !.step = "work"] \in OpType
  <1>1. op \in [Ops -> OpType]
    BY DEF TypeOK, OpType
  <1>2. NoOp \in OpType
    BY DEF NoOp, OpType
  <1>3. ASSUME Done(o) PROVE op' \in [Ops -> OpType]
    <2> HIDE DEF OpType
    <2> QED
      BY <1>1, <1>2, <1>3 DEF Done
  <1>4. ASSUME NEW step \in {"create", "start", "settle", "over"}, Go(o, step)
        PROVE  op' \in [Ops -> OpType]
    <2>1. [op[o] EXCEPT !.step = step] \in OpType
      BY <1>1 DEF OpType
    <2>2. op' = [op EXCEPT ![o] = [@ EXCEPT !.step = step]]
      BY <1>4 DEF Go
    <2> HIDE DEF OpType
    <2> QED
      BY <1>1, <2>1, <2>2
  <1>5. ASSUME NEW kind \in OneStack, NEW s \in Stacks
        PROVE  [NoOp EXCEPT !.kind = kind, !.turn = {s}, !.step = "work"] \in OpType
    <2>1. {s} \in SUBSET Stacks
      OBVIOUS
    <2> QED
      BY <1>2, <2>1 DEF OpType
  <1> QED
    BY <1>1, <1>2, <1>3, <1>4, <1>5

(* A step of o leaves of every other operation all that matters to turns.  *)
SameButOwed(p) ==
  \/ op'[p] = op[p]
  \/ /\ op[p].kind = "summary" /\ op'[p].kind = "summary" /\ op'[p].step = op[p].step
     /\ op'[p].turn = op[p].turn

(* A step of o that takes no turn another operation has keeps the turns    *)
(* apart.                                                                  *)
LEMMA TurnsFrame ==
  ASSUME TurnsInv, NEW o \in Ops, Shape(o)',
         \A p \in Ops \ {o} : SameButOwed(p) \/ op'[p] = op[p],
         op'[o].turn = {} \/ op'[o].turn = op[o].turn \/ Free(op'[o].turn)
  PROVE  TurnsInv'
  <1>1. ASSUME NEW p \in Ops, p # o PROVE Shape(p)' /\ op'[p].turn = op[p].turn
    BY <1>1 DEF TurnsInv, Shape, SameButOwed, OneStack
  <1> QED
    BY <1>1 DEF TurnsInv, TurnsApart, Free

(* What o makes of a list of candidates.                                   *)
Took(o, cand) ==
  \/ op[o].kind = "summary" /\ op' = [op EXCEPT ![o] = NoOp]
  \/ /\ op[o].kind \in {"free", "run"}
     /\ \E step \in {"again", "remove", "over"}, todo \in SUBSET Stacks :
          /\ op' = [op EXCEPT ![o] = [@ EXCEPT !.step = step, !.todo = todo]]
          /\ step = "again" => op[o].kind = "run"
          /\ step = "remove" => todo \subseteq cand

(* What Take does with a list, in the two forms of Took.                   *)
LEMMA Taken ==
  ASSUME TypeOK, TurnsInv, NEW o \in Ops, Asks(o), NEW cand \in SUBSET Stacks, Take(o, cand)
  PROVE  Took(o, cand)
  <1>1. Shape(o) /\ op[o].kind \in {"summary", "free", "run"}
    BY DEF TurnsInv, Shape, Asks, TypeOK, OneStack, Removals, NoOp
  <1>2. CASE op[o].kind = "summary"
    <2>1. op' = [op EXCEPT ![o] = NoOp]
      BY <1>1, <1>2 DEF Take, Done, Shape, At
    <2> QED
      BY <1>2, <2>1 DEF Took
  <1>3. CASE op[o].kind # "summary" /\ (At(o, "again") \/ op[o].kind = "free")
    <2>1. op' = [op EXCEPT ![o] = [op[o] EXCEPT !.step = "remove", !.todo = op[o].todo \cap cand]]
      BY <1>3 DEF Take, TypeOK
    <2>2. op[o].todo \cap cand \in SUBSET Stacks
      OBVIOUS
    <2> QED
      BY <1>1, <1>3, <2>1, <2>2 DEF Took
  <1>4. CASE op[o].kind = "run" /\ ~At(o, "again")
    <2>1. PICK pick \in SUBSET cand :
            op' = [op EXCEPT ![o].todo = pick, ![o].step = IF pick = {} THEN "over" ELSE "again"]
      BY <1>4 DEF Take
    <2> DEFINE step == IF pick = {} THEN "over" ELSE "again"
    <2>2. op' = [op EXCEPT ![o] = [op[o] EXCEPT !.step = step, !.todo = pick]]
      BY <2>1 DEF TypeOK
    <2>3. step \in {"over", "again"}
      OBVIOUS
    <2> HIDE DEF step
    <2> QED
      BY <1>4, <2>2, <2>3 DEF Took
  <1> QED
    BY <1>1, <1>2, <1>3, <1>4

(* Took changes no other operation, and of its own neither kind nor turn   *)
(* unless it ends it.                                                      *)
LEMMA TookMoves ==
  ASSUME TypeOK, NEW o \in Ops, NEW cand, Took(o, cand)
  PROVE  /\ op' \in [Ops -> OpType]
         /\ \A p \in Ops \ {o} : op'[p] = op[p]
         /\ \/ op[o].kind = "summary" /\ op'[o] = NoOp
            \/ /\ op[o].kind \in {"free", "run"}
               /\ op'[o].kind = op[o].kind /\ op'[o].turn = op[o].turn
               /\ op'[o].step \in {"again", "remove", "over"}
               /\ op'[o].step = "again" => op[o].kind = "run"
               /\ op'[o].step = "remove" => op'[o].todo \subseteq cand
  <1>0. op \in [Ops -> OpType] /\ NoOp \in OpType
    BY Becomes
  <1>1. CASE op[o].kind = "summary" /\ op' = [op EXCEPT ![o] = NoOp]
    <2>1. op' \in [Ops -> OpType]
      BY <1>0, <1>1
    <2>2. op'[o] = NoOp /\ \A p \in Ops \ {o} : op'[p] = op[p]
      BY <1>0, <1>1
    <2> QED
      BY <1>1, <2>1, <2>2
  <1>2. CASE op[o].kind \in {"free", "run"} /\ ~(op[o].kind = "summary")
    <2>1. PICK step \in {"again", "remove", "over"}, todo \in SUBSET Stacks :
            /\ op' = [op EXCEPT ![o] = [@ EXCEPT !.step = step, !.todo = todo]]
            /\ step = "again" => op[o].kind = "run"
            /\ step = "remove" => todo \subseteq cand
      BY <1>2 DEF Took
    <2>2. [op[o] EXCEPT !.step = step, !.todo = todo] \in OpType
      BY <1>0 DEF OpType
    <2>3. op' \in [Ops -> OpType] /\ \A p \in Ops \ {o} : op'[p] = op[p]
      BY <1>0, <2>1, <2>2
    <2>4. op'[o] = [op[o] EXCEPT !.step = step, !.todo = todo]
      BY <1>0, <2>1
    <2>5. /\ op'[o].kind = op[o].kind /\ op'[o].turn = op[o].turn
          /\ op'[o].step = step /\ op'[o].todo = todo
      BY <1>0, <2>4 DEF OpType
    <2> QED
      BY <1>2, <2>1, <2>3, <2>5
  <1> QED
    BY <1>1, <1>2 DEF Took

(* Who takes a list reads no more, and nobody else is disturbed.           *)
LEMMA TookOwed ==
  ASSUME TypeOK, NEW o \in Ops, NEW cand, Took(o, cand)
  PROVE  \A p \in Ops : op'[p].kind = "summary" => op'[p] = op[p]
  <1>1. op'[o].kind # "summary"
    BY TookMoves DEF NoOp
  <1>2. \A p \in Ops \ {o} : op'[p] = op[p]
    BY TookMoves
  <1> QED
    BY <1>1, <1>2

(* Who takes a list keeps its turn or gives it back.                       *)
LEMMA TookTurns ==
  ASSUME TypeOK, TurnsInv, NEW o \in Ops, Asks(o), NEW cand, Took(o, cand)
  PROVE  TurnsInv'
  <1>1. Shape(o)' /\ (op'[o].turn = {} \/ op'[o].turn = op[o].turn)
    <2>1. CASE op'[o] = NoOp
      BY <2>1 DEF Shape, NoOp, OneStack
    <2>2. CASE op'[o] # NoOp
      BY <2>2, TookMoves DEF TurnsInv, Shape, Asks, OneStack
    <2> QED
      BY <2>1, <2>2
  <1> QED
    BY <1>1, TookMoves, TurnsFrame

(* What an up that made its object, or had none to make, changes.          *)
Pulled(o, s) ==
  /\ op' \in [Ops -> OpType]
  /\ op'[o].kind = op[o].kind /\ op'[o].step = "create" /\ op'[o].turn = op[o].turn
  /\ \/ /\ op'[o].owed = op[o].owed /\ UNCHANGED <<objects, answered>>
        /\ \A p \in Ops \ {o} : op'[p] = op[p]
     \/ /\ op'[o].owed = {s} /\ objects' = objects \cup {s} /\ answered' = answered \ {s}
        /\ \A p \in Ops \ {o} :
             IF op[p].kind = "summary" THEN op'[p] = [op[p] EXCEPT !.owed = @ \ {s}]
             ELSE op'[p] = op[p]

(* A pull changes the record of its own operation and what readers are     *)
(* owed.                                                                   *)
LEMMA PullMoves ==
  ASSUME TypeOK, NEW o \in Ops, NEW s \in Stacks, Pull(o, s)
  PROVE  Pulled(o, s)
  <1>0. op \in [Ops -> OpType]
    BY Becomes
  <1>1. CASE op' = [op EXCEPT ![o].step = "create"] /\ UNCHANGED <<objects, answered>>
    <2>1. op' \in [Ops -> OpType]
      BY <1>1, Becomes DEF Go
    <2>2. op'[o] = [op[o] EXCEPT !.step = "create"] /\ op[o] \in OpType
          /\ \A p \in Ops \ {o} : op'[p] = op[p]
      BY <1>0, <1>1
    <2>3. /\ op'[o].kind = op[o].kind /\ op'[o].step = "create"
          /\ op'[o].turn = op[o].turn /\ op'[o].owed = op[o].owed
      BY <2>2 DEF OpType
    <2> HIDE DEF OpType
    <2> QED
      BY <1>1, <2>1, <2>2, <2>3 DEF Pulled
  <1>2. CASE /\ op' = Made(o, s, [op[o] EXCEPT !.step = "create", !.owed = {s}])
             /\ objects' = objects \cup {s} /\ answered' = answered \ {s}
    <2>1. op[o].kind = "up"
      BY DEF Pull
    <2>2. op'[o] = [op[o] EXCEPT !.step = "create", !.owed = {s}]
      BY <1>2, <2>1 DEF Made
    <2>3. ASSUME NEW p \in Ops \ {o}
          PROVE  IF op[p].kind = "summary" THEN op'[p] = [op[p] EXCEPT !.owed = @ \ {s}]
                 ELSE op'[p] = op[p]
      BY <1>2, <2>3 DEF Made
    <2>4. ASSUME NEW p \in Ops PROVE op'[p] \in OpType
      <3>1. CASE p = o
        <4>1. {s} \in SUBSET Stacks /\ op[o] \in OpType
          BY <1>0
        <4>2. [op[o] EXCEPT !.step = "create", !.owed = {s}] \in OpType
          BY <4>1 DEF OpType
        <4> QED
          BY <2>2, <3>1, <4>2
      <3>2. CASE p # o
        <4>1. op[p].owed \ {s} \in SUBSET Stacks /\ op[p] \in OpType
          BY <1>0 DEF OpType
        <4>2. [op[p] EXCEPT !.owed = @ \ {s}] \in OpType
          BY <4>1 DEF OpType
        <4> QED
          BY <2>3, <3>2, <4>1, <4>2
      <3> QED
        BY <3>1, <3>2
    <2>5. op' \in [Ops -> OpType]
      BY <1>2, <2>4 DEF Made
    <2>6. /\ op'[o].kind = op[o].kind /\ op'[o].step = "create"
          /\ op'[o].turn = op[o].turn /\ op'[o].owed = {s}
      BY <1>0, <2>2 DEF OpType
    <2> HIDE DEF OpType
    <2> QED
      BY <1>2, <2>3, <2>5, <2>6 DEF Pulled
  <1> QED
    BY <1>1, <1>2 DEF Pull, Go

(* A run that does not end at once.                                        *)
LEMMA RunMoves ==
  ASSUME TypeOK, NEW o \in Ops, NEW host \in BOOLEAN, BeginRun(o, host)
  PROVE  \/ UNCHANGED <<op, running>>
         \/ /\ op' \in [Ops -> OpType] /\ ~running /\ running' /\ (host => Free(Stacks))
            /\ \A p \in Ops \ {o} : op'[p] = op[p]
            /\ op'[o].kind = "run" /\ op'[o].turn = (IF host THEN Stacks ELSE {})
            /\ op'[o].step = (IF host THEN "ask" ELSE "over")
  <1>1. CASE UNCHANGED <<op, running>>
    BY <1>1
  <1>2. CASE ~(host /\ ~Free(Stacks))
    <2> DEFINE rec == [NoOp EXCEPT !.kind = "run", !.turn = IF host THEN Stacks ELSE {},
                                   !.step = IF host THEN "ask" ELSE "over"]
    <2>1. op' = [op EXCEPT ![o] = rec] /\ running'
      BY <1>2 DEF BeginRun, RemovalTurn
    <2>2. /\ rec \in OpType /\ rec.kind = "run" /\ rec.turn = (IF host THEN Stacks ELSE {})
          /\ rec.step = (IF host THEN "ask" ELSE "over")
      BY DEF NoOp, OpType, OneStack, Removals
    <2>3. ~running
      BY DEF BeginRun
    <2>4. op \in [Ops -> OpType]
      BY DEF TypeOK, OpType
    <2> HIDE DEF rec
    <2> QED
      BY <1>2, <2>1, <2>2, <2>3, <2>4
  <1> QED
    BY <1>1, <1>2 DEF BeginRun

(* Every step preserves the types.                                         *)
LEMMA TypeStep ==
  ASSUME TypeOK, TurnsInv, SparedInv, [Next]_vars
  PROVE  TypeOK'
  <1> USE HostAssumption DEF TypeOK
  <1>1. ASSUME NEW o \in Ops, NEW s \in Stacks, NEW kind \in OneStack, Begin(o, kind, s)
        PROVE  TypeOK'
    <2>1. op' \in [Ops -> OpType]
      BY <1>1, Becomes DEF Begin
    <2> QED
      BY <1>1, <2>1 DEF Begin, Reading, OpType
  <1>2. ASSUME NEW o \in Ops, NEW s \in Stacks, Pull(o, s) PROVE TypeOK'
    <2>1. Pulled(o, s)
      BY <1>2, PullMoves
    <2>2. op' \in [Ops -> OpType] /\ objects' \subseteq Stacks /\ answered' \subseteq Stacks \ objects'
      BY <2>1 DEF Pulled
    <2> QED
      BY <1>2, <2>2 DEF Pull, OpType, Reading
  <1>3. ASSUME NEW o \in Ops, NEW s \in Stacks, Create(o, s) PROVE TypeOK'
    <2>1. op' \in [Ops -> OpType]
      BY <1>3, Becomes DEF Create
    <2>2. ctr' \in [Stacks -> {"gone", "idle", "running"}]
      BY <1>3 DEF Create
    <2> QED
      BY <1>3, <2>1, <2>2 DEF Create, Reading, OpType
  <1>4. ASSUME NEW o \in Ops, NEW s \in Stacks, Start(o, s) PROVE TypeOK'
    <2>1. op' \in [Ops -> OpType]
      BY <1>4, Becomes DEF Start
    <2>2. ctr' \in [Stacks -> {"gone", "idle", "running"}]
      BY <1>4 DEF Start
    <2> QED
      BY <1>4, <2>1, <2>2 DEF Start, Reading, OpType
  <1>5. ASSUME NEW o \in Ops, NEW s \in Stacks, Settle(o, s) PROVE TypeOK'
    BY <1>5 DEF Settle, Done, Reading, OneStack, Removals, NoOp, Idle, NoSnap
  <1>6. ASSUME NEW o \in Ops, NEW s \in Stacks, Fails(o, s) PROVE TypeOK'
    BY <1>6 DEF Fails, Done, Reading, OneStack, Removals, NoOp, Idle, NoSnap
  <1>7. ASSUME NEW o \in Ops, NEW s \in Stacks, Down(o, s) PROVE TypeOK'
    BY <1>7 DEF Down, Done, Reading, OneStack, Removals, NoOp, Idle, NoSnap
  <1>8. ASSUME NEW o \in Ops, NEW s \in Stacks, NEW says \in {"silent", "names", "unreadable"}, Edit(o, s, says)
        PROVE  TypeOK'
    BY <1>8 DEF Edit, Done, Reading, OneStack, Removals, NoOp, Idle, NoSnap
  <1>9. ASSUME NEW o \in Ops, NEW s \in Stacks, RemoveOne(o, s) PROVE TypeOK'
    <2>1. op' = [op EXCEPT ![o] = [op[o] EXCEPT !.todo = @ \ {s},
                                   !.owed = IF s \in Unused THEN @ \cup {s} ELSE @]]
      BY <1>9 DEF RemoveOne
    <2>2. op' \in [Ops -> OpType]
      <3>1. op[o].todo \ {s} \in SUBSET Stacks /\ op[o].owed \cup {s} \in SUBSET Stacks
        OBVIOUS
      <3>2. op \in [Ops -> OpType] /\ op[o] \in OpType
        BY DEF OpType
      <3>3. [op[o] EXCEPT !.todo = @ \ {s}, !.owed = IF s \in Unused THEN @ \cup {s} ELSE @] \in OpType
        BY <3>1, <3>2 DEF OpType
      <3> QED
        BY <2>1, <3>2, <3>3
    <2>3. objects' \subseteq objects
      BY <1>9 DEF RemoveOne
    <2> QED
      BY <1>9, <2>2, <2>3 DEF RemoveOne, OpType, Reading
  <1>10. ASSUME NEW s \in Stacks, Exit(s) PROVE TypeOK'
    BY <1>10 DEF Exit, Reading, OneStack, Removals, NoOp, Idle, NoSnap
  <1>11. ASSUME NEW o \in Ops, Serve(o) PROVE TypeOK'
    BY <1>11 DEF Serve, Fresh, Take, Done, Reading, OneStack, Removals, NoOp, Idle,
         NoSnap
  <1>12. ASSUME NEW o \in Ops, ReadNames(o) PROVE TypeOK'
    <2>1. Spared \in SUBSET Stacks
      BY DEF Spared
    <2>2. fetch' = [by |-> o, step |-> "names", spared |-> Spared, shown |-> {}, cand |-> {},
                    current |-> TRUE]
      BY <1>12 DEF ReadNames, Idle
    <2>3. fetch' \in FetchType
      BY <2>1, <2>2 DEF FetchType
    <2> QED
      BY <1>12, <2>3 DEF ReadNames, FetchType
  <1>13. ASSUME NEW o \in Ops, ReadDisk(o) PROVE TypeOK'
    <2>1. Unused \ fetch.spared \in SUBSET Stacks /\ objects \in SUBSET Stacks
      BY DEF Unused
    <2>2. fetch' = [fetch EXCEPT !.step = "disk", !.spared = {}, !.shown = objects,
                                 !.cand = Unused \ fetch.spared]
      BY <1>13 DEF ReadDisk
    <2>3. fetch' \in FetchType
      BY <2>1, <2>2 DEF FetchType
    <2> QED
      BY <1>13, <2>3 DEF ReadDisk, FetchType
  <1>14. ASSUME NEW o \in Ops, EndFetch(o) PROVE TypeOK'
    <2>1. Took(o, fetch.cand)
      BY <1>14, Taken DEF EndFetch, SparedInv
    <2>2. op' \in [Ops -> OpType]
      BY <2>1, TookMoves
    <2>3. fetch' = Idle /\ snap' \in {snap, [valid |-> TRUE, shown |-> fetch.shown, cand |-> fetch.cand]}
      BY <1>14 DEF EndFetch
    <2> QED
      BY <1>14, <2>2, <2>3 DEF EndFetch, OpType, Idle
  <1>15. ASSUME NEW o \in Ops, FetchFails(o) PROVE TypeOK'
    <2>1. op' \in [Ops -> OpType]
      BY <1>15, Becomes DEF FetchFails
    <2>2. fetch' \in FetchType
      BY <1>15 DEF FetchFails, Idle, FetchType
    <2> QED
      BY <1>15, <2>1, <2>2 DEF FetchFails, OpType, FetchType
  <1>16. ASSUME NEW o \in Ops, Look(o) PROVE TypeOK'
    BY <1>16 DEF Look, Reading, OneStack, Removals, NoOp, Idle, NoSnap
  <1>17. ASSUME NEW o \in Ops, NEW kind \in {"prune", "pruneContainers", "free"}, NEW req \in SUBSET Stacks, BeginRemoval(o, kind, req)
        PROVE  TypeOK'
    BY <1>17 DEF BeginRemoval, RemovalTurn, Free, Reading, OneStack, Removals, NoOp, Idle,
         NoSnap
  <1>18. ASSUME NEW o \in Ops, NEW gone \in SUBSET objects, Prune(o, gone)
        PROVE  TypeOK'
    <2>1. op' = [op EXCEPT ![o] = [op[o] EXCEPT !.step = "over", !.owed = gone]]
      BY <1>18 DEF Prune
    <2>2. op' \in [Ops -> OpType]
      <3>1. op \in [Ops -> OpType] /\ op[o] \in OpType /\ gone \in SUBSET Stacks
        BY DEF OpType
      <3>2. [op[o] EXCEPT !.step = "over", !.owed = gone] \in OpType
        BY <3>1 DEF OpType
      <3> QED
        BY <2>1, <3>1, <3>2
    <2> QED
      BY <1>18, <2>2 DEF Prune, OpType, Reading
  <1>19. ASSUME NEW o \in Ops, PruneContainers(o) PROVE TypeOK'
    <2>1. op' \in [Ops -> OpType]
      BY <1>19, Becomes DEF PruneContainers
    <2>2. ctr' \in [Stacks -> {"gone", "idle", "running"}]
      BY <1>19 DEF PruneContainers
    <2> QED
      BY <1>19, <2>1, <2>2 DEF PruneContainers, Reading, OpType
  <1>20. ASSUME NEW o \in Ops, NEW host \in BOOLEAN, BeginRun(o, host)
        PROVE  TypeOK'
    <2>1. op' \in [Ops -> OpType]
      BY <1>20, RunMoves DEF OpType
    <2>2. running' \in BOOLEAN
      BY <1>20 DEF BeginRun
    <2> QED
      BY <1>20, <2>1, <2>2 DEF BeginRun, OpType, Reading
  <1>21. ASSUME NEW o \in Ops, EndRemoval(o) PROVE TypeOK'
    BY <1>21 DEF EndRemoval, Invalidate, Done, OneStack, Removals, NoOp, Idle, NoSnap
  <1>22. CASE UNCHANGED vars
    BY <1>22 DEF vars, Reading, OneStack, Removals, NoOp, Idle, NoSnap
  <1> HIDE DEF TypeOK
  <1> QED
    BY <1>1, <1>2, <1>3, <1>4, <1>5, <1>6, <1>7, <1>8, <1>9, <1>10, <1>11,
       <1>12, <1>13, <1>14, <1>15, <1>16, <1>17, <1>18, <1>19, <1>20, <1>21,
       <1>22 DEF Next

(* A turn is taken when nobody has it, and kept until the operation ends.  *)
LEMMA TurnsStep ==
  ASSUME TypeOK, TurnsInv, SparedInv, [Next]_vars
  PROVE  TurnsInv'
  <1> USE HostAssumption DEF TypeOK, TurnsInv
  <1>1. ASSUME NEW o \in Ops, NEW s \in Stacks, NEW kind \in OneStack, Begin(o, kind, s)
        PROVE  TurnsInv'
    <2>1. /\ op'[o].kind = kind /\ op'[o].step = "work" /\ op'[o].turn = {s} /\ op'[o].owed = {}
          /\ Free({s})
      BY <1>1 DEF Begin, NoOp
    <2>2. \A p \in Ops \ {o} : op'[p] = op[p]
      BY <1>1 DEF Begin, NoOp
    <2>3. Shape(o)'
      BY <1>1, <2>1 DEF Shape, Begin, OneStack, NoOp, In, At, Asks
    <2> QED
      BY <1>1, <2>1, <2>2, <2>3, TurnsFrame DEF Begin, In
  <1>2. ASSUME NEW o \in Ops, NEW s \in Stacks, Pull(o, s) PROVE TurnsInv'
    <2>0. Pulled(o, s)
      BY <1>2, PullMoves
    <2>1. \A p \in Ops \ {o} : SameButOwed(p)
      BY <2>0 DEF SameButOwed, Pulled
    <2>2. Shape(o)'
      BY <1>2, <2>0 DEF Shape, Pull, OneStack, In, Pulled
    <2>3. op'[o].turn = op[o].turn
      BY <2>0 DEF Pulled
    <2> QED
      BY <1>2, <2>1, <2>2, <2>3, TurnsFrame
  <1>3. ASSUME NEW o \in Ops, NEW s \in Stacks, Create(o, s) PROVE TurnsInv'
    <2>1. /\ op'[o].kind = op[o].kind /\ op'[o].step = "start"
          /\ op'[o].turn = op[o].turn /\ op'[o].owed = op[o].owed
      BY <1>3 DEF Create, Go
    <2>2. \A p \in Ops \ {o} : op'[p] = op[p]
      BY <1>3 DEF Create, Go
    <2>3. Shape(o)'
      BY <1>3, <2>1 DEF Shape, Create, OneStack, NoOp, In, At, Asks
    <2> QED
      BY <1>3, <2>1, <2>2, <2>3, TurnsFrame DEF Create, In
  <1>4. ASSUME NEW o \in Ops, NEW s \in Stacks, Start(o, s) PROVE TurnsInv'
    <2>1. /\ op'[o].kind = op[o].kind /\ op'[o].step = "settle"
          /\ op'[o].turn = op[o].turn /\ op'[o].owed = op[o].owed
      BY <1>4 DEF Start, Go
    <2>2. \A p \in Ops \ {o} : op'[p] = op[p]
      BY <1>4 DEF Start, Go
    <2>3. Shape(o)'
      BY <1>4, <2>1 DEF Shape, Start, OneStack, NoOp, In, At, Asks
    <2> QED
      BY <1>4, <2>1, <2>2, <2>3, TurnsFrame DEF Start, In
  <1>5. ASSUME NEW o \in Ops, NEW s \in Stacks, Settle(o, s) PROVE TurnsInv'
    <2>1. op'[o] = NoOp /\ op'[o].turn = {} /\ op'[o].kind = "none"
      BY <1>5 DEF Settle, Done, NoOp
    <2>2. \A p \in Ops \ {o} : op'[p] = op[p]
      BY <1>5 DEF Settle, Done, NoOp
    <2>3. Shape(o)'
      BY <1>5, <2>1 DEF Shape, Settle, OneStack, NoOp, In, At, Asks
    <2> QED
      BY <1>5, <2>1, <2>2, <2>3, TurnsFrame DEF Settle, In
  <1>6. ASSUME NEW o \in Ops, NEW s \in Stacks, Fails(o, s) PROVE TurnsInv'
    <2>1. op'[o] = NoOp /\ op'[o].turn = {} /\ op'[o].kind = "none"
      BY <1>6 DEF Fails, Done, NoOp
    <2>2. \A p \in Ops \ {o} : op'[p] = op[p]
      BY <1>6 DEF Fails, Done, NoOp
    <2>3. Shape(o)'
      BY <1>6, <2>1 DEF Shape, Fails, OneStack, NoOp, In, At, Asks
    <2> QED
      BY <1>6, <2>1, <2>2, <2>3, TurnsFrame DEF Fails, In
  <1>7. ASSUME NEW o \in Ops, NEW s \in Stacks, Down(o, s) PROVE TurnsInv'
    <2>1. op'[o] = NoOp /\ op'[o].turn = {} /\ op'[o].kind = "none"
      BY <1>7 DEF Down, Done, NoOp
    <2>2. \A p \in Ops \ {o} : op'[p] = op[p]
      BY <1>7 DEF Down, Done, NoOp
    <2>3. Shape(o)'
      BY <1>7, <2>1 DEF Shape, Down, OneStack, NoOp, In, At, Asks
    <2> QED
      BY <1>7, <2>1, <2>2, <2>3, TurnsFrame DEF Down, In
  <1>8. ASSUME NEW o \in Ops, NEW s \in Stacks, NEW says \in {"silent", "names", "unreadable"}, Edit(o, s, says)
        PROVE  TurnsInv'
    <2>1. op'[o] = NoOp /\ op'[o].turn = {} /\ op'[o].kind = "none"
      BY <1>8 DEF Edit, Done, NoOp
    <2>2. \A p \in Ops \ {o} : op'[p] = op[p]
      BY <1>8 DEF Edit, Done, NoOp
    <2>3. Shape(o)'
      BY <1>8, <2>1 DEF Shape, Edit, OneStack, NoOp, In, At, Asks
    <2> QED
      BY <1>8, <2>1, <2>2, <2>3, TurnsFrame DEF Edit, In
  <1>9. ASSUME NEW o \in Ops, NEW s \in Stacks, RemoveOne(o, s)
        PROVE  TurnsInv'
    <2>1. /\ op'[o].kind = op[o].kind /\ op'[o].step = op[o].step
          /\ op'[o].turn = op[o].turn
      BY <1>9 DEF RemoveOne, At
    <2>2. \A p \in Ops \ {o} : op'[p] = op[p]
      BY <1>9 DEF RemoveOne, At
    <2>3. Shape(o)'
      BY <1>9, <2>1 DEF Shape, RemoveOne, OneStack, NoOp, In, At, Asks
    <2> QED
      BY <1>9, <2>1, <2>2, <2>3, TurnsFrame DEF RemoveOne, In
  <1>10. ASSUME NEW s \in Stacks, Exit(s) PROVE TurnsInv'
    BY <1>10 DEF Exit, Reading, TurnsApart, Shape, OneStack, Removals, NoOp, In, At, Asks
  <1>11. ASSUME NEW o \in Ops, Serve(o) PROVE TurnsInv'
    <2>1. Took(o, snap.cand)
      BY <1>11, Taken DEF Serve
    <2> QED
      BY <1>11, <2>1, TookTurns DEF Serve, TurnsInv
  <1>12. ASSUME NEW o \in Ops, ReadNames(o) PROVE TurnsInv'
    BY <1>12 DEF ReadNames, TurnsApart, Shape, OneStack, Removals, NoOp, In, At, Asks
  <1>13. ASSUME NEW o \in Ops, ReadDisk(o) PROVE TurnsInv'
    BY <1>13 DEF ReadDisk, TurnsApart, Shape, OneStack, Removals, NoOp, In, At, Asks
  <1>14. ASSUME NEW o \in Ops, EndFetch(o) PROVE TurnsInv'
    <2>1. Asks(o)
      BY <1>14 DEF EndFetch, SparedInv
    <2>2. Took(o, fetch.cand)
      BY <1>14, <2>1, Taken DEF EndFetch
    <2> QED
      BY <2>1, <2>2, TookTurns DEF TurnsInv
  <1>15. ASSUME NEW o \in Ops, FetchFails(o) PROVE TurnsInv'
    <2>1. CASE op' = [op EXCEPT ![o] = NoOp]
      <3>1. op'[o] = NoOp /\ \A p \in Ops \ {o} : op'[p] = op[p]
        BY <2>1
      <3>2. Shape(o)' /\ op'[o].turn = {}
        BY <3>1 DEF Shape, NoOp, OneStack
      <3> QED
        BY <3>1, <3>2, TurnsFrame
    <2>2. CASE op[o].kind # "summary" /\ op' = [op EXCEPT ![o].step = "over"]
      <3>1. /\ op'[o].kind = op[o].kind /\ op'[o].step = "over" /\ op'[o].turn = op[o].turn
            /\ \A p \in Ops \ {o} : op'[p] = op[p]
        BY <2>2
      <3>2. Shape(o)'
        BY <1>15, <2>2, <3>1 DEF Shape, FetchFails, Asks, OneStack, NoOp
      <3> QED
        BY <3>1, <3>2, TurnsFrame
    <2> QED
      BY <1>15, <2>1, <2>2 DEF FetchFails, Done, Go
  <1>16. ASSUME NEW o \in Ops, Look(o) PROVE TurnsInv'
    <2>1. /\ op'[o].kind = "summary" /\ op'[o].step = "ask" /\ op'[o].turn = {}
      BY <1>16 DEF Look, NoOp
    <2>2. \A p \in Ops \ {o} : op'[p] = op[p]
      BY <1>16 DEF Look, NoOp
    <2>3. Shape(o)'
      BY <1>16, <2>1 DEF Shape, Look, OneStack, NoOp, In, At, Asks
    <2> QED
      BY <1>16, <2>1, <2>2, <2>3, TurnsFrame DEF Look, In
  <1>17. ASSUME NEW o \in Ops, NEW kind \in {"prune", "pruneContainers", "free"}, NEW req \in SUBSET Stacks, BeginRemoval(o, kind, req)
        PROVE  TurnsInv'
    <2>1. /\ op'[o].kind = kind /\ op'[o].turn = Stacks /\ Free(Stacks)
          /\ op'[o].step = IF kind = "free" THEN "ask" ELSE "work"
      BY <1>17 DEF BeginRemoval, RemovalTurn, NoOp
    <2>2. \A p \in Ops \ {o} : op'[p] = op[p]
      BY <1>17 DEF BeginRemoval, RemovalTurn, NoOp
    <2>3. Shape(o)'
      BY <1>17, <2>1 DEF Shape, BeginRemoval, OneStack, NoOp, In, At, Asks
    <2> QED
      BY <1>17, <2>1, <2>2, <2>3, TurnsFrame DEF BeginRemoval, In
  <1>18. ASSUME NEW o \in Ops, NEW gone \in SUBSET objects, Prune(o, gone)
        PROVE  TurnsInv'
    <2>1. /\ op'[o].kind = op[o].kind /\ op'[o].step = "over"
          /\ op'[o].turn = op[o].turn
      BY <1>18 DEF Prune
    <2>2. \A p \in Ops \ {o} : op'[p] = op[p]
      BY <1>18 DEF Prune
    <2>3. Shape(o)'
      BY <1>18, <2>1 DEF Shape, Prune, OneStack, NoOp, In, At, Asks
    <2> QED
      BY <1>18, <2>1, <2>2, <2>3, TurnsFrame DEF Prune, In
  <1>19. ASSUME NEW o \in Ops, PruneContainers(o) PROVE TurnsInv'
    <2>1. /\ op'[o].kind = op[o].kind /\ op'[o].step = "over"
          /\ op'[o].turn = op[o].turn
      BY <1>19 DEF PruneContainers, Go
    <2>2. \A p \in Ops \ {o} : op'[p] = op[p]
      BY <1>19 DEF PruneContainers, Go
    <2>3. Shape(o)'
      BY <1>19, <2>1 DEF Shape, PruneContainers, OneStack, NoOp, In, At, Asks
    <2> QED
      BY <1>19, <2>1, <2>2, <2>3, TurnsFrame DEF PruneContainers, In
  <1>20. ASSUME NEW o \in Ops, NEW host \in BOOLEAN, BeginRun(o, host)
        PROVE  TurnsInv'
    <2>1. CASE UNCHANGED op
      BY <2>1 DEF TurnsApart, Shape
    <2>2. CASE op' # op
      <3>1. Shape(o)'
        BY <1>20, <2>2, RunMoves DEF Shape, OneStack
      <3> QED
        BY <1>20, <2>2, <3>1, RunMoves, TurnsFrame
    <2> QED
      BY <2>1, <2>2
  <1>21. ASSUME NEW o \in Ops, EndRemoval(o) PROVE TurnsInv'
    <2>1. op'[o] = NoOp /\ op'[o].turn = {} /\ op'[o].kind = "none"
      BY <1>21 DEF EndRemoval, Done, NoOp
    <2>2. \A p \in Ops \ {o} : op'[p] = op[p]
      BY <1>21 DEF EndRemoval, Done, NoOp
    <2>3. Shape(o)'
      BY <1>21, <2>1 DEF Shape, EndRemoval, OneStack, NoOp, In, At, Asks
    <2> QED
      BY <1>21, <2>1, <2>2, <2>3, TurnsFrame DEF EndRemoval, In
  <1>22. CASE UNCHANGED vars
    BY <1>22 DEF vars, Reading, TurnsApart, Shape, OneStack, Removals, NoOp, In, At, Asks
  <1> HIDE DEF TypeOK, TurnsInv
  <1> QED
    BY <1>1, <1>2, <1>3, <1>4, <1>5, <1>6, <1>7, <1>8, <1>9, <1>10, <1>11,
       <1>12, <1>13, <1>14, <1>15, <1>16, <1>17, <1>18, <1>19, <1>20, <1>21,
       <1>22 DEF Next

(* Two operations that have a turn of the same stack are the same.         *)
LEMMA OneHolder ==
  ASSUME TurnsInv, NEW o \in Ops, NEW p \in Ops, NEW s, s \in op[o].turn, s \in op[p].turn
  PROVE  o = p
  BY DEF TurnsInv, TurnsApart

(* What an up has made is under its turn, where no removal can be.         *)
LEMMA MadeStep ==
  ASSUME TypeOK, TurnsInv, SparedInv, MadeInTurnStays, [Next]_vars
  PROVE  MadeInTurnStays'
  <1> USE HostAssumption DEF TypeOK, MadeInTurnStays
  <1>1. ASSUME NEW o \in Ops, NEW s \in Stacks, NEW kind \in OneStack, Begin(o, kind, s)
        PROVE  MadeInTurnStays'
    BY <1>1 DEF Begin, Free, Reading, TurnsInv, Shape, TurnsApart, OneStack, Removals,
         NoOp, In, At, Asks
  <1>2. ASSUME NEW o \in Ops, NEW s \in Stacks, Pull(o, s)
        PROVE  MadeInTurnStays'
    <2>1. Pulled(o, s) /\ UNCHANGED ctr
      BY <1>2, PullMoves DEF Pull
    <2>2. ASSUME NEW p \in Ops, op'[p].kind = "up"
          PROVE  /\ op'[p].owed \subseteq objects'
                 /\ op'[p].step \in {"start", "settle"} => \A u \in op'[p].turn : ctr[u] # "gone"
      <3>1. CASE p = o
        BY <2>1, <2>2, <3>1 DEF Pulled
      <3>2. CASE p # o
        <4>1. op'[p] = op[p]
          BY <2>1, <2>2, <3>2 DEF Pulled
        <4>2. objects \subseteq objects'
          BY <2>1 DEF Pulled
        <4> QED
          BY <2>2, <4>1, <4>2
      <3> QED
        BY <3>1, <3>2
    <2> QED
      BY <2>1, <2>2
  <1>3. ASSUME NEW o \in Ops, NEW s \in Stacks, Create(o, s)
        PROVE  MadeInTurnStays'
    BY <1>3 DEF Create, Go, Reading, TurnsInv, Shape, TurnsApart, OneStack, Removals,
         NoOp, In, At, Asks
  <1>4. ASSUME NEW o \in Ops, NEW s \in Stacks, Start(o, s)
        PROVE  MadeInTurnStays'
    BY <1>4 DEF Start, Go, Reading, TurnsInv, Shape, TurnsApart, OneStack, Removals,
         NoOp, In, At, Asks
  <1>5. ASSUME NEW o \in Ops, NEW s \in Stacks, Settle(o, s)
        PROVE  MadeInTurnStays'
    BY <1>5 DEF Settle, Done, Reading, TurnsInv, Shape, TurnsApart, OneStack, Removals,
         NoOp, In, At, Asks
  <1>6. ASSUME NEW o \in Ops, NEW s \in Stacks, Fails(o, s)
        PROVE  MadeInTurnStays'
    BY <1>6 DEF Fails, Done, Reading, TurnsInv, Shape, TurnsApart, OneStack, Removals,
         NoOp, In, At, Asks
  <1>7. ASSUME NEW o \in Ops, NEW s \in Stacks, Down(o, s)
        PROVE  MadeInTurnStays'
    BY <1>7 DEF Down, Done, Reading, TurnsInv, Shape, TurnsApart, OneStack, Removals,
         NoOp, In, At, Asks
  <1>8. ASSUME NEW o \in Ops, NEW s \in Stacks, NEW says \in {"silent", "names", "unreadable"}, Edit(o, s, says)
        PROVE  MadeInTurnStays'
    BY <1>8 DEF Edit, Done, Reading, TurnsInv, Shape, TurnsApart, OneStack, Removals,
         NoOp, In, At, Asks
  <1>9. ASSUME NEW o \in Ops, NEW s \in Stacks, RemoveOne(o, s)
        PROVE  MadeInTurnStays'
    BY <1>9 DEF RemoveOne, Reading, TurnsInv, Shape, TurnsApart, OneStack, Removals,
         NoOp, In, At, Asks
  <1>10. ASSUME NEW s \in Stacks, Exit(s) PROVE MadeInTurnStays'
    BY <1>10 DEF Exit, Reading, TurnsInv, Shape, TurnsApart, OneStack, Removals, NoOp, In,
         At, Asks
  <1>11. ASSUME NEW o \in Ops, Serve(o) PROVE MadeInTurnStays'
    BY <1>11 DEF Serve, Fresh, Take, Done, Reading, TurnsInv, Shape, TurnsApart, OneStack,
         Removals, NoOp, In, At, Asks
  <1>12. ASSUME NEW o \in Ops, ReadNames(o) PROVE MadeInTurnStays'
    BY <1>12 DEF ReadNames, TurnsInv, Shape, TurnsApart, OneStack, Removals, NoOp, In, At,
         Asks
  <1>13. ASSUME NEW o \in Ops, ReadDisk(o) PROVE MadeInTurnStays'
    BY <1>13 DEF ReadDisk, TurnsInv, Shape, TurnsApart, OneStack, Removals, NoOp, In, At,
         Asks
  <1>14. ASSUME NEW o \in Ops, EndFetch(o) PROVE MadeInTurnStays'
    <2>1. Took(o, fetch.cand)
      BY <1>14, Taken DEF EndFetch, SparedInv
    <2>2. op'[o].kind # "up" /\ \A p \in Ops \ {o} : op'[p] = op[p]
      BY <2>1, TookMoves DEF NoOp
    <2> QED
      BY <1>14, <2>2 DEF EndFetch
  <1>15. ASSUME NEW o \in Ops, FetchFails(o) PROVE MadeInTurnStays'
    BY <1>15 DEF FetchFails, Done, Go, TurnsInv, Shape, TurnsApart, OneStack, Removals,
         NoOp, In, At, Asks
  <1>16. ASSUME NEW o \in Ops, Look(o) PROVE MadeInTurnStays'
    BY <1>16 DEF Look, Reading, TurnsInv, Shape, TurnsApart, OneStack, Removals, NoOp, In,
         At, Asks
  <1>17. ASSUME NEW o \in Ops, NEW kind \in {"prune", "pruneContainers", "free"}, NEW req \in SUBSET Stacks, BeginRemoval(o, kind, req)
        PROVE  MadeInTurnStays'
    BY <1>17 DEF BeginRemoval, RemovalTurn, Free, Reading, TurnsInv, Shape, TurnsApart,
         OneStack, Removals, NoOp, In, At, Asks
  <1>18. ASSUME NEW o \in Ops, NEW gone \in SUBSET objects, Prune(o, gone)
        PROVE  MadeInTurnStays'
    BY <1>18 DEF Prune, Reading, TurnsInv, Shape, TurnsApart, OneStack, Removals, NoOp,
         In, At, Asks
  <1>19. ASSUME NEW o \in Ops, PruneContainers(o) PROVE MadeInTurnStays'
    BY <1>19 DEF PruneContainers, Go, Reading, TurnsInv, Shape, TurnsApart, OneStack,
         Removals, NoOp, In, At, Asks
  <1>20. ASSUME NEW o \in Ops, NEW host \in BOOLEAN, BeginRun(o, host)
        PROVE  MadeInTurnStays'
    <2>1. UNCHANGED op \/ (op'[o].kind # "up" /\ \A p \in Ops \ {o} : op'[p] = op[p])
      BY <1>20, RunMoves
    <2> QED
      BY <1>20, <2>1 DEF BeginRun
  <1>21. ASSUME NEW o \in Ops, EndRemoval(o) PROVE MadeInTurnStays'
    BY <1>21 DEF EndRemoval, Invalidate, Done, TurnsInv, Shape, TurnsApart, OneStack,
         Removals, NoOp, In, At, Asks
  <1>22. CASE UNCHANGED vars
    BY <1>22 DEF vars, Reading, TurnsInv, Shape, TurnsApart, OneStack, Removals, NoOp, In,
         At, Asks
  <1> HIDE DEF TypeOK, MadeInTurnStays
  <1> QED
    BY <1>1, <1>2, <1>3, <1>4, <1>5, <1>6, <1>7, <1>8, <1>9, <1>10, <1>11,
       <1>12, <1>13, <1>14, <1>15, <1>16, <1>17, <1>18, <1>19, <1>20, <1>21,
       <1>22 DEF Next

(* A run begins when none is under way, and ends with its guard.           *)
LEMMA RunsStep ==
  ASSUME TypeOK, TurnsInv, SparedInv, RunsInv, [Next]_vars
  PROVE  RunsInv'
  <1> USE HostAssumption DEF TypeOK, RunsInv
  <1>1. ASSUME NEW o \in Ops, NEW s \in Stacks, NEW kind \in OneStack, Begin(o, kind, s)
        PROVE  RunsInv'
    BY <1>1 DEF Begin, Free, Reading, TurnsInv, Shape, OneStack, Removals, NoOp, In, At,
         Asks
  <1>2. ASSUME NEW o \in Ops, NEW s \in Stacks, Pull(o, s) PROVE RunsInv'
    <2>1. \A p \in Ops : op'[p].kind = "run" <=> op[p].kind = "run"
      <3>1. Pulled(o, s)
        BY <1>2, PullMoves
      <3> QED
        BY <3>1 DEF Pulled
    <2> QED
      BY <1>2, <2>1 DEF Pull
  <1>3. ASSUME NEW o \in Ops, NEW s \in Stacks, Create(o, s) PROVE RunsInv'
    BY <1>3 DEF Create, Go, Reading, TurnsInv, Shape, OneStack, Removals, NoOp, In, At,
         Asks
  <1>4. ASSUME NEW o \in Ops, NEW s \in Stacks, Start(o, s) PROVE RunsInv'
    BY <1>4 DEF Start, Go, Reading, TurnsInv, Shape, OneStack, Removals, NoOp, In, At,
         Asks
  <1>5. ASSUME NEW o \in Ops, NEW s \in Stacks, Settle(o, s) PROVE RunsInv'
    BY <1>5 DEF Settle, Done, Reading, TurnsInv, Shape, OneStack, Removals, NoOp, In, At,
         Asks
  <1>6. ASSUME NEW o \in Ops, NEW s \in Stacks, Fails(o, s) PROVE RunsInv'
    BY <1>6 DEF Fails, Done, Reading, TurnsInv, Shape, OneStack, Removals, NoOp, In, At,
         Asks
  <1>7. ASSUME NEW o \in Ops, NEW s \in Stacks, Down(o, s) PROVE RunsInv'
    BY <1>7 DEF Down, Done, Reading, TurnsInv, Shape, OneStack, Removals, NoOp, In, At,
         Asks
  <1>8. ASSUME NEW o \in Ops, NEW s \in Stacks, NEW says \in {"silent", "names", "unreadable"}, Edit(o, s, says)
        PROVE  RunsInv'
    BY <1>8 DEF Edit, Done, Reading, TurnsInv, Shape, OneStack, Removals, NoOp, In, At,
         Asks
  <1>9. ASSUME NEW o \in Ops, NEW s \in Stacks, RemoveOne(o, s) PROVE RunsInv'
    BY <1>9 DEF RemoveOne, Reading, TurnsInv, Shape, OneStack, Removals, NoOp, In, At,
         Asks
  <1>10. ASSUME NEW s \in Stacks, Exit(s) PROVE RunsInv'
    BY <1>10 DEF Exit, Reading, TurnsInv, Shape, OneStack, Removals, NoOp, In, At, Asks
  <1>11. ASSUME NEW o \in Ops, Serve(o) PROVE RunsInv'
    <2>1. Took(o, snap.cand)
      BY <1>11, Taken DEF Serve, SparedInv
    <2>2. \A p \in Ops : op'[p].kind = "run" <=> op[p].kind = "run"
      BY <2>1, TookMoves DEF NoOp
    <2> QED
      BY <1>11, <2>2 DEF Serve
  <1>12. ASSUME NEW o \in Ops, ReadNames(o) PROVE RunsInv'
    BY <1>12 DEF ReadNames, TurnsInv, Shape, OneStack, Removals, NoOp, In, At, Asks
  <1>13. ASSUME NEW o \in Ops, ReadDisk(o) PROVE RunsInv'
    BY <1>13 DEF ReadDisk, TurnsInv, Shape, OneStack, Removals, NoOp, In, At, Asks
  <1>14. ASSUME NEW o \in Ops, EndFetch(o) PROVE RunsInv'
    <2>1. Took(o, fetch.cand)
      BY <1>14, Taken DEF EndFetch, SparedInv
    <2>2. \A p \in Ops : op'[p].kind = "run" <=> op[p].kind = "run"
      BY <2>1, TookMoves DEF NoOp
    <2> QED
      BY <1>14, <2>2 DEF EndFetch
  <1>15. ASSUME NEW o \in Ops, FetchFails(o) PROVE RunsInv'
    BY <1>15 DEF FetchFails, Done, Go, TurnsInv, Shape, OneStack, Removals, NoOp, In, At,
         Asks
  <1>16. ASSUME NEW o \in Ops, Look(o) PROVE RunsInv'
    BY <1>16 DEF Look, Reading, TurnsInv, Shape, OneStack, Removals, NoOp, In, At, Asks
  <1>17. ASSUME NEW o \in Ops, NEW kind \in {"prune", "pruneContainers", "free"}, NEW req \in SUBSET Stacks, BeginRemoval(o, kind, req)
        PROVE  RunsInv'
    BY <1>17 DEF BeginRemoval, RemovalTurn, Free, Reading, TurnsInv, Shape, OneStack,
         Removals, NoOp, In, At, Asks
  <1>18. ASSUME NEW o \in Ops, NEW gone \in SUBSET objects, Prune(o, gone)
        PROVE  RunsInv'
    BY <1>18 DEF Prune, Reading, TurnsInv, Shape, OneStack, Removals, NoOp, In, At, Asks
  <1>19. ASSUME NEW o \in Ops, PruneContainers(o) PROVE RunsInv'
    BY <1>19 DEF PruneContainers, Go, Reading, TurnsInv, Shape, OneStack, Removals, NoOp,
         In, At, Asks
  <1>20. ASSUME NEW o \in Ops, NEW host \in BOOLEAN, BeginRun(o, host)
        PROVE  RunsInv'
    BY <1>20, RunMoves
  <1>21. ASSUME NEW o \in Ops, EndRemoval(o) PROVE RunsInv'
    <2>1. op'[o] = NoOp /\ \A p \in Ops \ {o} : op'[p] = op[p]
      BY <1>21 DEF EndRemoval, Done
    <2>2. op'[o].kind # "run"
      BY <2>1 DEF NoOp
    <2>3. running' = (running /\ op[o].kind # "run")
      BY <1>21 DEF EndRemoval
    <2>4. CASE op[o].kind = "run"
      <3>1. \A p \in Ops : op'[p].kind # "run"
        BY <2>1, <2>2, <2>4
      <3> QED
        BY <2>3, <2>4, <3>1
    <2>5. CASE op[o].kind # "run"
      <3>1. \A p \in Ops : op'[p].kind = "run" <=> op[p].kind = "run"
        BY <2>1, <2>2, <2>5
      <3>2. running' <=> running
        BY <2>3, <2>5
      <3> QED
        BY <3>1, <3>2
    <2> QED
      BY <2>4, <2>5
  <1>22. CASE UNCHANGED vars
    BY <1>22 DEF vars, Reading, TurnsInv, Shape, OneStack, Removals, NoOp, In, At, Asks
  <1> HIDE DEF TypeOK, RunsInv
  <1> QED
    BY <1>1, <1>2, <1>3, <1>4, <1>5, <1>6, <1>7, <1>8, <1>9, <1>10, <1>11,
       <1>12, <1>13, <1>14, <1>15, <1>16, <1>17, <1>18, <1>19, <1>20, <1>21,
       <1>22 DEF Next

(* No file changes while a removal has every turn.                         *)
LEMMA SparedStep ==
  ASSUME TypeOK, TurnsInv, SparedInv, [Next]_vars
  PROVE  SparedInv'
  <1> USE HostAssumption DEF TypeOK, SparedInv
  <1>1. ASSUME NEW o \in Ops, NEW s \in Stacks, NEW kind \in OneStack, Begin(o, kind, s)
        PROVE  SparedInv'
    BY <1>1 DEF Begin, Free, Reading, TurnsInv, Shape, TurnsApart, OneStack, Removals,
         NoOp, Idle, In, At, Asks, Removes, Spared, Withheld
  <1>2. ASSUME NEW o \in Ops, NEW s \in Stacks, Pull(o, s) PROVE SparedInv'
    <2>1. Pulled(o, s) /\ UNCHANGED <<files, fetch>>
      BY <1>2, PullMoves DEF Pull, Reading
    <2>2. \A p \in Ops : op'[p].kind = op[p].kind
      BY <2>1 DEF Pulled
    <2>3. \A p \in Ops \ {o} : op'[p].step = op[p].step /\ op'[p].todo = op[p].todo
      BY <2>1 DEF Pulled
    <2>4. fetch.by # o /\ op'[o].step # "remove"
      BY <1>2, <2>1 DEF Pull, Pulled, Asks, At
    <2> QED
      BY <2>1, <2>2, <2>3, <2>4 DEF Asks, Removes, At, Spared, Withheld
  <1>3. ASSUME NEW o \in Ops, NEW s \in Stacks, Create(o, s) PROVE SparedInv'
    BY <1>3 DEF Create, Go, Reading, TurnsInv, Shape, TurnsApart, OneStack, Removals,
         NoOp, Idle, In, At, Asks, Removes, Spared, Withheld
  <1>4. ASSUME NEW o \in Ops, NEW s \in Stacks, Start(o, s) PROVE SparedInv'
    BY <1>4 DEF Start, Go, Reading, TurnsInv, Shape, TurnsApart, OneStack, Removals,
         NoOp, Idle, In, At, Asks, Removes, Spared, Withheld
  <1>5. ASSUME NEW o \in Ops, NEW s \in Stacks, Settle(o, s) PROVE SparedInv'
    BY <1>5 DEF Settle, Done, Reading, TurnsInv, Shape, TurnsApart, OneStack, Removals,
         NoOp, Idle, In, At, Asks, Removes, Spared, Withheld
  <1>6. ASSUME NEW o \in Ops, NEW s \in Stacks, Fails(o, s) PROVE SparedInv'
    BY <1>6 DEF Fails, Done, Reading, TurnsInv, Shape, TurnsApart, OneStack, Removals,
         NoOp, Idle, In, At, Asks, Removes, Spared, Withheld
  <1>7. ASSUME NEW o \in Ops, NEW s \in Stacks, Down(o, s) PROVE SparedInv'
    BY <1>7 DEF Down, Done, Reading, TurnsInv, Shape, TurnsApart, OneStack, Removals,
         NoOp, Idle, In, At, Asks, Removes, Spared, Withheld
  <1>8. ASSUME NEW o \in Ops, NEW s \in Stacks, NEW says \in {"silent", "names", "unreadable"}, Edit(o, s, says)
        PROVE  SparedInv'
    BY <1>8 DEF Edit, Done, Reading, TurnsInv, Shape, TurnsApart, OneStack, Removals,
         NoOp, Idle, In, At, Asks, Removes, Spared, Withheld
  <1>9. ASSUME NEW o \in Ops, NEW s \in Stacks, RemoveOne(o, s)
        PROVE  SparedInv'
    BY <1>9 DEF RemoveOne, Reading, TurnsInv, Shape, TurnsApart, OneStack, Removals,
         NoOp, Idle, In, At, Asks, Removes, Spared, Withheld
  <1>10. ASSUME NEW s \in Stacks, Exit(s) PROVE SparedInv'
    BY <1>10 DEF Exit, Reading, TurnsInv, Shape, TurnsApart, OneStack, Removals, NoOp,
         Idle, In, At, Asks, Removes, Spared, Withheld
  <1>11. ASSUME NEW o \in Ops, Serve(o) PROVE SparedInv'
    BY <1>11 DEF Serve, Fresh, Take, Done, Reading, TurnsInv, Shape, TurnsApart, OneStack,
         Removals, NoOp, Idle, In, At, Asks, Removes, Spared, Withheld
  <1>12. ASSUME NEW o \in Ops, ReadNames(o) PROVE SparedInv'
    BY <1>12 DEF ReadNames, TurnsInv, Shape, TurnsApart, OneStack, Removals, NoOp, Idle,
         In, At, Asks, Removes, Spared, Withheld
  <1>13. ASSUME NEW o \in Ops, ReadDisk(o) PROVE SparedInv'
    BY <1>13 DEF ReadDisk, TurnsInv, Shape, TurnsApart, OneStack, Removals, NoOp, Idle,
         In, At, Asks, Removes, Spared, Withheld
  <1>14. ASSUME NEW o \in Ops, EndFetch(o) PROVE SparedInv'
    <2>1. fetch.by = o /\ fetch.step = "disk" /\ fetch' = Idle /\ UNCHANGED files
      BY <1>14 DEF EndFetch
    <2>2. Took(o, fetch.cand)
      BY <1>14, Taken DEF EndFetch
    <2>3. fetch'.by = Nobody
      BY <2>1 DEF Idle
    <2>4. ASSUME NEW p \in Ops, op'[p].step = "remove" PROVE op'[p].todo \cap Spared = {}
      <3>1. CASE p = o
        <4>1. Removes(o) /\ op'[o].todo \subseteq fetch.cand
          BY <2>2, <2>4, <3>1, TookMoves DEF NoOp, Removes
        <4> QED
          BY <2>1, <3>1, <4>1
      <3>2. CASE p # o
        BY <2>2, <2>4, <3>2, TookMoves DEF At
      <3> QED
        BY <3>1, <3>2
    <2> QED
      BY <2>1, <2>3, <2>4 DEF At, Spared, Withheld
  <1>15. ASSUME NEW o \in Ops, FetchFails(o) PROVE SparedInv'
    BY <1>15 DEF FetchFails, Done, Go, TurnsInv, Shape, TurnsApart, OneStack, Removals,
         NoOp, Idle, In, At, Asks, Removes, Spared, Withheld
  <1>16. ASSUME NEW o \in Ops, Look(o) PROVE SparedInv'
    BY <1>16 DEF Look, Reading, TurnsInv, Shape, TurnsApart, OneStack, Removals, NoOp,
         Idle, In, At, Asks, Removes, Spared, Withheld
  <1>17. ASSUME NEW o \in Ops, NEW kind \in {"prune", "pruneContainers", "free"}, NEW req \in SUBSET Stacks, BeginRemoval(o, kind, req)
        PROVE  SparedInv'
    BY <1>17 DEF BeginRemoval, RemovalTurn, Free, Reading, TurnsInv, Shape, TurnsApart,
         OneStack, Removals, NoOp, Idle, In, At, Asks, Removes, Spared, Withheld
  <1>18. ASSUME NEW o \in Ops, NEW gone \in SUBSET objects, Prune(o, gone)
        PROVE  SparedInv'
    BY <1>18 DEF Prune, Reading, TurnsInv, Shape, TurnsApart, OneStack, Removals, NoOp,
         Idle, In, At, Asks, Removes, Spared, Withheld
  <1>19. ASSUME NEW o \in Ops, PruneContainers(o) PROVE SparedInv'
    BY <1>19 DEF PruneContainers, Go, Reading, TurnsInv, Shape, TurnsApart, OneStack,
         Removals, NoOp, Idle, In, At, Asks, Removes, Spared, Withheld
  <1>20. ASSUME NEW o \in Ops, NEW host \in BOOLEAN, BeginRun(o, host)
        PROVE  SparedInv'
    <2>1. UNCHANGED <<files, fetch>> /\ op[o].step = "idle"
      BY <1>20 DEF BeginRun, Reading, At
    <2>2. CASE UNCHANGED op
      BY <2>1, <2>2 DEF Asks, Removes, At, Spared, Withheld
    <2>3. CASE op' # op
      <3>1. op'[o].step # "remove" /\ \A p \in Ops \ {o} : op'[p] = op[p]
        BY <1>20, <2>3, RunMoves
      <3>2. fetch.by # o
        BY <2>1 DEF Asks
      <3> QED
        BY <2>1, <3>1, <3>2 DEF Asks, Removes, At, Spared, Withheld
    <2> QED
      BY <2>2, <2>3
  <1>21. ASSUME NEW o \in Ops, EndRemoval(o) PROVE SparedInv'
    BY <1>21 DEF EndRemoval, Invalidate, Done, TurnsInv, Shape, TurnsApart, OneStack,
         Removals, NoOp, Idle, In, At, Asks, Removes, Spared, Withheld
  <1>22. CASE UNCHANGED vars
    BY <1>22 DEF vars, Reading, TurnsInv, Shape, TurnsApart, OneStack, Removals, NoOp,
         Idle, In, At, Asks, Removes, Spared, Withheld
  <1> HIDE DEF TypeOK, SparedInv
  <1> QED
    BY <1>1, <1>2, <1>3, <1>4, <1>5, <1>6, <1>7, <1>8, <1>9, <1>10, <1>11,
       <1>12, <1>13, <1>14, <1>15, <1>16, <1>17, <1>18, <1>19, <1>20, <1>21,
       <1>22 DEF Next

(* A removal is answered after what was kept and is under way was dropped. *)
LEMMA ShownStep ==
  ASSUME TypeOK, TurnsInv, SparedInv, ShownInv, [Next]_vars
  PROVE  ShownInv'
  <1> USE HostAssumption DEF TypeOK, ShownInv
  <1>1. ASSUME NEW o \in Ops, NEW s \in Stacks, NEW kind \in OneStack, Begin(o, kind, s)
        PROVE  ShownInv'
    BY <1>1 DEF Begin, Free, Reading, TurnsInv, Shape, SparedInv, OneStack, Removals,
         NoOp, Idle, NoSnap, In, At, Asks, Store
  <1>2. ASSUME NEW o \in Ops, NEW s \in Stacks, Pull(o, s) PROVE ShownInv'
    <2>1. Pulled(o, s) /\ UNCHANGED <<fetch, snap>> /\ op[o].kind = "up"
      BY <1>2, PullMoves DEF Pull, Reading
    <2>2. answered' \subseteq answered
      BY <2>1 DEF Pulled
    <2>3. ASSUME NEW p \in Ops, op'[p].kind = "summary"
          PROVE  /\ op[p].kind = "summary" /\ op'[p].owed \subseteq op[p].owed
                 /\ op'[p].owed \subseteq answered'
      BY <2>1, <2>3 DEF Pulled
    <2> QED
      BY <2>1, <2>2, <2>3
  <1>3. ASSUME NEW o \in Ops, NEW s \in Stacks, Create(o, s) PROVE ShownInv'
    BY <1>3 DEF Create, Go, Reading, TurnsInv, Shape, SparedInv, OneStack, Removals,
         NoOp, Idle, NoSnap, In, At, Asks, Store
  <1>4. ASSUME NEW o \in Ops, NEW s \in Stacks, Start(o, s) PROVE ShownInv'
    BY <1>4 DEF Start, Go, Reading, TurnsInv, Shape, SparedInv, OneStack, Removals, NoOp,
         Idle, NoSnap, In, At, Asks, Store
  <1>5. ASSUME NEW o \in Ops, NEW s \in Stacks, Settle(o, s) PROVE ShownInv'
    BY <1>5 DEF Settle, Done, Reading, TurnsInv, Shape, SparedInv, OneStack, Removals,
         NoOp, Idle, NoSnap, In, At, Asks, Store
  <1>6. ASSUME NEW o \in Ops, NEW s \in Stacks, Fails(o, s) PROVE ShownInv'
    BY <1>6 DEF Fails, Done, Reading, TurnsInv, Shape, SparedInv, OneStack, Removals,
         NoOp, Idle, NoSnap, In, At, Asks, Store
  <1>7. ASSUME NEW o \in Ops, NEW s \in Stacks, Down(o, s) PROVE ShownInv'
    BY <1>7 DEF Down, Done, Reading, TurnsInv, Shape, SparedInv, OneStack, Removals,
         NoOp, Idle, NoSnap, In, At, Asks, Store
  <1>8. ASSUME NEW o \in Ops, NEW s \in Stacks, NEW says \in {"silent", "names", "unreadable"}, Edit(o, s, says)
        PROVE  ShownInv'
    BY <1>8 DEF Edit, Done, Reading, TurnsInv, Shape, SparedInv, OneStack, Removals,
         NoOp, Idle, NoSnap, In, At, Asks, Store
  <1>9. ASSUME NEW o \in Ops, NEW s \in Stacks, RemoveOne(o, s)
        PROVE  ShownInv'
    BY <1>9 DEF RemoveOne, Reading, TurnsInv, Shape, SparedInv, OneStack, Removals, NoOp,
         Idle, NoSnap, In, At, Asks, Store
  <1>10. ASSUME NEW s \in Stacks, Exit(s) PROVE ShownInv'
    BY <1>10 DEF Exit, Reading, TurnsInv, Shape, SparedInv, OneStack, Removals, NoOp,
         Idle, NoSnap, In, At, Asks, Store
  <1>11. ASSUME NEW o \in Ops, Serve(o) PROVE ShownInv'
    <2>1. UNCHANGED <<answered, fetch, snap>>
      BY <1>11 DEF Serve, Reading
    <2>2. Took(o, snap.cand)
      BY <1>11, Taken DEF Serve
    <2>3. \A p \in Ops : op'[p].kind = "summary" => op'[p] = op[p]
      BY <2>2, TookOwed
    <2> QED
      BY <2>1, <2>3
  <1>12. ASSUME NEW o \in Ops, ReadNames(o) PROVE ShownInv'
    BY <1>12 DEF ReadNames, TurnsInv, Shape, SparedInv, OneStack, Removals, NoOp, Idle,
         NoSnap, In, At, Asks, Store
  <1>13. ASSUME NEW o \in Ops, ReadDisk(o) PROVE ShownInv'
    BY <1>13 DEF ReadDisk, TurnsInv, Shape, SparedInv, OneStack, Removals, NoOp, Idle,
         NoSnap, In, At, Asks, Store
  <1>14. ASSUME NEW o \in Ops, EndFetch(o) PROVE ShownInv'
    <2>1. /\ fetch.by = o /\ fetch.step = "disk" /\ fetch' = Idle /\ UNCHANGED answered
          /\ \/ UNCHANGED snap
             \/ fetch.current /\ snap' = [valid |-> TRUE, shown |-> fetch.shown, cand |-> fetch.cand]
      BY <1>14 DEF EndFetch, Store
    <2>2. Took(o, fetch.cand)
      BY <1>14, Taken DEF EndFetch, SparedInv
    <2>3. \A p \in Ops : op'[p].kind = "summary" => op'[p] = op[p]
      BY <2>2, TookOwed
    <2>4. fetch'.step = "none"
      BY <2>1 DEF Idle
    <2> QED
      BY <2>1, <2>3, <2>4
  <1>15. ASSUME NEW o \in Ops, FetchFails(o) PROVE ShownInv'
    BY <1>15 DEF FetchFails, Done, Go, TurnsInv, Shape, SparedInv, OneStack, Removals,
         NoOp, Idle, NoSnap, In, At, Asks, Store
  <1>16. ASSUME NEW o \in Ops, Look(o) PROVE ShownInv'
    BY <1>16 DEF Look, Reading, TurnsInv, Shape, SparedInv, OneStack, Removals, NoOp,
         Idle, NoSnap, In, At, Asks, Store
  <1>17. ASSUME NEW o \in Ops, NEW kind \in {"prune", "pruneContainers", "free"}, NEW req \in SUBSET Stacks, BeginRemoval(o, kind, req)
        PROVE  ShownInv'
    BY <1>17 DEF BeginRemoval, RemovalTurn, Free, Reading, TurnsInv, Shape, SparedInv,
         OneStack, Removals, NoOp, Idle, NoSnap, In, At, Asks, Store
  <1>18. ASSUME NEW o \in Ops, NEW gone \in SUBSET objects, Prune(o, gone)
        PROVE  ShownInv'
    BY <1>18 DEF Prune, Reading, TurnsInv, Shape, SparedInv, OneStack, Removals, NoOp,
         Idle, NoSnap, In, At, Asks, Store
  <1>19. ASSUME NEW o \in Ops, PruneContainers(o) PROVE ShownInv'
    BY <1>19 DEF PruneContainers, Go, Reading, TurnsInv, Shape, SparedInv, OneStack,
         Removals, NoOp, Idle, NoSnap, In, At, Asks, Store
  <1>20. ASSUME NEW o \in Ops, NEW host \in BOOLEAN, BeginRun(o, host)
        PROVE  ShownInv'
    <2>1. UNCHANGED <<answered, fetch, snap>>
      BY <1>20 DEF BeginRun, Reading
    <2>2. \A p \in Ops : op'[p].kind = "summary" => op'[p] = op[p]
      BY <1>20, RunMoves
    <2> QED
      BY <2>1, <2>2
  <1>21. ASSUME NEW o \in Ops, EndRemoval(o) PROVE ShownInv'
    BY <1>21 DEF EndRemoval, Invalidate, Done, TurnsInv, Shape, SparedInv, OneStack,
         Removals, NoOp, Idle, NoSnap, In, At, Asks, Store
  <1>22. CASE UNCHANGED vars
    BY <1>22 DEF vars, Reading, TurnsInv, Shape, SparedInv, OneStack, Removals, NoOp,
         Idle, NoSnap, In, At, Asks, Store
  <1> HIDE DEF TypeOK, ShownInv
  <1> QED
    BY <1>1, <1>2, <1>3, <1>4, <1>5, <1>6, <1>7, <1>8, <1>9, <1>10, <1>11,
       <1>12, <1>13, <1>14, <1>15, <1>16, <1>17, <1>18, <1>19, <1>20, <1>21,
       <1>22 DEF Next

(* The operations that are not there have nothing.                         *)
LEMMA AtStart == Init => HostIInv
  <1> SUFFICES ASSUME Init PROVE HostIInv
    OBVIOUS
  <1> USE HostAssumption DEF Init
  <1>1. TypeOK
    BY DEF TypeOK, NoOp, Idle, NoSnap, OneStack, Removals
  <1>2. TurnsInv
    BY DEF TurnsInv, TurnsApart, Shape, NoOp, OneStack
  <1>3. MadeInTurnStays /\ RunsInv
    BY DEF MadeInTurnStays, RunsInv, NoOp
  <1>4. SparedInv /\ ShownInv
    BY DEF SparedInv, ShownInv, NoOp, Idle, NoSnap, At
  <1> QED
    BY <1>1, <1>2, <1>3, <1>4 DEF HostIInv

(* The inductive invariant holds in every reachable state.                 *)
LEMMA HostAlways == Spec => []HostIInv
  <1>1. HostIInv /\ [Next]_vars => HostIInv'
    BY TypeStep, TurnsStep, MadeStep, RunsStep, SparedStep, ShownStep DEF HostIInv
  <1> QED
    BY <1>1, AtStart, PTL DEF Spec

(* An up finds what it pulled, no removal takes it from under it, and one  *)
(* cleanup run goes at a time, for as long as the guard is held.           *)
THEOREM HostSafe == Spec => []HostInv
  <1>1. HostIInv => HostInv
    <2> DEFINE Runs == {o \in Ops : op[o].kind = "run"}
    <2> SUFFICES ASSUME HostIInv PROVE Cardinality(Runs) <= 1 /\ running = (Runs # {})
      BY DEF HostIInv, HostInv, OneRunAtATime
    <2>1. CASE Runs = {}
      <3>1. Cardinality(Runs) = 0
        BY <2>1, FS_EmptySet
      <3>2. running = FALSE
        BY <2>1 DEF HostIInv, TypeOK, RunsInv
      <3>3. Cardinality(Runs) <= 1
        BY <3>1
      <3>4. running = (Runs # {})
        BY <2>1, <3>2, Zenon
      <3> QED
        BY <3>3, <3>4, Zenon
    <2>2. CASE Runs # {}
      <3>1. PICK o \in Runs : TRUE
        BY <2>2
      <3>2. Runs = {o}
        BY <3>1 DEF HostIInv, RunsInv
      <3>3. Cardinality(Runs) = 1
        BY <3>2, FS_Singleton
      <3>4. running = TRUE
        BY <3>1 DEF HostIInv, TypeOK, RunsInv
      <3>5. Cardinality(Runs) <= 1
        BY <3>3
      <3>6. running = (Runs # {})
        BY <2>2, <3>4, Zenon
      <3> QED
        BY <3>5, <3>6, Zenon
    <2> QED
      BY <2>1, <2>2
  <1> QED
    BY <1>1, HostAlways, PTL

(* What a cleanup takes by name is named by no compose file then, and no   *)
(* file is unreadable then.                                                *)
THEOREM NamedStays == Spec => RemovesOnlyWhatNobodyNames
  <1> DEFINE Unnamed == \A s \in objects \ objects' : Removing(s) => s \notin Spared
  <1>1. HostIInv => Unnamed
    BY DEF HostIInv, SparedInv, Removing
  <1> QED
    BY <1>1, HostAlways, PTL DEF Spec, RemovesOnlyWhatNobodyNames

(* A summary asked for after a removal was answered does not show what was *)
(* removed: what is kept or under way is dropped before the answer.        *)
THEOREM SummaryIsTrue == Spec => SummaryShowsTheRemoval
  <1> DEFINE Told == \A o \in Ops : op[o].kind = "summary" =>
                       /\ Serve(o) => snap.shown \cap op[o].owed = {}
                       /\ EndFetch(o) => fetch.shown \cap op[o].owed = {}
  <1>1. HostIInv => Told
    BY DEF HostIInv, ShownInv, Serve, EndFetch
  <1> QED
    BY <1>1, HostAlways, PTL DEF Spec, SummaryShowsTheRemoval
=============================================================================
