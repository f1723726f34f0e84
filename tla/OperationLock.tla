---------------------------- MODULE OperationLock ----------------------------
(***************************************************************************)
(* services.OperationLock: the in-memory try-lock every stack operation    *)
(* takes, and the three ways the program uses it.                          *)
(*                                                                         *)
(*   - a handler or a backup takes one stack (Acquire);                    *)
(*   - a git pull, commit or push takes every stack of a repository, one   *)
(*     Acquire after the other, and gives back what it has on a refusal    *)
(*     (GitService.lockStacks);                                            *)
(*   - a prune or a host cleanup takes the exclusive turn.                 *)
(*                                                                         *)
(* The mutex of the code makes each Acquire and each Release one step, and *)
(* nothing larger: the loop of lockStacks and its release are interleaved  *)
(* with every other operation.  An operation here is one acquisition, so   *)
(* its identity stands for the random 128-bit token of the code (two       *)
(* operations never share a token).  The holder's kind and start time only *)
(* word the refusal and are left out.                                      *)
(***************************************************************************)
EXTENDS FiniteSets

CONSTANTS StackIDs, \* the lock's keys: stack IDs
          Ops,      \* operations: each asks for its turn once
          None      \* no holder

ASSUME NoneAssumption == None \notin Ops
ASSUME StacksAssumption == StackIDs # {}

VARIABLES
  locks,      \* locks[s]: the operation whose token holds s, or None
  exclusive,  \* the operation whose token holds the exclusive turn, or None
  pc,         \* where each operation is
  scope,      \* scope[op]: the stacks op still has to take (lockStacks' loop)
  taken       \* taken[op]: the stacks op's release still has to give back

lockVars == <<locks, exclusive, pc, scope, taken>>

(***************************************************************************)
(* "locking" is inside lockStacks' loop, "backout" inside its release      *)
(* after a refusal; "exclusive" works under the exclusive turn, "working"  *)
(* under stack locks; "releasing" runs the release after the work.         *)
(***************************************************************************)
Stages == {"idle", "locking", "backout", "working", "exclusive", "releasing", "done"}

LockInit ==
  /\ locks = [s \in StackIDs |-> None]
  /\ exclusive = None
  /\ pc = [op \in Ops |-> "idle"]
  /\ scope = [op \in Ops |-> {}]
  /\ taken = [op \in Ops |-> {}]

-----------------------------------------------------------------------------
(* An operation arrives for the stacks S: one stack, the stacks of a       *)
(* repository, or none (a repository with no registered stack).            *)
Request(op, S) ==
  /\ pc[op] = "idle"
  /\ pc' = [pc EXCEPT ![op] = "locking"]
  /\ scope' = [scope EXCEPT ![op] = S]
  /\ UNCHANGED <<locks, exclusive, taken>>

(* MUTANT: the stack's holder is checked and the exclusive turn forgotten. *)
MayAcquireDuringPrune(s) == locks[s] = None

(* Acquire refuses on the exclusive turn and on the stack's own holder.    *)
MayAcquire(s) == exclusive = None /\ locks[s] = None

Acquire(op, s) ==
  /\ pc[op] = "locking"
  /\ s \in scope[op]
  /\ MayAcquire(s)
  /\ locks' = [locks EXCEPT ![s] = op]
  /\ taken' = [taken EXCEPT ![op] = @ \cup {s}]
  /\ scope' = [scope EXCEPT ![op] = @ \ {s}]
  /\ UNCHANGED <<exclusive, pc>>

(* MUTANT: a refused Acquire is retried until the stack is free.           *)
RefuseRetrying(op, s) ==
  /\ pc[op] = "locking" /\ s \in scope[op] /\ ~MayAcquire(s)
  /\ UNCHANGED lockVars

(* A refusal fails fast: what was taken is given back, nothing waits.      *)
Refuse(op, s) ==
  /\ pc[op] = "locking"
  /\ s \in scope[op]
  /\ ~MayAcquire(s)
  /\ pc' = [pc EXCEPT ![op] = "backout"]
  /\ UNCHANGED <<locks, exclusive, scope, taken>>

AllTaken(op) ==
  /\ pc[op] = "locking"
  /\ scope[op] = {}
  /\ pc' = [pc EXCEPT ![op] = "working"]
  /\ UNCHANGED <<locks, exclusive, scope, taken>>

(* MUTANT: only another exclusive holder refuses the exclusive turn.       *)
MayAcquireExclusiveAnyway == exclusive = None

MayAcquireExclusive == exclusive = None /\ \A s \in StackIDs : locks[s] = None

AcquireExclusive(op) ==
  /\ pc[op] = "idle"
  /\ \/ /\ MayAcquireExclusive
        /\ exclusive' = op
        /\ pc' = [pc EXCEPT ![op] = "exclusive"]
     \/ /\ ~MayAcquireExclusive
        /\ exclusive' = exclusive
        /\ pc' = [pc EXCEPT ![op] = "done"]
  /\ UNCHANGED <<locks, scope, taken>>

(* The work ends (or panics: the release is deferred).                     *)
Finish(op) ==
  /\ pc[op] \in {"working", "exclusive"}
  /\ pc' = [pc EXCEPT ![op] = "releasing"]
  /\ UNCHANGED <<locks, exclusive, scope, taken>>

(* MUTANT: Release trusts its caller and does not compare tokens.          *)
AfterAnyRelease(op, s) == [locks EXCEPT ![s] = None]

(* The lock tables after Release(s, token) and ReleaseExclusive(token): a  *)
(* token that is not the holder's is stale and changes nothing.            *)
AfterRelease(op, s) == IF locks[s] = op THEN [locks EXCEPT ![s] = None] ELSE locks
AfterReleaseExclusive(op) == IF exclusive = op THEN None ELSE exclusive

Release(op, s) ==
  /\ pc[op] \in {"backout", "releasing"}
  /\ s \in taken[op]
  /\ locks' = AfterRelease(op, s)
  /\ taken' = [taken EXCEPT ![op] = @ \ {s}]
  /\ UNCHANGED <<exclusive, pc, scope>>

ReleaseExclusive(op) ==
  /\ pc[op] = "releasing"
  /\ exclusive = op
  /\ exclusive' = AfterReleaseExclusive(op)
  /\ UNCHANGED <<locks, pc, scope, taken>>

Done(op) ==
  /\ pc[op] \in {"backout", "releasing"}
  /\ taken[op] = {} /\ exclusive # op
  /\ pc' = [pc EXCEPT ![op] = "done"]
  /\ UNCHANGED <<locks, exclusive, scope, taken>>

(* A finished operation releases again with the token it once had: the     *)
(* deferred safety net running after the explicit release.                 *)
LateRelease(op) ==
  /\ pc[op] = "done"
  /\ \/ \E s \in StackIDs : locks' = AfterRelease(op, s) /\ UNCHANGED exclusive
     \/ exclusive' = AfterReleaseExclusive(op) /\ UNCHANGED locks
  /\ UNCHANGED <<pc, scope, taken>>

-----------------------------------------------------------------------------
OpStep(op) ==
  \/ \E s \in StackIDs : Acquire(op, s) \/ Refuse(op, s) \/ Release(op, s)
  \/ AllTaken(op) \/ Finish(op) \/ ReleaseExclusive(op) \/ Done(op)

LockNext ==
  \E op \in Ops :
    \/ \E S \in SUBSET StackIDs : Request(op, S)
    \/ AcquireExclusive(op)
    \/ OpStep(op)
    \/ LateRelease(op)

LockSpec == LockInit /\ [][LockNext]_lockVars

(* An operation that has asked runs on: a lock call never blocks, and the  *)
(* work is bounded by its own deadline (CAPSTAN_COMPOSE_TIMEOUT).          *)
FairLockSpec == LockSpec /\ \A op \in Ops : WF_lockVars(OpStep(op))

-----------------------------------------------------------------------------
LockTypeOK ==
  /\ locks \in [StackIDs -> Ops \cup {None}]
  /\ exclusive \in Ops \cup {None}
  /\ pc \in [Ops -> Stages]
  /\ scope \in [Ops -> SUBSET StackIDs]
  /\ taken \in [Ops -> SUBSET StackIDs]

(* The stacks an operation is working on: the exclusive turn covers all.   *)
Turn(op) ==
  IF pc[op] = "exclusive" THEN StackIDs
  ELSE IF pc[op] = "working" THEN taken[op] ELSE {}

(* Two operations that share a stack never work at the same time, and the  *)
(* exclusive turn shares every stack: what the 409 of the handlers is for. *)
MutualExclusion ==
  \A a, b \in Ops : a # b => Turn(a) \cap Turn(b) = {}

(* The lock table is exactly what the operations still have to give back:  *)
(* no stack is held by a token nobody will release, and none that an       *)
(* operation counts on has been freed under it by a stale release.         *)
LocksAreOwned ==
  /\ \A op \in Ops : \A s \in StackIDs : locks[s] = op <=> s \in taken[op]
  /\ \A op \in Ops : pc[op] = "exclusive" => exclusive = op
  /\ exclusive # None => pc[exclusive] \in {"exclusive", "releasing"}
  /\ \A op \in Ops : pc[op] \in {"idle", "done"} => taken[op] = {}

(* The exclusive turn and a stack lock are never held together.            *)
ExclusiveIsAlone ==
  exclusive # None => \A s \in StackIDs : locks[s] = None

(* The inductive invariant: each part leans on the others.                 *)
LockInv == LockTypeOK /\ LocksAreOwned /\ ExclusiveIsAlone

(* A step that frees a stack is a step of the operation that held it.      *)
OnlyTheHolderReleases ==
  [][\A s \in StackIDs :
       locks[s] # None /\ locks'[s] # locks[s]
         => locks'[s] = None /\ pc[locks[s]] \in {"backout", "releasing"}]_lockVars

(* Acquire never waits, so an operation that asks for several stacks, in   *)
(* whatever order, works or gives up, and has given all of them back at    *)
(* its end: nothing stays held to refuse those who come later.             *)
EveryRequestEnds ==
  \A op \in Ops :
    pc[op] = "locking" ~> pc[op] = "done" /\ \A s \in StackIDs : locks[s] # op

(* The lock implements the turns it promises.                              *)
Turns == INSTANCE StackTurns WITH Stacks <- StackIDs, turn <- [op \in Ops |-> Turn(op)]
TurnsSpec == Turns!Spec

=============================================================================
