----------------------------- MODULE StackTurns -----------------------------
(***************************************************************************)
(* What Capstan promises about stack operations, without saying how: an    *)
(* operation works on a set of stacks (a lifecycle action on one, a git    *)
(* commit on every stack of a repository, a prune on all of them), and two *)
(* operations that share a stack never work at the same time.              *)
(***************************************************************************)
CONSTANTS Stacks, Ops

VARIABLE turn   \* turn[op]: the stacks op is working on now

Init == turn = [op \in Ops |-> {}]

Begin(op, S) ==
  /\ turn[op] = {}
  /\ \A other \in Ops : turn[other] \cap S = {}
  /\ turn' = [turn EXCEPT ![op] = S]

End(op) == turn' = [turn EXCEPT ![op] = {}]

Next == \E op \in Ops : End(op) \/ \E S \in SUBSET Stacks : Begin(op, S)

Spec == Init /\ [][Next]_turn

=============================================================================
