--------------------------- MODULE MCOperationLock ---------------------------
(* OperationLock on three operations and two stacks: the smallest instance *)
(* where two operations lock the same two stacks in opposite orders while  *)
(* a third asks for the exclusive turn.                                    *)
EXTENDS OperationLock

MCStacks == {"web", "db"}
MCOps == {"deploy", "pull", "prune"}

=============================================================================
