---------------------------- MODULE MCDockerHost ----------------------------
(***************************************************************************)
(* TLC instance of DockerHost:  one stack with an image and one with a     *)
(* volume, two requests or passes at a time.                               *)
(***************************************************************************)
EXTENDS DockerHost, TLC

Symmetry == Permutations(Ops)

=============================================================================
