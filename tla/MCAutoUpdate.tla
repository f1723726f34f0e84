---------------------------- MODULE MCAutoUpdate ----------------------------
(* AutoUpdate for TLC: two services of one stack, policies on the stack    *)
(* and on one of its containers, two passes and one edit.                  *)
EXTENDS AutoUpdate, TLC

CONSTANTS s1, s2, stack

MCOneStack == [s \in Services |-> stack]
MCTargets == {stack, <<s1, 1>>}

PassSymmetry == Permutations(Passes)

(* Bound: an overlap of two passes, and a policy on the container, are     *)
(* explored with the first service listed or worked on and without an      *)
(* edit; a pass on its own under the policy of the stack has both services *)
(* and the edit.                                                           *)
Listed == {s \in Services :
             cache[s] # None \/ \E k \in Passes : todo[k][s] # None \/ (cur[k] # None /\ cur[k].s = s)}
Overlap == \A k \in Passes : at[k] # "idle"
Override == policy[<<s1, 1>>] # None \/ (edit # None /\ edit.t = <<s1, 1>>)
Crowded ==
  \/ Overlap /\ Override
  \/ (Overlap \/ Override) /\ (edits > 0 \/ s2 \in Listed)
Uncrowded == ~Crowded
=============================================================================
