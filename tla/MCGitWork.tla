----------------------------- MODULE MCGitWork -----------------------------
(* GitWork for TLC: s in the folder asked for, t in one below it; the env  *)
(* file of s is a file or a link to that of t.                             *)
EXTENDS GitWork, TLC

CONSTANTS s, t, cs, ct, es, et, a, u

MCCompose == (s :> cs) @@ (t :> ct)
MCEnv == (s :> es) @@ (t :> et)
MCEntries == (cs :> {a, u, Gone}) @@ (ct :> {a}) @@ (es :> {a, et, Gone}) @@ (et :> {a, u})

=============================================================================
