----------------------------- MODULE MCRegistry -----------------------------
(* Registry for TLC: a folder d with two compose files, of which a may     *)
(* have a row under an old id a0, and a folder e in it with a third.       *)
EXTENDS Registry, TLC

CONSTANTS d, e, fa, fb, fn, a, a0, b, n

MCDirOf == (fa :> d) @@ (fb :> d) @@ (fn :> e)
MCFileOf == (a :> fa) @@ (a0 :> fa) @@ (b :> fb) @@ (n :> fn)
MCMinted == (fa :> a) @@ (fb :> b) @@ (fn :> n)
MCInside == (d :> {e}) @@ (e :> {})

=============================================================================
