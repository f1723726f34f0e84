----------------------------- MODULE MCSessions -----------------------------
(* Sessions for TLC: two sessions and two sockets: both metered, or one    *)
(* not; two of one manager, or one with a shell.                           *)
EXTENDS Sessions, TLC

CONSTANTS k1, k2, s1, s2

MCKinds == (k1 :> {"backup", "terminal"}) @@ (k2 :> {"terminal"})
MCRequests == {<<s1, "password">>, <<s1, "logout">>}

=============================================================================
