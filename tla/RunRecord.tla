------------------------------ MODULE RunRecord ------------------------------
(***************************************************************************)
(* What the history promises about a backup run, whatever crashes and      *)
(* panics: a run is recorded before it runs, or once and for all as one    *)
(* that did not begin; it ends in one terminal status, and a status once   *)
(* shown is never improved on: a "success" may still be taken back (the    *)
(* off-site sync after it failed, the service panicked), but no failure    *)
(* turns into a success and no ended run is shown as running again.        *)
(***************************************************************************)
CONSTANT Runs

VARIABLE status

Ended == {"success", "partial", "failed", "skipped", "interrupted"}

(* What a record may still turn into.                                      *)
Later(s) ==
  CASE s = "absent"  -> {"running", "skipped", "failed"}
    [] s = "running" -> Ended \cup {"absent"}
    [] s = "success" -> {"partial", "failed", "absent"}
    [] s = "partial" -> {"failed", "absent"}
    [] s \in {"failed", "skipped", "interrupted"} -> {"absent"}

Init == status = [r \in Runs |-> "absent"]

Change == \A r \in Runs : status'[r] = status[r] \/ status'[r] \in Later(status[r])

Spec == Init /\ [][Change]_status

=============================================================================
