----------------------------- MODULE MCTeamQuota -----------------------------
(* Model-checking instances of TeamQuota. *)
EXTENDS TeamQuota, TLC

\* Teams and workspaces are interchangeable in the safety runs.
Symmetry == Permutations(Teams) \cup Permutations(Workspaces)
=============================================================================
