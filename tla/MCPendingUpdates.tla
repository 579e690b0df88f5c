-------------------------- MODULE MCPendingUpdates --------------------------
(* Instances of PendingUpdates for TLC. *)
EXTENDS PendingUpdates

\* A short day whose only hours are 0 and 1, and one window for operators.
NightWindow == {<<0, 1>>}

\* Version 2 is published for automatic rollout, or as a staging build.
TwoReleases == {[version |-> 2, auto |-> TRUE,  shaOk |-> TRUE],
                [version |-> 2, auto |-> FALSE, shaOk |-> TRUE]}
=============================================================================
