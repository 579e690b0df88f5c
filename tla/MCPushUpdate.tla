---------------------------- MODULE MCPushUpdate ----------------------------
(* Instances of PushUpdate for TLC. *)
EXTENDS PushUpdate

\* A short day whose only hours are 0 and 1, and one window for operators.
NightWindow == {<<0, 1>>}

\* Version 2 is published for automatic rollout.
OneRelease == {[version |-> 2, auto |-> TRUE, shaOk |-> TRUE]}

\* Version 2 with a good or with a broken manifest.
SomeReleases == {[version |-> 2, auto |-> TRUE, shaOk |-> TRUE],
                 [version |-> 2, auto |-> TRUE, shaOk |-> FALSE]}
=============================================================================
