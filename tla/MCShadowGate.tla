---------------------------- MODULE MCShadowGate ----------------------------
(* Two connections, three shadow runs of at most two services each: mains   *)
(* that overlap, a run queued behind the one that waits for quiet, and a    *)
(* main that starts while a woken run has not resumed.                      *)
EXTENDS ShadowGate
=============================================================================
