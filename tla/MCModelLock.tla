----------------------------- MODULE MCModelLock -----------------------------
(* Two cancellable probes, one verification and one scoring request: a      *)
(* cancelled probe's thread can overlap with each of the other three.       *)
EXTENDS ModelLock
=============================================================================
