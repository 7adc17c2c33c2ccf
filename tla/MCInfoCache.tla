----------------------------- MODULE MCInfoCache -----------------------------
(* Three Describe requests, the start-up task and two upstream addresses.   *)
EXTENDS InfoCache
=============================================================================
