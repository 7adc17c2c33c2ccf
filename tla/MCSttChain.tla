------------------------------ MODULE MCSttChain ------------------------------
(* A remote main, a remote and a local fallback in that order, and a shadow  *)
(* that is a fallback too: every combination of what is configured, in two   *)
(* utterances whose requests overlap; a main that streams and one that does  *)
(* not.                                                                      *)
EXTENDS SttChain

CONSTANTS main, cloud, local

MCChain == <<cloud, local>>
MCShadows == <<cloud>>
MCPublic == {main, cloud}

Kind(m, c, l) == [s \in Services |-> CASE s = main -> m [] s = cloud -> c [] s = local -> l]
MCAssignments == {Kind("wyoming", "voxtral", "ha"), Kind("openai", "voxtral", "wyoming")}
=============================================================================
