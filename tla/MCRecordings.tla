----------------------------- MODULE MCRecordings -----------------------------
(* Three utterances in a log of two rows, one shadow service, an unknown    *)
(* voice that may be assigned once, or twice in one call.                   *)
EXTENDS Recordings

MCBatches == {<<1>>, <<1, 1>>}
=============================================================================
