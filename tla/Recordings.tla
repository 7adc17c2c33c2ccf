------------------------------ MODULE Recordings ------------------------------
(***************************************************************************)
(* What is kept of an utterance: its row in the recognition log, the       *)
(* readings of the shadow services, its audio (core/recognition_log.py),   *)
(* and, of an unknown voice, the sample in the postbox                     *)
(* (core/unknown_store.py), which the web API assigns to a speaker         *)
(* (api/routes_unknown.py, api/routes_recognition.py).                     *)
(*                                                                         *)
(* Rows are recorded on the event loop.  Audio, shadow readings, captures  *)
(* and expiry are written by threads, in any order and at any time later:  *)
(* the row they belong to may be trimmed or cleared by then.  Each store's *)
(* operation holds the store's lock and commits before it lets go.         *)
(***************************************************************************)
EXTENDS Integers, FiniteSets, Sequences, FiniteSetsExt

CONSTANTS
  MaxEvent,    \* bounds on the ids that AUTOINCREMENT hands out
  MaxVoice,
  MaxRows,     \* max_rows of the recognition log
  Keep,        \* event_audio_keep
  NoVoice,     \* no sample under this id
  Services,    \* shadow services
  Batches      \* samples the user may assign in one call

Events == 1 .. MaxEvent
Voices == 1 .. MaxVoice
Kinds == {"mic", "upload"}

ASSUME RecordingsAssumption ==
  /\ MaxEvent \in Nat /\ MaxVoice \in Nat
  /\ MaxRows \in Nat \ {0} /\ Keep \in Nat \ {0}
  /\ Batches \subseteq Seq(Voices) \ {<<>>}   \* an empty one is refused

VARIABLES
  log,        \* table recognition_events: the ids it holds
  nextEvent,
  shadows,    \* table shadow_results
  audio,      \* table event_audio
  writing,    \* what threads have still to write, in the order they write it
  postbox,    \* table unknown_samples: each sample's age and tag, or NoVoice
  nextVoice,
  assigning,  \* the assign call on the loop: where it is, and what it has left
  enrolled    \* samples that the speaker store has got from the postbox

vars == <<log, nextEvent, shadows, audio, writing,
          postbox, nextVoice, assigning, enrolled>>
logVars == <<log, nextEvent, shadows, audio, writing>>
postboxVars == <<postbox, nextVoice, assigning, enrolled>>

Clip == [event : Events, kind : Kinds]
Reading == [event : Events, service : Services]

TypeOK ==
  /\ log \subseteq Events /\ nextEvent \in 1 .. MaxEvent + 1
  /\ shadows \subseteq Reading /\ audio \subseteq Clip
  /\ \A t \in writing : t.event \in Events
  /\ postbox \in [Voices -> {NoVoice} \union
                    [age : {"fresh", "expired"}, tag : {"untagged", "assigned", "other"}]]
  /\ nextVoice \in 1 .. MaxVoice + 1
  /\ assigning.at \in {"idle", "read", "enrol", "tag"}
  /\ enrolled \subseteq Voices

EventsOf(clips) == {c.event : c \in clips}

-----------------------------------------------------------------------------
(* The recognition log.                                                    *)

\* The newest n of a set of ids.
Newest(ids, n) == {i \in ids : Cardinality({j \in ids : j > i}) < n}

\* What threads write of the audio: nothing if it is switched off, one copy,
\* or a second one if the conditioned audio differs from the microphone's.
Copies == {<<>>, <<"mic">>, <<"mic", "upload">>}

\* record: the row, the trim, which takes what hangs on the rows it drops and
\* what had lost its row before, and one commit.  The handler then has threads
\* write the audio (one copy or two) and the shadows' readings.
record(kinds, asked) ==
  LET rows == Newest(log \union {nextEvent}, MaxRows)
  IN /\ nextEvent \in Events
     /\ log' = rows
     /\ shadows' = {r \in shadows : r.event \in rows}
     /\ audio' = {c \in audio : c.event \in rows}
     /\ writing' = writing
          \union (IF kinds = <<>> THEN {}
                  ELSE {[event |-> nextEvent, write |-> "audio", left |-> kinds]})
          \union {[event |-> nextEvent, write |-> "shadow", service |-> s] : s \in asked}
     /\ nextEvent' = nextEvent + 1
     /\ UNCHANGED postboxVars

\* The rows of the newest clips: what store_audio's LIMIT keeps.  Clips of one
\* event may come in either order.
RowsKept(clips) ==
  {c \in clips : Cardinality({d \in clips : d.event > c.event}) < Keep}

\* store_audio does not ask whether the event is still there.
store_audio(t) ==
  /\ t \in writing /\ t.write = "audio"
  /\ LET clips == audio \union {[event |-> t.event, kind |-> Head(t.left)]}
         stay == EventsOf(RowsKept(clips))
     IN audio' = {c \in clips : c.event \in stay}
  /\ writing' = (writing \ {t}) \union
       (IF Tail(t.left) = <<>> THEN {} ELSE {[t EXCEPT !.left = Tail(@)]})
  /\ UNCHANGED <<log, nextEvent, shadows>> /\ UNCHANGED postboxVars

\* A bug: it does not look.
AddShadowUnseen(t) ==
  /\ t \in writing /\ t.write = "shadow"
  /\ shadows' = shadows \union {[event |-> t.event, service |-> t.service]}
  /\ writing' = writing \ {t}
  /\ UNCHANGED <<log, nextEvent, audio>> /\ UNCHANGED postboxVars

\* add_shadow_result looks for the event first, under the lock.
add_shadow_result(t) ==
  /\ t \in writing /\ t.write = "shadow"
  /\ shadows' = IF t.event \in log
                  THEN shadows \union {[event |-> t.event, service |-> t.service]}
                  ELSE shadows
  /\ writing' = writing \ {t}
  /\ UNCHANGED <<log, nextEvent, audio>> /\ UNCHANGED postboxVars

clear ==
  /\ log # {}
  /\ log' = {} /\ shadows' = {} /\ audio' = {}
  /\ UNCHANGED <<nextEvent, writing>> /\ UNCHANGED postboxVars

-----------------------------------------------------------------------------
(* The postbox.                                                            *)

Untagged(v) == postbox[v] # NoVoice /\ postbox[v].tag = "untagged"
Idle == [at |-> "idle"]

Captured(box, v) == [box EXCEPT ![v] = [age |-> "fresh", tag |-> "untagged"]]

\* A thread captures an unknown voice, or any voice while nobody is enrolled.
capture ==
  /\ nextVoice \in Voices
  /\ postbox' = Captured(postbox, nextVoice)
  /\ nextVoice' = nextVoice + 1
  /\ UNCHANGED <<assigning, enrolled>> /\ UNCHANGED logVars

Age(v) ==
  /\ postbox[v] # NoVoice /\ postbox[v].age = "fresh"
  /\ postbox' = [postbox EXCEPT ![v].age = "expired"]
  /\ UNCHANGED <<nextVoice, assigning, enrolled>> /\ UNCHANGED logVars

\* cleanup_expired, from its loop's thread or from the web API.
Overdue(v) == Untagged(v) /\ postbox[v].age = "expired"

cleanup_expired ==
  /\ \E v \in Voices : Overdue(v)
  /\ postbox' = [v \in Voices |-> IF Overdue(v) THEN NoVoice ELSE postbox[v]]
  /\ UNCHANGED <<nextVoice, assigning, enrolled>> /\ UNCHANGED logVars

\* The user tags or deletes a sample; both wait for an assign to be over.
tag_unknown(v) ==
  /\ assigning = Idle
  /\ postbox[v] # NoVoice
  /\ postbox' = [postbox EXCEPT ![v].tag = "other"]
  /\ UNCHANGED <<nextVoice, assigning, enrolled>> /\ UNCHANGED logVars

delete_unknown(v) ==
  /\ assigning = Idle
  /\ postbox[v] # NoVoice
  /\ postbox' = [postbox EXCEPT ![v] = NoVoice]
  /\ UNCHANGED <<nextVoice, assigning, enrolled>> /\ UNCHANGED logVars

\* assign and bulk-assign: each sample is read, enrolled and tagged.  Threads
\* go on meanwhile.  Nothing asks whether a sample was assigned before.
assign_unknown(batch) ==
  /\ assigning = Idle
  /\ assigning' = [at |-> "read", left |-> batch]
  /\ UNCHANGED <<postbox, nextVoice, enrolled>> /\ UNCHANGED logVars

\* The next sample of the batch, or the end.
After(left) ==
  IF Tail(left) = <<>> THEN Idle ELSE [at |-> "read", left |-> Tail(left)]

\* A bug: the sample is tagged as soon as it is read.
AssignReadTags ==
  LET v == Head(assigning.left)
  IN /\ assigning.at = "read"
     /\ assigning' = IF postbox[v] = NoVoice THEN After(assigning.left)
                     ELSE [assigning EXCEPT !.at = "enrol"]
     /\ postbox' = IF postbox[v] = NoVoice THEN postbox
                   ELSE [postbox EXCEPT ![v].tag = "assigned"]
     /\ UNCHANGED <<nextVoice, enrolled>> /\ UNCHANGED logVars

\* A sample that is not there is skipped.
AssignRead ==
  /\ assigning.at = "read"
  /\ assigning' = IF postbox[Head(assigning.left)] = NoVoice THEN After(assigning.left)
                  ELSE [assigning EXCEPT !.at = "enrol"]
  /\ UNCHANGED <<postbox, nextVoice, enrolled>> /\ UNCHANGED logVars

\* enroll commits the sample, or it refuses it and the sample stays untagged.
AssignEnrol ==
  /\ assigning.at = "enrol"
  /\ \/ /\ enrolled' = enrolled \union {Head(assigning.left)}
        /\ assigning' = [assigning EXCEPT !.at = "tag"]
     \/ /\ assigning' = After(assigning.left)
        /\ UNCHANGED enrolled
  /\ UNCHANGED <<postbox, nextVoice>> /\ UNCHANGED logVars

\* A sample that expired meanwhile is not tagged, and nobody is told.
AssignTag ==
  LET v == Head(assigning.left)
  IN /\ assigning.at = "tag"
     /\ postbox' = IF postbox[v] = NoVoice THEN postbox
                   ELSE [postbox EXCEPT ![v].tag = "assigned"]
     /\ assigning' = After(assigning.left)
     /\ UNCHANGED <<nextVoice, enrolled>> /\ UNCHANGED logVars

-----------------------------------------------------------------------------
\* The process dies: what threads and calls had left is lost.
Crash ==
  /\ writing # {} \/ assigning # Idle
  /\ writing' = {} /\ assigning' = Idle
  /\ UNCHANGED <<log, nextEvent, shadows, audio, postbox, nextVoice, enrolled>>

Init ==
  /\ log = {} /\ nextEvent = 1
  /\ shadows = {} /\ audio = {} /\ writing = {}
  /\ postbox = [v \in Voices |-> NoVoice] /\ nextVoice = 1
  /\ assigning = Idle
  /\ enrolled = {}

Assign == AssignRead \/ AssignEnrol \/ AssignTag

Next ==
  \/ \E kinds \in Copies, asked \in SUBSET Services :
       record(kinds, asked)
  \/ \E t \in writing : store_audio(t) \/ add_shadow_result(t)
  \/ clear
  \/ capture
  \/ \E v \in Voices : Age(v) \/ tag_unknown(v) \/ delete_unknown(v)
  \/ cleanup_expired
  \/ \E batch \in Batches : assign_unknown(batch)
  \/ Assign
  \/ Crash

Spec == Init /\ [][Next]_vars

-----------------------------------------------------------------------------
(* Properties.                                                             *)

\* A shadow's late reading never outlives, or revives, the event it is of,
\* however the log was trimmed and cleared between the answer and the reading.
ShadowsHaveTheirEvent == \A r \in shadows : r.event \in log

\* A sample that says it is assigned is enrolled, also if the process died or
\* the enrolment was refused in the middle: nothing the user gave a name to is
\* hidden from the list and missing from the speaker.
AssignedIsEnrolled ==
  \A v \in Voices :
    postbox[v] # NoVoice /\ postbox[v].tag = "assigned" => v \in enrolled
=============================================================================
