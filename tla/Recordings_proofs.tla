--------------------------- MODULE Recordings_proofs ---------------------------
(***************************************************************************)
(* Proofs about the recognition log and the postbox, for any number of     *)
(* utterances, services and samples and any limits.  A sample says that it *)
(* is assigned only after its enrolment, and between the two the call has  *)
(* it at the head of what it has left: that is the strengthening.          *)
(***************************************************************************)
EXTENDS Recordings, SequenceTheorems, TLAPS

USE DEF vars, logVars, postboxVars

-----------------------------------------------------------------------------
(* What TypeOK leaves open: what a thread has still to write, and what an   *)
(* assign call has left.                                                    *)

AudioJob == [event : Events, write : {"audio"}, left : Seq(Kinds) \ {<<>>}]
ShadowJob == [event : Events, write : {"shadow"}, service : Services]
Call == {Idle} \union
        [at : {"read", "enrol", "tag"}, left : Seq(Voices) \ {<<>>}]

Sound ==
  /\ log \subseteq Events /\ nextEvent \in 1 .. MaxEvent + 1
  /\ shadows \subseteq Reading /\ audio \subseteq Clip
  /\ writing \subseteq AudioJob \union ShadowJob
  /\ postbox \in [Voices -> {NoVoice} \union
                    [age : {"fresh", "expired"}, tag : {"untagged", "assigned", "other"}]]
  /\ nextVoice \in 1 .. MaxVoice + 1
  /\ assigning \in Call
  /\ enrolled \subseteq Voices

LEMMA SoundIsTyped == Sound => TypeOK
BY DEF Sound, TypeOK, AudioJob, ShadowJob, Call, Idle

\* A call with something left: its next sample, and what follows.
LEMMA NextSample ==
  ASSUME Sound, assigning.at \in {"read", "enrol", "tag"}
  PROVE  /\ assigning \in [at : {"read", "enrol", "tag"}, left : Seq(Voices) \ {<<>>}]
         /\ Head(assigning.left) \in Voices
         /\ After(assigning.left) \in Call
         /\ After(assigning.left).at # "tag"
<1>1. assigning \in [at : {"read", "enrol", "tag"}, left : Seq(Voices) \ {<<>>}]
  BY DEF Sound, Call, Idle
<1>2. assigning.left \in Seq(Voices) /\ assigning.left # <<>>
  BY <1>1
<1>3. Head(assigning.left) \in Voices /\ Tail(assigning.left) \in Seq(Voices)
  BY <1>2, HeadTailProperties
<1>. QED
  BY <1>1, <1>3 DEF After, Call, Idle

LEMMA SoundInit == Init => Sound
<1> SUFFICES ASSUME Init PROVE Sound
  OBVIOUS
<1>1. 1 \in 1 .. MaxEvent + 1 /\ 1 \in 1 .. MaxVoice + 1
  BY RecordingsAssumption
<1>. QED
  BY <1>1 DEF Init, Sound, Call

LEMMA RecordSound ==
  ASSUME Sound, NEW kinds \in Copies, NEW asked \in SUBSET Services, record(kinds, asked)
  PROVE  Sound'
<1>1. nextEvent \in Events /\ nextEvent + 1 \in 1 .. MaxEvent + 1
  BY RecordingsAssumption DEF record, Events
<1>2. log' \subseteq Events
  BY <1>1 DEF record, Newest, Sound
<1>3. shadows' \subseteq Reading /\ audio' \subseteq Clip
  BY DEF record, Sound
<1>4. kinds # <<>> => kinds \in Seq(Kinds) \ {<<>>}
  <2>1. <<"mic">> \in Seq(Kinds) /\ <<"mic", "upload">> \in Seq(Kinds)
    BY DEF Kinds
  <2>2. kinds \in {<<>>, <<"mic">>, <<"mic", "upload">>}
    BY DEF Copies
  <2>. QED
    BY <2>1, <2>2
<1>5. writing' \subseteq AudioJob \union ShadowJob
  <2>1. kinds # <<>> =>
          [event |-> nextEvent, write |-> "audio", left |-> kinds] \in AudioJob
    BY <1>1, <1>4 DEF AudioJob
  <2>2. \A s \in asked :
          [event |-> nextEvent, write |-> "shadow", service |-> s] \in ShadowJob
    BY <1>1 DEF ShadowJob
  <2>. QED
    BY <2>1, <2>2 DEF record, Sound
<1>. QED
  BY <1>1, <1>2, <1>3, <1>5 DEF record, Sound

LEMMA WriteSound ==
  ASSUME Sound, NEW t \in writing, store_audio(t) \/ add_shadow_result(t)
  PROVE  Sound'
<1>1. CASE store_audio(t)
  <2>1. t \in AudioJob
    BY <1>1 DEF store_audio, Sound, AudioJob, ShadowJob
  <2>2. /\ t.left \in Seq(Kinds) /\ t.left # <<>> /\ t.event \in Events
    BY <2>1 DEF AudioJob
  <2>3. Head(t.left) \in Kinds /\ Tail(t.left) \in Seq(Kinds)
    BY <2>2, HeadTailProperties
  <2>4. audio' \subseteq Clip
    BY <1>1, <2>2, <2>3 DEF store_audio, Sound, Clip
  <2>5. Tail(t.left) # <<>> => [t EXCEPT !.left = Tail(@)] \in AudioJob
    BY <2>1, <2>3 DEF AudioJob
  <2>6. writing' \subseteq AudioJob \union ShadowJob
    BY <1>1, <2>5 DEF store_audio, Sound
  <2>. QED
    BY <1>1, <2>4, <2>6 DEF store_audio, Sound
<1>2. CASE add_shadow_result(t)
  <2>1. t \in ShadowJob
    BY <1>2 DEF add_shadow_result, Sound, AudioJob, ShadowJob
  <2>2. shadows' \subseteq Reading
    BY <1>2, <2>1 DEF add_shadow_result, Sound, ShadowJob, Reading
  <2>. QED
    BY <1>2, <2>2 DEF add_shadow_result, Sound
<1>. QED
  BY <1>1, <1>2

LEMMA PostboxSound ==
  ASSUME Sound,
         capture \/ cleanup_expired
           \/ \E v \in Voices : Age(v) \/ tag_unknown(v) \/ delete_unknown(v)
  PROVE  Sound'
<1>1. CASE capture
  <2>1. nextVoice + 1 \in 1 .. MaxVoice + 1
    BY <1>1, RecordingsAssumption DEF capture, Voices
  <2>. QED
    BY <1>1, <2>1 DEF capture, Captured, Sound
<1>2. CASE cleanup_expired
  BY <1>2 DEF cleanup_expired, Sound
<1>3. CASE \E v \in Voices : Age(v) \/ tag_unknown(v) \/ delete_unknown(v)
  BY <1>3 DEF Age, tag_unknown, delete_unknown, Sound
<1>. QED
  BY <1>1, <1>2, <1>3

LEMMA AssignSound ==
  ASSUME Sound, Assign \/ (\E batch \in Batches : assign_unknown(batch))
  PROVE  Sound'
<1>1. CASE \E batch \in Batches : assign_unknown(batch)
  BY <1>1, RecordingsAssumption DEF assign_unknown, Sound, Call
<1>2. CASE AssignRead
  <2>1. assigning.at = "read"
    BY <1>2 DEF AssignRead
  <2>2. assigning' \in Call
    BY <1>2, <2>1, NextSample DEF AssignRead, Call
  <2>. QED
    BY <1>2, <2>2 DEF AssignRead, Sound
<1>3. CASE AssignEnrol
  <2>1. assigning.at = "enrol"
    BY <1>3 DEF AssignEnrol
  <2>2. assigning' \in Call /\ enrolled' \subseteq Voices
    BY <1>3, <2>1, NextSample DEF AssignEnrol, Call, Sound
  <2>. QED
    BY <1>3, <2>2 DEF AssignEnrol, Sound
<1>4. CASE AssignTag
  <2>1. assigning.at = "tag"
    BY <1>4 DEF AssignTag
  <2>2. assigning' \in Call
    BY <1>4, <2>1, NextSample DEF AssignTag
  <2>3. postbox' \in [Voices -> {NoVoice} \union
          [age : {"fresh", "expired"}, tag : {"untagged", "assigned", "other"}]]
    BY <1>4, <2>1, NextSample DEF AssignTag, Sound
  <2>. QED
    BY <1>4, <2>2, <2>3 DEF AssignTag, Sound
<1>. QED
  BY <1>1, <1>2, <1>3, <1>4 DEF Assign

LEMMA SoundNext == Sound /\ [Next]_vars => Sound'
<1> SUFFICES ASSUME Sound, [Next]_vars PROVE Sound'
  OBVIOUS
<1>1. CASE \E kinds \in Copies, asked \in SUBSET Services : record(kinds, asked)
  BY <1>1, RecordSound
<1>2. CASE \E t \in writing : store_audio(t) \/ add_shadow_result(t)
  BY <1>2, WriteSound
<1>3. CASE clear
  BY <1>3 DEF clear, Sound
<1>4. CASE capture \/ cleanup_expired
             \/ \E v \in Voices : Age(v) \/ tag_unknown(v) \/ delete_unknown(v)
  BY <1>4, PostboxSound
<1>5. CASE Assign \/ \E batch \in Batches : assign_unknown(batch)
  BY <1>5, AssignSound
<1>6. CASE Crash
  BY <1>6 DEF Crash, Sound, Call
<1>7. CASE UNCHANGED vars
  BY <1>7 DEF Sound
<1>. QED
  BY <1>1, <1>2, <1>3, <1>4, <1>5, <1>6, <1>7 DEF Next

LEMMA SpecSound == Spec => []Sound
BY SoundInit, SoundNext, PTL DEF Spec

\* Type correctness of both stores, whatever threads and calls are cut short.
THEOREM TypeCorrect == Spec => []TypeOK
BY SpecSound, SoundIsTyped, PTL

-----------------------------------------------------------------------------
(* The recognition log.                                                    *)

\* A shadow's reading, however late, never outlives or revives its event: what
\* add_shadow_result reads and writes under the lock, record and clear keep.
THEOREM ShadowsKeepTheirEvent == Spec => []ShadowsHaveTheirEvent
<1>1. Init => ShadowsHaveTheirEvent
  BY DEF Init, ShadowsHaveTheirEvent
<1>2. ShadowsHaveTheirEvent /\ [Next]_vars => ShadowsHaveTheirEvent'
  <2> SUFFICES ASSUME ShadowsHaveTheirEvent, [Next]_vars
               PROVE  ShadowsHaveTheirEvent'
    OBVIOUS
  <2>1. CASE \E kinds \in Copies, asked \in SUBSET Services : record(kinds, asked)
    BY <2>1 DEF record, ShadowsHaveTheirEvent
  <2>2. CASE \E t \in writing : store_audio(t)
    BY <2>2 DEF store_audio, ShadowsHaveTheirEvent
  <2>3. CASE \E t \in writing : add_shadow_result(t)
    BY <2>3 DEF add_shadow_result, ShadowsHaveTheirEvent
  <2>4. CASE clear
    BY <2>4 DEF clear, ShadowsHaveTheirEvent
  <2>5. CASE UNCHANGED <<log, shadows>>
    BY <2>5 DEF ShadowsHaveTheirEvent
  <2>6. ASSUME capture \/ cleanup_expired \/ Assign \/ Crash
                 \/ (\E v \in Voices : Age(v) \/ tag_unknown(v) \/ delete_unknown(v))
                 \/ (\E batch \in Batches : assign_unknown(batch))
        PROVE  UNCHANGED <<log, shadows>>
    BY <2>6 DEF capture, cleanup_expired, Assign, AssignRead, AssignEnrol, AssignTag,
                Crash, Age, tag_unknown, delete_unknown, assign_unknown
  <2>. QED
    BY <2>1, <2>2, <2>3, <2>4, <2>5, <2>6 DEF Next
<1>. QED
  BY <1>1, <1>2, PTL DEF Spec

-----------------------------------------------------------------------------
(* The postbox.                                                            *)

\* What the call tags next is enrolled.
TagsWhatIsEnrolled == assigning.at = "tag" => Head(assigning.left) \in enrolled

\* A sample that says it is assigned is enrolled, also after a crash between
\* the two or an enrolment that was refused.
THEOREM AssignedStaysEnrolled == Spec => []AssignedIsEnrolled
<1> DEFINE Kept == AssignedIsEnrolled /\ TagsWhatIsEnrolled
<1>1. Init => Kept
  BY DEF Init, AssignedIsEnrolled, TagsWhatIsEnrolled, Idle
<1>2. Sound /\ Kept /\ [Next]_vars => Kept'
  <2> SUFFICES ASSUME Sound, Kept, [Next]_vars PROVE Kept'
    OBVIOUS
  <2>1. CASE capture
    BY <2>1 DEF capture, Captured, Sound, AssignedIsEnrolled, TagsWhatIsEnrolled
  <2>2. CASE cleanup_expired
    BY <2>2 DEF cleanup_expired, AssignedIsEnrolled, TagsWhatIsEnrolled
  <2>3. CASE \E v \in Voices : Age(v) \/ tag_unknown(v) \/ delete_unknown(v)
    BY <2>3 DEF Age, tag_unknown, delete_unknown, Sound, AssignedIsEnrolled,
                TagsWhatIsEnrolled
  <2>4. CASE \E batch \in Batches : assign_unknown(batch)
    BY <2>4 DEF assign_unknown, AssignedIsEnrolled, TagsWhatIsEnrolled
  <2>5. CASE AssignRead
    BY <2>5, NextSample DEF AssignRead, AssignedIsEnrolled, TagsWhatIsEnrolled
  <2>6. CASE AssignEnrol
    <3>1. assigning.at = "enrol"
      BY <2>6 DEF AssignEnrol
    <3>. QED
      BY <2>6, <3>1, NextSample DEF AssignEnrol, AssignedIsEnrolled, TagsWhatIsEnrolled
  <2>7. CASE AssignTag
    <3>1. assigning.at = "tag"
      BY <2>7 DEF AssignTag
    <3>. QED
      BY <2>7, <3>1, NextSample DEF AssignTag, Sound, AssignedIsEnrolled,
         TagsWhatIsEnrolled
  <2>8. CASE UNCHANGED postboxVars
    BY <2>8 DEF AssignedIsEnrolled, TagsWhatIsEnrolled
  <2>9. CASE Crash
    BY <2>9 DEF Crash, Idle, AssignedIsEnrolled, TagsWhatIsEnrolled
  <2>10. ASSUME clear \/ (\E t \in writing : store_audio(t) \/ add_shadow_result(t))
                  \/ (\E kinds \in Copies, asked \in SUBSET Services : record(kinds, asked))
         PROVE  UNCHANGED postboxVars
    BY <2>10 DEF clear, store_audio, add_shadow_result, record
  <2>. QED
    BY <2>1, <2>2, <2>3, <2>4, <2>5, <2>6, <2>7, <2>8, <2>9, <2>10 DEF Next, Assign
<1>. QED
  BY <1>1, <1>2, SpecSound, PTL DEF Spec
=============================================================================
