----------------------------- MODULE Verification -----------------------------
(***************************************************************************)
(* Who spoke: the comparison of an utterance with the speakers'            *)
(* voiceprints (SpeakerStore.verify_embedding in core/speaker_store.py),   *)
(* the settings it depends on (core/context.py), the rooms' context that   *)
(* Home Assistant publishes (core/mqtt_integration.py), and the three      *)
(* places of a session where it is made (wyoming_murdock/handler.py): the  *)
(* early probe, which may name the speaker in advance, the reject probe,   *)
(* which may drop the utterance, and the full gate at its end.             *)
(*                                                                         *)
(* Each of them hears something else: the early probe the first seconds,   *)
(* the reject probe the audio so far, the full gate the whole, trimmed and *)
(* possibly extracted.  Their distances to the voiceprints have nothing to *)
(* do with one another as far as the code knows.  Each reads settings,     *)
(* awaits, reads others and awaits the verdict, while the user edits       *)
(* settings, media start and stop, and the satellite becomes known.        *)
(* Distances and thresholds are whole numbers of some small unit.          *)
(***************************************************************************)
EXTENDS Integers, FiniteSets

CONSTANTS
  Speakers, Nobody,
  Satellites, NoSatellite,
  AreaOf,       \* satellite -> the room it announces
  Sources,      \* media players
  SourceArea,   \* media player -> its room
  NoArea,
  Limit,        \* LIMIT of the query for candidates
  Boost,        \* tv_threshold_boost
  MaxDelta,     \* how far calibration may move a threshold
  MinAdaptive,  \* and the least it may set
  Unset,        \* a setting that was not made
  NoVoiceprint, \* stands for the distance to a voiceprint that is not there
  Utterances,   \* the distances of what is heard to the voiceprints
  StartSettings,
  Edits,        \* values the user may give to a setting
  Midpoints,    \* thresholds that the speakers' samples suggest
  MaxEdits      \* bounds the model

ASSUME VerificationAssumption ==
  /\ IsFiniteSet(Speakers) /\ Nobody \notin Speakers
  /\ NoSatellite \notin Satellites
  /\ Limit \in Nat \ {0} /\ Boost \in Nat /\ MaxDelta \in Nat /\ MinAdaptive \in Nat
  /\ Unset \notin Int /\ NoVoiceprint \in Nat

\* The routes refuse anything negative, and a reject margin of nothing.
SettingsType ==
  [threshold : Nat, satThreshold : [Satellites -> Nat \union {Unset}],
   gate : Nat, satGate : [Satellites -> Nat \union {Unset}],
   adaptiveOn : BOOLEAN, adaptive : [Speakers -> Nat \union {Unset}],
   profilesOn : BOOLEAN, margin : Nat \ {0},
   matrix : [Satellites -> [Sources -> Nat \union {Unset}]]]

ASSUME SettingsAssumption ==
  /\ StartSettings \subseteq SettingsType
  /\ Edits.threshold \subseteq Nat /\ Edits.gate \subseteq Nat
  /\ Edits.margin \subseteq Nat \ {0} /\ Edits.delta \subseteq Nat
  /\ Midpoints \subseteq [Speakers -> Nat \union {Unset}]

VARIABLES
  settings,  \* what the settings table holds
  room,      \* what the MQTT client has heard: media, the active satellite
  heard,     \* the utterance, as each of the three hears it
  session,   \* the session: where it is, and what it has found out
  edits      \* edits made

vars == <<settings, room, heard, session, edits>>

\* The distances of two speakers, floating-point numbers, are never equal.
Distinct(voice) ==
  LET of(s) == {voice.usual[s], voice.whisper[s]} \union {voice.mic[m][s] : m \in Satellites}
  IN \A s, t \in Speakers : s # t => of(s) \intersect of(t) \subseteq {NoVoiceprint}

ASSUME VoiceAssumption ==
  \A utterance \in Utterances :
    \A voice \in {utterance.early, utterance.sofar, utterance.whole} :
    /\ voice.usual \in [Speakers -> 0 .. NoVoiceprint - 1]
    /\ voice.whisper \in [Speakers -> 0 .. NoVoiceprint]
    /\ voice.mic \in [Satellites -> [Speakers -> 0 .. NoVoiceprint]]
    /\ voice.whispered \in BOOLEAN
    /\ Distinct(voice)

TypeOK ==
  /\ settings \in SettingsType
  /\ heard \in Utterances
  /\ room.playing \subseteq Sources /\ room.tv \in BOOLEAN
  /\ room.active \in Satellites \union {NoSatellite}
  /\ session.at \in {"hear", "early", "reject", "rejected", "full", "gate", "done"}
  /\ session.satellite \in Satellites \union {NoSatellite}
  /\ session.whisper \in BOOLEAN
  /\ session.early \in Speakers \union {Nobody}
  /\ session.named \in Speakers \union {Nobody}
  /\ session.margin \in Nat /\ session.tighten \in Nat
  /\ edits \in 0 .. MaxEdits

Least(a, b) == IF a <= b THEN a ELSE b
Greatest(a, b) == IF a <= b THEN b ELSE a

-----------------------------------------------------------------------------
(* Settings as the session reads them.                                     *)

\* Satellite, else global.
get_verify_threshold(x, satellite) ==
  IF satellite # NoSatellite /\ x.satThreshold[satellite] # Unset
    THEN x.satThreshold[satellite] ELSE x.threshold

get_margin_gate(x, satellite) ==
  IF satellite # NoSatellite /\ x.satGate[satellite] # Unset
    THEN x.satGate[satellite] ELSE x.gate

\* compute_media_tightening: the strongest of what plays; a source has its rule
\* for the satellite, or counts if it is in the room.  If nothing comes of it,
\* the television's old switch is asked.
compute_media_tightening(x, satellite, area) ==
  LET Rule(m) == IF satellite = NoSatellite THEN Unset ELSE x.matrix[satellite][m]
      Delta(m) == IF Rule(m) # Unset THEN Rule(m)
                  ELSE IF area # NoArea /\ SourceArea[m] = area THEN Boost ELSE 0
      strongest == {m \in room.playing : \A n \in room.playing : Delta(n) <= Delta(m)}
  IN IF \E m \in strongest : Delta(m) > 0
       THEN Delta(CHOOSE m \in strongest : Delta(m) > 0)
       ELSE IF room.tv THEN Boost ELSE 0

\* What a verification is asked with: _verify_kwargs, the base threshold, and
\* the margin gate that is applied to its result.
Asked(x, satellite, whisper, tighten) ==
  [base |-> get_verify_threshold(x, satellite),
   global |-> x.threshold,
   adaptive |-> IF x.adaptiveOn THEN x.adaptive ELSE [s \in Speakers |-> Unset],
   mic |-> IF x.profilesOn THEN satellite ELSE NoSatellite,
   whisper |-> whisper, tighten |-> tighten,
   gate |-> get_margin_gate(x, satellite)]

-----------------------------------------------------------------------------
(* verify_embedding.                                                       *)

\* The query keeps those nearest by their usual voiceprint.
ShortList(voice) ==
  {s \in Speakers :
     Cardinality({t \in Speakers : voice.usual[t] < voice.usual[s]}) < Limit}

\* A bug: the satellite's voiceprints are not told apart by their owner.
DistanceToAny(voice, a, s) ==
  IF \E t \in Speakers : a.mic # NoSatellite /\ voice.mic[a.mic][t] < voice.usual[s]
    THEN voice.mic[a.mic][CHOOSE t \in Speakers : voice.mic[a.mic][t] < voice.usual[s]]
    ELSE voice.usual[s]

\* The best of the usual, the same-microphone and the whisper voiceprint.
Distance(voice, a, s) ==
  LET same == IF a.mic = NoSatellite THEN NoVoiceprint ELSE voice.mic[a.mic][s]
      whisper == IF a.whisper THEN voice.whisper[s] ELSE NoVoiceprint
  IN Least(voice.usual[s], Least(same, whisper))

IsNearest(voice, a, s) ==
  /\ s \in ShortList(voice)
  /\ \A t \in ShortList(voice) : Distance(voice, a, s) <= Distance(voice, a, t)

Nearest(voice, a) == CHOOSE s \in Speakers : IsNearest(voice, a, s)

\* A speaker's own threshold keeps the satellite's offset.
Threshold(a, s) ==
  LET own == IF a.adaptive[s] # Unset THEN a.adaptive[s] + (a.base - a.global) ELSE a.base
  IN Greatest(0, own - a.tighten)

Matches(voice, a, s) ==
  IsNearest(voice, a, s) /\ Distance(voice, a, s) <= Threshold(a, s)

\* _margin_gate_uncertain: the runner-up is too close.
Uncertain(voice, a, s) ==
  /\ a.gate > 0
  /\ \E t \in ShortList(voice) \ {s} :
       Distance(voice, a, t) - Distance(voice, a, s) < a.gate

\* Whom a verification names, if anyone.
Names(voice, a, s) == Matches(voice, a, s) /\ ~Uncertain(voice, a, s)
NamesNobody(voice, a) == \A s \in Speakers : ~Names(voice, a, s)

-----------------------------------------------------------------------------
(* The session.                                                            *)

\* _resolve_satellite_id: an id that is known stays; the room is refreshed.
Resolved ==
  LET known == session.satellite # NoSatellite
      active == room.active
  IN [session EXCEPT
        !.satellite = IF known \/ active = NoSatellite THEN @ ELSE active,
        !.area = IF active # NoSatellite THEN AreaOf[active] ELSE @]

\* A bug: the short window is trusted like the whole utterance.
EarlyAtThreshold(distance, threshold) == distance <= threshold

EarlyEnough(distance, threshold) == 4 * distance <= 3 * threshold

\* _run_early_probe.  Of what it awaits, the verdict comes last; the margin
\* gate alone is read after it.
EarlyProbe ==
  /\ session.at = "hear" /\ ~session.probed
  /\ LET ses == Resolved
         asked == Asked(settings, ses.satellite, ses.whisper, 0)
     IN session' = [ses EXCEPT !.probed = TRUE, !.at = "early", !.asked = asked]
  /\ UNCHANGED <<settings, room, heard, edits>>

\* What it has embedded is the first seconds.
EarlyVerdict ==
  /\ session.at = "early"
  /\ LET asked == [session.asked EXCEPT !.gate = get_margin_gate(settings, session.satellite)]
         Early(s) == /\ Names(heard.early, asked, s)
                     /\ EarlyEnough(Distance(heard.early, asked, s), Threshold(asked, s))
     IN \/ \E s \in Speakers :
             /\ Early(s)
             /\ session' = [session EXCEPT !.at = "hear", !.early = s, !.asked = asked]
        \/ /\ \A s \in Speakers : ~Early(s)
           /\ session' = [session EXCEPT !.at = "hear"]
  /\ UNCHANGED <<settings, room, heard, edits>>

\* _run_early_reject reads the threshold and the margin, and then asks for the
\* media, which may take a request to Home Assistant.
RejectReads ==
  /\ session.at = "hear" /\ ~session.rejectProbed
  /\ LET ses == Resolved
     IN session' = [ses EXCEPT !.rejectProbed = TRUE, !.at = "reject",
          !.base = get_verify_threshold(settings, ses.satellite),
          !.margin = settings.margin,
          !.tighten = compute_media_tightening(settings, ses.satellite, ses.area)]
  /\ UNCHANGED <<settings, room, heard, edits>>

\* early_reject_decision; playing media halve the margin.
early_reject_decision(distance, threshold, margin, media) ==
  IF media THEN 2 * (distance - threshold) >= margin ELSE distance - threshold >= margin

\* The rest of what it is asked with is read now.  A whisper is not rejected.
RejectAsked ==
  [Asked(settings, session.satellite, session.whisper, 0) EXCEPT !.base = session.base]

\* What it has embedded is the audio so far.
TooFar ==
  LET s == Nearest(heard.sofar, RejectAsked)
  IN /\ ~Matches(heard.sofar, RejectAsked, s) /\ session.early = Nobody
     /\ early_reject_decision(Distance(heard.sofar, RejectAsked, s), Threshold(RejectAsked, s),
                              session.margin, session.tighten > 0)

\* A bug: a whisper is far from everyone, and rejected.
RejectWhispersToo ==
  /\ session.at = "reject"
  /\ session' = IF TooFar THEN [session EXCEPT !.at = "rejected", !.asked = RejectAsked]
                ELSE [session EXCEPT !.at = "hear"]
  /\ UNCHANGED <<settings, room, heard, edits>>

RejectVerdict ==
  /\ session.at = "reject"
  /\ session' =
       IF ~TooFar THEN [session EXCEPT !.at = "hear"]
       ELSE IF heard.sofar.whispered THEN [session EXCEPT !.at = "hear", !.whisper = TRUE]
       ELSE [session EXCEPT !.at = "rejected", !.asked = RejectAsked]
  /\ UNCHANGED <<settings, room, heard, edits>>

\* _finish_session: whether it was a whisper, what plays; an early match stands.
FinishReads ==
  /\ session.at = "hear"
  /\ LET ses == [Resolved EXCEPT !.whisper = @ \/ heard.whole.whispered]
     IN session' =
          IF ses.early # Nobody THEN [ses EXCEPT !.at = "done", !.named = ses.early]
          ELSE [ses EXCEPT !.at = "full",
                  !.tighten = compute_media_tightening(settings, ses.satellite, ses.area)]
  /\ UNCHANGED <<settings, room, heard, edits>>

FinishAsks ==
  /\ session.at = "full"
  /\ session' = [session EXCEPT !.at = "gate",
       !.asked = Asked(settings, session.satellite, session.whisper, session.tighten)]
  /\ UNCHANGED <<settings, room, heard, edits>>

\* The margin gate is read when the verdict is there.
FinishNames ==
  /\ session.at = "gate"
  /\ LET asked == [session.asked EXCEPT !.gate = get_margin_gate(settings, session.satellite)]
     IN \/ \E s \in Speakers :
             /\ Names(heard.whole, asked, s)
             /\ session' = [session EXCEPT !.at = "done", !.named = s, !.asked = asked]
        \/ /\ NamesNobody(heard.whole, asked)
           /\ session' = [session EXCEPT !.at = "done", !.asked = asked]
  /\ UNCHANGED <<settings, room, heard, edits>>

-----------------------------------------------------------------------------
(* The user, and Home Assistant.                                           *)

\* The routes of the settings; one value at a time.
Edited ==
  UNION {
    {[settings EXCEPT !.threshold = v] : v \in Edits.threshold},
    {[settings EXCEPT !.satThreshold[m] = v] :
       m \in Satellites, v \in Edits.threshold \union {Unset}},
    {[settings EXCEPT !.gate = v] : v \in Edits.gate},
    {[settings EXCEPT !.margin = v] : v \in Edits.margin},
    {[settings EXCEPT !.satGate[m] = v] : m \in Satellites, v \in Edits.gate \union {Unset}},
    {[settings EXCEPT !.matrix[m][n] = v] :
       m \in Satellites, n \in Sources, v \in Edits.delta \union {Unset}},
    {[settings EXCEPT !.adaptiveOn = ~@], [settings EXCEPT !.profilesOn = ~@]}}

\* compute_adaptive_thresholds: near the global threshold of that time.
Recalibrated(mid) ==
  LET low == Greatest(MinAdaptive, settings.threshold - MaxDelta)
      high == settings.threshold + MaxDelta
      Clamped(v) == Least(high, Greatest(low, v))
  IN [settings EXCEPT !.adaptive =
        [s \in Speakers |-> IF mid[s] = Unset THEN Unset ELSE Clamped(mid[s])]]

Edit ==
  /\ edits < MaxEdits
  /\ settings' \in Edited \union {Recalibrated(mid) : mid \in Midpoints}
  /\ edits' = edits + 1
  /\ UNCHANGED <<room, heard, session>>

\* Media start and stop; what was heard long ago is forgotten.
MediaChange ==
  /\ \/ \E playing \in SUBSET Sources : room' = [room EXCEPT !.playing = playing]
     \/ room' = [room EXCEPT !.tv = ~@]
  /\ UNCHANGED <<settings, heard, session, edits>>

\* The topic active_satellite; an empty message clears it, and it expires.
ActiveSatellite ==
  /\ \E active \in Satellites \union {NoSatellite} : room' = [room EXCEPT !.active = active]
  /\ UNCHANGED <<settings, heard, session, edits>>

-----------------------------------------------------------------------------
Init ==
  /\ settings \in StartSettings
  /\ room = [playing |-> {}, tv |-> FALSE, active |-> NoSatellite]
  /\ heard \in Utterances
  /\ \E named \in Satellites \union {NoSatellite} :
       session = [at |-> "hear", satellite |-> named, area |-> NoArea,
                  whisper |-> FALSE, probed |-> FALSE, rejectProbed |-> FALSE,
                  early |-> Nobody, named |-> Nobody,
                  base |-> 0, margin |-> 0, tighten |-> 0,
                  asked |-> Asked(settings, named, FALSE, 0)]
  /\ edits = 0

Next ==
  \/ EarlyProbe \/ EarlyVerdict
  \/ RejectReads \/ RejectVerdict
  \/ FinishReads \/ FinishAsks \/ FinishNames
  \/ Edit \/ MediaChange \/ ActiveSatellite

Spec == Init /\ [][Next]_vars

-----------------------------------------------------------------------------
(* Properties.                                                             *)

\* What the full gate would be asked with at this moment.
Now == Asked(settings, session.satellite, session.whisper \/ heard.whole.whispered,
             compute_media_tightening(settings, session.satellite, session.area))

\* One voice is heard a second time, and every distance is as it was but for n.
Close(a, b, n) == a <= b + n /\ b <= a + n
Within(n, first, second) ==
  \A s \in Speakers :
    /\ Close(first.usual[s], second.usual[s], n)
    /\ Close(first.whisper[s], second.whisper[s], n)
    /\ \A m \in Satellites : Close(first.mic[m][s], second.mic[m][s], n)

\* The early probe answers for the full gate and skips it, with an "extra margin
\* against the short-window noise".  What the margin buys: if the whole
\* utterance lies off the first seconds by no more than, with what playing media
\* tighten by then, the quarter that the probe leaves, it is within the
\* threshold of the speaker, too.  And what the margin gate buys: the full gate
\* names nobody else if it lies off by less than the gate, and has the same
\* candidates.  Both unless settings, satellite or whisper are others by now.
EarlyMatchStands ==
  session.early # Nobody /\ [Now EXCEPT !.tighten = 0] = session.asked =>
    \A noise \in 0 .. NoVoiceprint : Within(noise, heard.early, heard.whole) =>
      /\ 4 * (noise + Now.tighten) <= Threshold(session.asked, session.early) =>
           Distance(heard.whole, Now, session.early) <= Threshold(Now, session.early)
      /\ noise < Now.gate /\ ShortList(heard.whole) = ShortList(heard.early) =>
           \A s \in Speakers \ {session.early} : ~Names(heard.whole, Now, s)

\* "Enrolled users on a bad day fall in the gap and proceed to the normal full
\* verification" (_run_early_reject), whispering ones too: of the candidates the
\* probe looked at, the full gate names nobody in what was dropped in the middle
\* if the whole utterance lies off the audio so far by less than the margin, of
\* which those use up some whose threshold is above that of the nearest.  Unless
\* settings were edited between what the probe read first and last, or since, or
\* only the whole is found to be whispered.
RejectedIsNobody ==
  /\ session.at = "rejected"
  /\ [Now EXCEPT !.tighten = 0, !.whisper = FALSE] = session.asked
  /\ heard.whole.whispered => heard.sofar.whispered
  => \A noise \in 0 .. NoVoiceprint, nearest \in Speakers :
       /\ Within(noise, heard.sofar, heard.whole)
       /\ IsNearest(heard.sofar, session.asked, nearest)
       => \A s \in ShortList(heard.sofar) :
            ~early_reject_decision(Threshold(session.asked, s) + noise,
                                   Threshold(session.asked, nearest),
                                   session.margin, session.tighten > 0)
              => ~Names(heard.whole, Now, s)

\* What the verdict of the session was about.
Judged == IF session.early # Nobody THEN heard.early ELSE heard.whole

\* "Each extra voiceprint can only ever lower the distance for the speaker it
\* belongs to" (verify_embedding): whoever was named would be without the
\* microphone and whisper voiceprints of the others, too.
WithoutExtras(voice, others) ==
  [voice EXCEPT
     !.whisper = [s \in Speakers |-> IF s \in others THEN NoVoiceprint ELSE @[s]],
     !.mic = [m \in Satellites |->
       [s \in Speakers |-> IF s \in others THEN NoVoiceprint ELSE @[m][s]]]]

ExtraVoiceprintsHelpTheirOwner ==
  session.named # Nobody =>
    \A others \in SUBSET (Speakers \ {session.named}) :
      Names(WithoutExtras(Judged, others), session.asked, session.named)
=============================================================================
