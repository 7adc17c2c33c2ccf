------------------------ MODULE Verification_proofs ------------------------
(***************************************************************************)
(* Proofs about the verification of speakers, for any speakers, voices,    *)
(* settings and edits.  The part about steps is small: what a session      *)
(* keeps is what its verdict was about.  The part about numbers is the     *)
(* comparison of two verifications, of what one probe heard and of the     *)
(* whole utterance, asked differently and apart by some noise.             *)
(***************************************************************************)
EXTENDS Verification, TLAPS

USE DEF vars

AskedType ==
  [base : Nat, global : Nat, adaptive : [Speakers -> Nat \union {Unset}],
   mic : Satellites \union {NoSatellite}, whisper : BOOLEAN, tighten : Nat, gate : Nat]

Areas == {NoArea} \union {AreaOf[m] : m \in Satellites}

SessionType ==
  [at : {"hear", "early", "reject", "rejected", "full", "gate", "done"},
   satellite : Satellites \union {NoSatellite}, area : Areas,
   whisper : BOOLEAN, probed : BOOLEAN, rejectProbed : BOOLEAN,
   early : Speakers \union {Nobody}, named : Speakers \union {Nobody},
   base : Nat, margin : Nat, tighten : Nat, asked : AskedType]

Typed ==
  /\ settings \in SettingsType
  /\ heard \in Utterances
  /\ room \in [playing : SUBSET Sources, tv : BOOLEAN,
               active : Satellites \union {NoSatellite}]
  /\ session \in SessionType
  /\ edits \in Nat

-----------------------------------------------------------------------------
(* Distances and thresholds.                                               *)

IsVoice(voice) ==
  /\ voice.usual \in [Speakers -> 0 .. NoVoiceprint - 1]
  /\ voice.whisper \in [Speakers -> 0 .. NoVoiceprint]
  /\ voice.mic \in [Satellites -> [Speakers -> 0 .. NoVoiceprint]]

LEMMA VoicesAreVoices ==
  ASSUME NEW utterance \in Utterances,
         NEW voice \in {utterance.early, utterance.sofar, utterance.whole}
  PROVE  IsVoice(voice) /\ voice.whispered \in BOOLEAN /\ Distinct(voice)
BY VoiceAssumption DEF IsVoice

LEMMA LeastType ==
  ASSUME NEW a \in Int, NEW b \in Int
  PROVE  /\ Least(a, b) \in {a, b} /\ Least(a, b) <= a /\ Least(a, b) <= b
         /\ Greatest(a, b) \in {a, b} /\ Greatest(a, b) >= a /\ Greatest(a, b) >= b
BY DEF Least, Greatest

\* A distance is one of those to the speaker's own voiceprints, and the usual
\* voiceprint is always there.
LEMMA DistanceIsOwn ==
  ASSUME NEW voice, IsVoice(voice), NEW a \in AskedType, NEW s \in Speakers
  PROVE  /\ Distance(voice, a, s) \in Nat
         /\ Distance(voice, a, s) < NoVoiceprint
         /\ Distance(voice, a, s) \in
              {voice.usual[s], voice.whisper[s]} \union {voice.mic[m][s] : m \in Satellites}
<1> DEFINE same == IF a.mic = NoSatellite THEN NoVoiceprint ELSE voice.mic[a.mic][s]
           whisper == IF a.whisper THEN voice.whisper[s] ELSE NoVoiceprint
           own == {voice.usual[s], voice.whisper[s]} \union {voice.mic[m][s] : m \in Satellites}
<1>1. /\ NoVoiceprint \in Nat
      /\ voice.usual[s] \in 0 .. NoVoiceprint - 1
      /\ voice.whisper[s] \in 0 .. NoVoiceprint
      /\ \A m \in Satellites : voice.mic[m][s] \in 0 .. NoVoiceprint
      /\ a.mic \in Satellites \union {NoSatellite}
  BY VerificationAssumption DEF IsVoice, AskedType
<1>2. same \in 0 .. NoVoiceprint /\ same \in own \union {NoVoiceprint}
  BY <1>1
<1>3. whisper \in 0 .. NoVoiceprint /\ whisper \in own \union {NoVoiceprint}
  BY <1>1
<1>4. voice.usual[s] \in own
  OBVIOUS
<1>5. Distance(voice, a, s) = Least(voice.usual[s], Least(same, whisper))
  BY DEF Distance
<1> HIDE DEF same, whisper, own
<1>6. Distance(voice, a, s) \in own \union {NoVoiceprint}
  BY <1>1, <1>2, <1>3, <1>4, <1>5, LeastType
<1>7. Distance(voice, a, s) \in Nat /\ Distance(voice, a, s) < NoVoiceprint
  <2>1. Least(same, whisper) \in Int /\ Least(same, whisper) >= 0
    BY <1>1, <1>2, <1>3, LeastType
  <2>. QED
    BY <1>1, <1>5, <2>1, LeastType
<1>8. Distance(voice, a, s) \in own
  BY <1>6, <1>7, <1>1
<1>. QED
  BY <1>7, <1>8 DEF own

\* The distance and the short list look at nothing of the question but the
\* microphone and the whisper.
LEMMA DistanceAsked ==
  ASSUME NEW voice, NEW a, NEW b, a.mic = b.mic, a.whisper = b.whisper, NEW s
  PROVE  Distance(voice, a, s) = Distance(voice, b, s)
BY DEF Distance

LEMMA NearestAsked ==
  ASSUME NEW voice, NEW a, NEW b, a.mic = b.mic, a.whisper = b.whisper, NEW s
  PROVE  IsNearest(voice, a, s) <=> IsNearest(voice, b, s)
BY DistanceAsked DEF IsNearest

LEMMA UncertainAsked ==
  ASSUME NEW voice, NEW a, NEW b, a.mic = b.mic, a.whisper = b.whisper,
         a.gate = b.gate, NEW s
  PROVE  Uncertain(voice, a, s) <=> Uncertain(voice, b, s)
BY DistanceAsked DEF Uncertain

\* Nobody shares a distance, so one speaker at most is the nearest.
LEMMA NearestIsOne ==
  ASSUME NEW voice, IsVoice(voice), Distinct(voice), NEW a \in AskedType,
         NEW s \in Speakers, IsNearest(voice, a, s)
  PROVE  s = Nearest(voice, a)
<1>1. Nearest(voice, a) \in Speakers /\ IsNearest(voice, a, Nearest(voice, a))
  BY DEF Nearest
<1> DEFINE t == Nearest(voice, a)
           Of(r) == {voice.usual[r], voice.whisper[r]} \union {voice.mic[m][r] : m \in Satellites}
<1> HIDE DEF t
<1>2. t \in Speakers /\ IsNearest(voice, a, t)
  BY <1>1 DEF t
<1>3. /\ Distance(voice, a, s) <= Distance(voice, a, t)
      /\ Distance(voice, a, t) <= Distance(voice, a, s)
  BY <1>2 DEF IsNearest
<1>4. Distance(voice, a, s) = Distance(voice, a, t)
  BY <1>2, <1>3, DistanceIsOwn
<1>5. Distance(voice, a, s) \in Of(s) /\ Distance(voice, a, s) \in Of(t)
  BY <1>2, <1>4, DistanceIsOwn
<1>6. Distance(voice, a, s) # NoVoiceprint
  BY DistanceIsOwn, VerificationAssumption
<1>7. s # t => Of(s) \intersect Of(t) \subseteq {NoVoiceprint}
  BY <1>2 DEF Distinct
<1>. QED
  BY <1>5, <1>6, <1>7 DEF t

\* The nearer of two is moved by no more than the further moved of them, and so
\* is the distance to a speaker, the nearest of three.
LEMMA LeastIsClose ==
  ASSUME NEW a \in Int, NEW b \in Int, NEW c \in Int, NEW d \in Int, NEW n \in Nat,
         Close(a, c, n), Close(b, d, n)
  PROVE  Close(Least(a, b), Least(c, d), n)
BY DEF Close, Least

LEMMA DistanceIsClose ==
  ASSUME NEW first, IsVoice(first), NEW second, IsVoice(second),
         NEW n \in Nat, Within(n, first, second),
         NEW a \in AskedType, NEW s \in Speakers
  PROVE  Close(Distance(first, a, s), Distance(second, a, s), n)
<1> DEFINE Same(v) == IF a.mic = NoSatellite THEN NoVoiceprint ELSE v.mic[a.mic][s]
           Whisper(v) == IF a.whisper THEN v.whisper[s] ELSE NoVoiceprint
<1>1. /\ NoVoiceprint \in Nat /\ Close(NoVoiceprint, NoVoiceprint, n)
      /\ a.mic \in Satellites \union {NoSatellite}
  BY VerificationAssumption DEF AskedType, Close
<1>2. /\ Close(first.usual[s], second.usual[s], n)
      /\ Close(first.whisper[s], second.whisper[s], n)
      /\ \A m \in Satellites : Close(first.mic[m][s], second.mic[m][s], n)
  BY DEF Within
<1>3. Close(Same(first), Same(second), n) /\ Close(Whisper(first), Whisper(second), n)
  BY <1>1, <1>2
<1>4. ASSUME NEW v \in {first, second}
      PROVE  /\ v.usual[s] \in Int /\ Same(v) \in Int /\ Whisper(v) \in Int
             /\ Distance(v, a, s) = Least(v.usual[s], Least(Same(v), Whisper(v)))
  <2>1. IsVoice(v)
    OBVIOUS
  <2>2. v.usual[s] \in Int /\ Same(v) \in Int /\ Whisper(v) \in Int
    BY <1>1, <2>1 DEF IsVoice
  <2>. QED
    BY <2>2 DEF Distance
<1> HIDE DEF Same, Whisper
<1>5. ASSUME NEW v \in {first, second} PROVE Least(Same(v), Whisper(v)) \in Int
  BY <1>4, LeastType
<1>6. Close(Least(Same(first), Whisper(first)), Least(Same(second), Whisper(second)), n)
  BY <1>3, <1>4, LeastIsClose
<1>. QED
  BY <1>2, <1>4, <1>5, <1>6, LeastIsClose

\* Two questions that differ in the tightening alone.
LEMMA ThresholdTightened ==
  ASSUME NEW a \in AskedType, NEW b \in AskedType, NEW s \in Speakers,
         a.adaptive = b.adaptive, a.base = b.base, a.global = b.global
  PROVE  \E own \in Int :
           /\ Threshold(a, s) = Greatest(0, own - a.tighten)
           /\ Threshold(b, s) = Greatest(0, own - b.tighten)
<1> DEFINE own == IF a.adaptive[s] # Unset THEN a.adaptive[s] + (a.base - a.global)
                  ELSE a.base
<1>1. a.base \in Nat /\ a.global \in Nat /\ a.adaptive[s] \in Nat \union {Unset}
  BY DEF AskedType
<1>2. own \in Int
  BY <1>1
<1>3. /\ Threshold(a, s) = Greatest(0, own - a.tighten)
      /\ Threshold(b, s) = Greatest(0, own - b.tighten)
  BY DEF Threshold
<1>. QED
  BY <1>2, <1>3

LEMMA LessTightened ==
  ASSUME NEW own \in Int, NEW t \in Nat
  PROVE  Greatest(0, own - t) <= Greatest(0, own - 0)
BY DEF Greatest

LEMMA QuarterTightened ==
  ASSUME NEW own \in Int, NEW t \in Nat, NEW n \in Nat, NEW d \in Nat,
         4 * d <= 3 * Greatest(0, own - 0), 4 * (n + t) <= Greatest(0, own - 0)
  PROVE  d + n <= Greatest(0, own - t)
BY DEF Greatest

-----------------------------------------------------------------------------
(* Type correctness.                                                       *)

LEMMA SettingReads ==
  ASSUME NEW x \in SettingsType, NEW m \in Satellites \union {NoSatellite}
  PROVE  get_verify_threshold(x, m) \in Nat /\ get_margin_gate(x, m) \in Nat
BY DEF SettingsType, get_verify_threshold, get_margin_gate

LEMMA AskedIsTyped ==
  ASSUME NEW x \in SettingsType, NEW m \in Satellites \union {NoSatellite},
         NEW whisper \in BOOLEAN, NEW t \in Nat
  PROVE  Asked(x, m, whisper, t) \in AskedType
<1>1. x.threshold \in Nat /\ x.adaptive \in [Speakers -> Nat \union {Unset}]
  BY DEF SettingsType
<1>. QED
  BY <1>1, SettingReads DEF Asked, AskedType

LEMMA TighteningType ==
  ASSUME NEW x \in SettingsType, NEW m \in Satellites \union {NoSatellite}, NEW area,
         room.playing \subseteq Sources
  PROVE  compute_media_tightening(x, m, area) \in Nat
<1> DEFINE Rule(n) == IF m = NoSatellite THEN Unset ELSE x.matrix[m][n]
           Delta(n) == IF Rule(n) # Unset THEN Rule(n)
                       ELSE IF area # NoArea /\ SourceArea[n] = area THEN Boost ELSE 0
           strongest == {n \in room.playing : \A k \in room.playing : Delta(k) <= Delta(n)}
<1>1. ASSUME NEW n \in Sources PROVE Delta(n) \in Nat
  <2>1. Rule(n) \in Nat \union {Unset}
    BY DEF SettingsType
  <2>. QED
    BY <2>1, VerificationAssumption
<1>2. compute_media_tightening(x, m, area) =
        IF \E n \in strongest : Delta(n) > 0
          THEN Delta(CHOOSE n \in strongest : Delta(n) > 0)
          ELSE IF room.tv THEN Boost ELSE 0
  BY DEF compute_media_tightening
<1>3. strongest \subseteq Sources
  OBVIOUS
<1> HIDE DEF Delta, strongest
<1>4. CASE \E n \in strongest : Delta(n) > 0
  BY <1>1, <1>2, <1>3, <1>4
<1>5. CASE ~ \E n \in strongest : Delta(n) > 0
  BY <1>2, <1>5, VerificationAssumption
<1>. QED
  BY <1>4, <1>5

LEMMA ResolvedType ==
  ASSUME Typed
  PROVE  /\ Resolved \in SessionType
         /\ \A f \in {"at", "whisper", "probed", "rejectProbed", "early", "named",
                      "base", "margin", "tighten", "asked"} : Resolved[f] = session[f]
<1>1. \A m \in Satellites : AreaOf[m] \in Areas
  BY DEF Areas
<1>. QED
  BY <1>1 DEF Typed, SessionType, Resolved

\* A calibrated threshold stays one.
LEMMA RecalibratedType ==
  ASSUME NEW mid \in Midpoints, settings \in SettingsType
  PROVE  Recalibrated(mid) \in SettingsType
<1> DEFINE low == Greatest(MinAdaptive, settings.threshold - MaxDelta)
           high == settings.threshold + MaxDelta
           Clamped(v) == Least(high, Greatest(low, v))
<1>1. settings.threshold \in Nat /\ MinAdaptive \in Nat /\ MaxDelta \in Nat
  BY VerificationAssumption DEF SettingsType
<1>2. low \in Nat /\ high \in Nat
  BY <1>1 DEF Greatest
<1>3. ASSUME NEW v \in Nat PROVE Clamped(v) \in Nat
  BY <1>2 DEF Greatest, Least
<1>4. mid \in [Speakers -> Nat \union {Unset}]
  BY SettingsAssumption
<1> HIDE DEF Clamped
<1>5. [s \in Speakers |-> IF mid[s] = Unset THEN Unset ELSE Clamped(mid[s])]
        \in [Speakers -> Nat \union {Unset}]
  BY <1>3, <1>4
<1>6. Recalibrated(mid) = [settings EXCEPT !.adaptive =
        [s \in Speakers |-> IF mid[s] = Unset THEN Unset ELSE Clamped(mid[s])]]
  BY DEF Recalibrated, Clamped
<1>. QED
  BY <1>5, <1>6 DEF SettingsType

LEMMA EditedType ==
  ASSUME settings \in SettingsType PROVE Edited \subseteq SettingsType
<1> SUFFICES ASSUME NEW x \in Edited PROVE x \in SettingsType
  OBVIOUS
<1> USE SettingsAssumption
<1>1. ASSUME NEW v \in Edits.threshold, x = [settings EXCEPT !.threshold = v]
      PROVE  x \in SettingsType
  BY <1>1 DEF SettingsType
<1>2. ASSUME NEW m \in Satellites, NEW v \in Edits.threshold \union {Unset},
             x = [settings EXCEPT !.satThreshold[m] = v]
      PROVE  x \in SettingsType
  BY <1>2 DEF SettingsType
<1>3. ASSUME NEW v \in Edits.gate, x = [settings EXCEPT !.gate = v]
      PROVE  x \in SettingsType
  BY <1>3 DEF SettingsType
<1>4. ASSUME NEW v \in Edits.margin, x = [settings EXCEPT !.margin = v]
      PROVE  x \in SettingsType
  BY <1>4 DEF SettingsType
<1>5. ASSUME NEW m \in Satellites, NEW v \in Edits.gate \union {Unset},
             x = [settings EXCEPT !.satGate[m] = v]
      PROVE  x \in SettingsType
  BY <1>5 DEF SettingsType
<1>6. ASSUME NEW m \in Satellites, NEW n \in Sources, NEW v \in Edits.delta \union {Unset},
             x = [settings EXCEPT !.matrix[m][n] = v]
      PROVE  x \in SettingsType
  <2>1. [settings.matrix EXCEPT ![m][n] = v]
          \in [Satellites -> [Sources -> Nat \union {Unset}]]
    BY DEF SettingsType
  <2>. QED
    BY <1>6, <2>1 DEF SettingsType
<1>7. ASSUME x \in {[settings EXCEPT !.adaptiveOn = ~@], [settings EXCEPT !.profilesOn = ~@]}
      PROVE  x \in SettingsType
  BY <1>7 DEF SettingsType
<1>. QED
  BY <1>1, <1>2, <1>3, <1>4, <1>5, <1>6, <1>7 DEF Edited

LEMMA TypedInit == Init => Typed
<1> SUFFICES ASSUME Init PROVE Typed
  OBVIOUS
<1>1. settings \in SettingsType
  BY SettingsAssumption DEF Init
<1>2. PICK m \in Satellites \union {NoSatellite} :
        session = [at |-> "hear", satellite |-> m, area |-> NoArea,
                   whisper |-> FALSE, probed |-> FALSE, rejectProbed |-> FALSE,
                   early |-> Nobody, named |-> Nobody,
                   base |-> 0, margin |-> 0, tighten |-> 0,
                   asked |-> Asked(settings, m, FALSE, 0)]
  BY DEF Init
<1>3. Asked(settings, m, FALSE, 0) \in AskedType
  BY <1>1, AskedIsTyped
<1>4. session \in SessionType
  BY <1>2, <1>3 DEF SessionType, Areas
<1>. QED
  BY <1>1, <1>4 DEF Init, Typed

\* The margin gate is replaced in a question by the one that is read later.
Regated(a) == [a EXCEPT !.gate = get_margin_gate(settings, session.satellite)]

LEMMA RegatedType ==
  ASSUME Typed, NEW a \in AskedType
  PROVE  /\ Regated(a) \in AskedType
         /\ Regated(a).tighten = a.tighten
BY SettingReads DEF Typed, SessionType, AskedType, Regated

LEMMA RejectAskedType ==
  ASSUME Typed
  PROVE  /\ RejectAsked \in AskedType
         /\ RejectAsked.tighten = 0 /\ RejectAsked.whisper = session.whisper
<1>1. Asked(settings, session.satellite, session.whisper, 0) \in AskedType
  BY AskedIsTyped DEF Typed, SessionType
<1>2. /\ Asked(settings, session.satellite, session.whisper, 0).tighten = 0
      /\ Asked(settings, session.satellite, session.whisper, 0).whisper = session.whisper
  BY DEF Asked
<1>. QED
  BY <1>1, <1>2 DEF RejectAsked, Typed, SessionType, AskedType

LEMMA TypedStep == Typed /\ [Next]_vars => Typed'
<1> SUFFICES ASSUME Typed, [Next]_vars PROVE Typed'
  OBVIOUS
<1> USE DEF Typed
<1>1. CASE EarlyProbe
  <2>1. Asked(settings, Resolved.satellite, Resolved.whisper, 0) \in AskedType
    BY AskedIsTyped, ResolvedType DEF SessionType
  <2>2. session' = [Resolved EXCEPT !.probed = TRUE, !.at = "early",
                      !.asked = Asked(settings, Resolved.satellite, Resolved.whisper, 0)]
    BY <1>1 DEF EarlyProbe
  <2>3. session' \in SessionType
    BY <2>1, <2>2, ResolvedType DEF SessionType
  <2>. QED
    BY <1>1, <2>3 DEF EarlyProbe
<1>2. CASE EarlyVerdict
  <2>1. Regated(session.asked) \in AskedType
    BY RegatedType DEF SessionType
  <2>2. \/ \E s \in Speakers : session' = [session EXCEPT !.at = "hear", !.early = s,
                                                          !.asked = Regated(session.asked)]
        \/ session' = [session EXCEPT !.at = "hear"]
    BY <1>2 DEF EarlyVerdict, Regated
  <2>3. ASSUME NEW s \in Speakers,
               session' = [session EXCEPT !.at = "hear", !.early = s,
                                          !.asked = Regated(session.asked)]
        PROVE  session' \in SessionType
    BY <2>1, <2>3 DEF SessionType
  <2>4. [session EXCEPT !.at = "hear"] \in SessionType
    BY DEF SessionType
  <2>5. session' \in SessionType
    BY <2>2, <2>3, <2>4
  <2>. QED
    BY <1>2, <2>5 DEF EarlyVerdict
<1>3. CASE RejectReads
  <2> DEFINE base == get_verify_threshold(settings, Resolved.satellite)
             tighten == compute_media_tightening(settings, Resolved.satellite, Resolved.area)
  <2>1. base \in Nat /\ tighten \in Nat /\ settings.margin \in Nat
    BY SettingReads, TighteningType, ResolvedType DEF SessionType, SettingsType
  <2>2. session' = [Resolved EXCEPT !.rejectProbed = TRUE, !.at = "reject",
                      !.base = base, !.margin = settings.margin, !.tighten = tighten]
    BY <1>3 DEF RejectReads
  <2> HIDE DEF base, tighten
  <2>3. session' \in SessionType
    BY <2>1, <2>2, ResolvedType DEF SessionType
  <2>. QED
    BY <1>3, <2>3 DEF RejectReads
<1>4. CASE RejectVerdict
  <2>1. session' \in {[session EXCEPT !.at = "hear"],
                      [session EXCEPT !.at = "hear", !.whisper = TRUE],
                      [session EXCEPT !.at = "rejected", !.asked = RejectAsked]}
    BY <1>4 DEF RejectVerdict
  <2>2. [session EXCEPT !.at = "hear"] \in SessionType
    BY DEF SessionType
  <2>3. [session EXCEPT !.at = "hear", !.whisper = TRUE] \in SessionType
    BY DEF SessionType
  <2>4. [session EXCEPT !.at = "rejected", !.asked = RejectAsked] \in SessionType
    BY RejectAskedType DEF SessionType
  <2>5. session' \in SessionType
    BY <2>1, <2>2, <2>3, <2>4
  <2>. QED
    BY <1>4, <2>5 DEF RejectVerdict
<1>5. CASE FinishReads
  <2> DEFINE ses == [Resolved EXCEPT !.whisper = @ \/ heard.whole.whispered]
             tighten == compute_media_tightening(settings, ses.satellite, ses.area)
  <2>1. (Resolved.whisper \/ heard.whole.whispered) \in BOOLEAN
    BY ResolvedType, VoicesAreVoices
  <2>2. ses \in SessionType
    BY <2>1, ResolvedType DEF SessionType
  <2>3. tighten \in Nat
    BY <2>2, TighteningType DEF SessionType
  <2>4. session' \in {[ses EXCEPT !.at = "done", !.named = ses.early],
                      [ses EXCEPT !.at = "full", !.tighten = tighten]}
    BY <1>5 DEF FinishReads
  <2> HIDE DEF ses, tighten
  <2>5. session' \in SessionType
    BY <2>2, <2>3, <2>4 DEF SessionType
  <2>. QED
    BY <1>5, <2>5 DEF FinishReads
<1>6. CASE FinishAsks
  <2>1. Asked(settings, session.satellite, session.whisper, session.tighten) \in AskedType
    BY AskedIsTyped DEF SessionType
  <2>2. session' \in SessionType
    BY <1>6, <2>1 DEF FinishAsks, SessionType
  <2>. QED
    BY <1>6, <2>2 DEF FinishAsks
<1>7. CASE FinishNames
  <2>1. Regated(session.asked) \in AskedType
    BY RegatedType DEF SessionType
  <2>2. \/ \E s \in Speakers : session' = [session EXCEPT !.at = "done", !.named = s,
                                                          !.asked = Regated(session.asked)]
        \/ session' = [session EXCEPT !.at = "done", !.asked = Regated(session.asked)]
    BY <1>7 DEF FinishNames, Regated
  <2>3. session' \in SessionType
    BY <2>1, <2>2 DEF SessionType
  <2>. QED
    BY <1>7, <2>3 DEF FinishNames
<1>8. CASE Edit
  <2>1. settings' \in SettingsType
    BY <1>8, EditedType, RecalibratedType DEF Edit
  <2>. QED
    BY <1>8, <2>1 DEF Edit
<1>9. CASE MediaChange
  BY <1>9 DEF MediaChange
<1>10. CASE ActiveSatellite
  BY <1>10 DEF ActiveSatellite
<1>11. CASE UNCHANGED vars
  BY <1>11
<1>. QED
  BY <1>1, <1>2, <1>3, <1>4, <1>5, <1>6, <1>7, <1>8, <1>9, <1>10, <1>11 DEF Next

\* Every variable keeps its type, whatever is edited and whatever plays: in
\* particular a tightening and a calibrated threshold are never negative.
THEOREM TypeCorrect == Spec => []Typed
BY TypedInit, TypedStep, PTL DEF Spec

-----------------------------------------------------------------------------
(* What a session keeps is what its verdict was about.                     *)

EarlyKept ==
  /\ session.at = "early" => session.probed /\ session.asked.tighten = 0
  /\ ~session.probed \/ session.at \in {"early", "full", "gate"} => session.early = Nobody
  /\ session.early # Nobody =>
       /\ session.asked.tighten = 0
       /\ Names(heard.early, session.asked, session.early)
       /\ EarlyEnough(Distance(heard.early, session.asked, session.early),
                      Threshold(session.asked, session.early))

RejectKept ==
  session.at = "rejected" =>
    /\ ~heard.sofar.whispered
    /\ session.asked.tighten = 0 /\ session.asked.whisper = session.whisper
    /\ \A s \in Speakers : IsNearest(heard.sofar, session.asked, s) =>
         early_reject_decision(Distance(heard.sofar, session.asked, s),
                               Threshold(session.asked, s),
                               session.margin, session.tighten > 0)

NamedKept ==
  /\ session.at # "done" => session.named = Nobody
  /\ session.named # Nobody => Names(Judged, session.asked, session.named)

\* Edits and the room leave the session alone.
Elsewhere == Edit \/ MediaChange \/ ActiveSatellite \/ UNCHANGED vars

LEMMA ElsewhereFrame ==
  ASSUME Elsewhere PROVE session' = session /\ heard' = heard
BY DEF Elsewhere, Edit, MediaChange, ActiveSatellite

LEMMA EarlyStep == Typed /\ EarlyKept /\ [Next]_vars => EarlyKept'
<1> SUFFICES ASSUME Typed, EarlyKept, [Next]_vars PROVE EarlyKept'
  OBVIOUS
<1>1. CASE EarlyProbe
  <2>1. session' = [Resolved EXCEPT !.probed = TRUE, !.at = "early",
                      !.asked = Asked(settings, Resolved.satellite, Resolved.whisper, 0)]
    BY <1>1 DEF EarlyProbe
  <2>2. /\ session'.probed /\ session'.early = session.early
        /\ session'.asked = Asked(settings, Resolved.satellite, Resolved.whisper, 0)
    BY <2>1, ResolvedType DEF SessionType
  <2>3. session.early = Nobody
    BY <1>1 DEF EarlyProbe, EarlyKept
  <2>4. session'.asked.tighten = 0
    BY <2>2 DEF Asked
  <2>. QED
    BY <2>2, <2>3, <2>4 DEF EarlyKept
<1>2. CASE EarlyVerdict
  <2>1. session.at = "early" /\ session.probed /\ session.early = Nobody
        /\ session.asked.tighten = 0 /\ heard' = heard
    BY <1>2 DEF EarlyVerdict, EarlyKept
  <2> DEFINE asked == Regated(session.asked)
  <2>2. asked.tighten = 0
    BY <2>1, RegatedType DEF Typed, SessionType
  <2>3. \/ \E s \in Speakers :
             /\ Names(heard.early, asked, s)
             /\ EarlyEnough(Distance(heard.early, asked, s), Threshold(asked, s))
             /\ session' = [session EXCEPT !.at = "hear", !.early = s, !.asked = asked]
        \/ session' = [session EXCEPT !.at = "hear"]
    BY <1>2 DEF EarlyVerdict, Regated
  <2> HIDE DEF asked
  <2>4. ASSUME NEW s \in Speakers,
               Names(heard.early, asked, s),
               EarlyEnough(Distance(heard.early, asked, s), Threshold(asked, s)),
               session' = [session EXCEPT !.at = "hear", !.early = s, !.asked = asked]
        PROVE  EarlyKept'
    <3>1. /\ session'.at = "hear" /\ session'.probed /\ session'.early = s
          /\ session'.asked = asked
      BY <2>1, <2>4 DEF Typed, SessionType
    <3>. QED
      BY <2>1, <2>2, <2>4, <3>1 DEF EarlyKept
  <2>5. CASE session' = [session EXCEPT !.at = "hear"]
    <3>1. session'.at = "hear" /\ session'.probed /\ session'.early = Nobody
      BY <2>1, <2>5 DEF Typed, SessionType
    <3>. QED
      BY <3>1 DEF EarlyKept
  <2>. QED
    BY <2>3, <2>4, <2>5
<1>3. CASE RejectReads
  <2>1. /\ session'.at = "reject" /\ session'.probed = session.probed
        /\ session'.early = session.early /\ session'.asked = session.asked
        /\ heard' = heard
    BY <1>3, ResolvedType DEF RejectReads, SessionType
  <2>. QED
    BY <2>1 DEF EarlyKept
<1>4. CASE RejectVerdict
  <2>1. CASE TooFar /\ ~heard.sofar.whispered
    <3>1. /\ session'.at = "rejected" /\ session'.early = Nobody
      BY <1>4, <2>1 DEF RejectVerdict, TooFar, Typed, SessionType
    <3>. QED
      BY <3>1 DEF EarlyKept
  <2>2. CASE ~(TooFar /\ ~heard.sofar.whispered)
    <3>1. /\ session'.at = "hear" /\ session'.probed = session.probed
          /\ session'.early = session.early /\ session'.asked = session.asked
          /\ heard' = heard
      BY <1>4, <2>2 DEF RejectVerdict, Typed, SessionType
    <3>. QED
      BY <1>4, <3>1 DEF EarlyKept
  <2>. QED
    BY <2>1, <2>2
<1>5. CASE FinishReads
  <2>1. /\ session'.probed = session.probed
        /\ session'.early = session.early /\ session'.asked = session.asked
        /\ session'.at = IF session.early # Nobody THEN "done" ELSE "full"
        /\ heard' = heard
    BY <1>5, ResolvedType DEF FinishReads, SessionType
  <2>. QED
    BY <2>1 DEF EarlyKept
<1>6. CASE FinishAsks \/ FinishNames
  <2>1. session'.early = session.early /\ session.early = Nobody
        /\ session'.at \in {"gate", "done"}
    BY <1>6 DEF FinishAsks, FinishNames, EarlyKept, Typed, SessionType
  <2>. QED
    BY <2>1 DEF EarlyKept
<1>7. CASE Elsewhere
  BY <1>7, ElsewhereFrame DEF EarlyKept
<1>. QED
  BY <1>1, <1>2, <1>3, <1>4, <1>5, <1>6, <1>7 DEF Next, Elsewhere

\* Whoever is nearest is the one whom the reject probe asks about.
LEMMA TooFarIsNearest ==
  ASSUME Typed, TooFar, NEW s \in Speakers, IsNearest(heard.sofar, RejectAsked, s)
  PROVE  early_reject_decision(Distance(heard.sofar, RejectAsked, s),
                               Threshold(RejectAsked, s),
                               session.margin, session.tighten > 0)
<1>1. s = Nearest(heard.sofar, RejectAsked)
  BY NearestIsOne, RejectAskedType, VoicesAreVoices DEF Typed
<1>. QED
  BY <1>1 DEF TooFar

LEMMA RejectStep == Typed /\ RejectKept /\ [Next]_vars => RejectKept'
<1> SUFFICES ASSUME Typed, RejectKept, [Next]_vars PROVE RejectKept'
  OBVIOUS
<1>1. CASE RejectReads
  <2>1. session'.at = "reject"
    BY <1>1, ResolvedType DEF RejectReads, SessionType
  <2>. QED
    BY <2>1 DEF RejectKept
<1>2. CASE RejectVerdict
  <2>1. CASE TooFar /\ ~heard.sofar.whispered
    <3>1. /\ session'.at = "rejected" /\ session'.asked = RejectAsked
          /\ session'.whisper = session.whisper /\ session'.margin = session.margin
          /\ session'.tighten = session.tighten /\ heard' = heard
      BY <1>2, <2>1 DEF RejectVerdict, Typed, SessionType
    <3>2. \A s \in Speakers : IsNearest(heard.sofar, RejectAsked, s) =>
            early_reject_decision(Distance(heard.sofar, RejectAsked, s),
                                  Threshold(RejectAsked, s),
                                  session.margin, session.tighten > 0)
      BY <2>1, TooFarIsNearest
    <3>3. RejectAsked.tighten = 0 /\ RejectAsked.whisper = session.whisper
      BY RejectAskedType
    <3>. QED
      BY <2>1, <3>1, <3>2, <3>3 DEF RejectKept
  <2>2. CASE ~(TooFar /\ ~heard.sofar.whispered)
    <3>1. session'.at = "hear"
      BY <1>2, <2>2 DEF RejectVerdict, Typed, SessionType
    <3>. QED
      BY <3>1 DEF RejectKept
  <2>. QED
    BY <2>1, <2>2
<1>3. CASE EarlyProbe \/ EarlyVerdict \/ FinishReads \/ FinishAsks \/ FinishNames
  <2>1. session'.at \in {"early", "hear", "full", "gate", "done"}
    BY <1>3, ResolvedType DEF EarlyProbe, EarlyVerdict, FinishReads, FinishAsks,
       FinishNames, Typed, SessionType
  <2>. QED
    BY <2>1 DEF RejectKept
<1>4. CASE Elsewhere
  BY <1>4, ElsewhereFrame DEF RejectKept
<1>. QED
  BY <1>1, <1>2, <1>3, <1>4 DEF Next, Elsewhere

LEMMA NamedStep ==
  Typed /\ EarlyKept /\ NamedKept /\ [Next]_vars => NamedKept'
<1> SUFFICES ASSUME Typed, EarlyKept, NamedKept, [Next]_vars PROVE NamedKept'
  OBVIOUS
<1>1. CASE EarlyProbe \/ EarlyVerdict \/ RejectReads \/ RejectVerdict \/ FinishAsks
  <2>1. session.named = Nobody
    BY <1>1 DEF EarlyProbe, EarlyVerdict, RejectReads, RejectVerdict, FinishAsks, NamedKept
  <2>2. CASE EarlyProbe \/ RejectReads
    BY <2>1, <2>2, ResolvedType DEF EarlyProbe, RejectReads, NamedKept, SessionType
  <2>3. CASE EarlyVerdict \/ FinishAsks
    BY <2>1, <2>3 DEF EarlyVerdict, FinishAsks, NamedKept, Typed, SessionType
  <2>4. CASE RejectVerdict
    <3>1. session' \in {[session EXCEPT !.at = "hear"],
                        [session EXCEPT !.at = "hear", !.whisper = TRUE],
                        [session EXCEPT !.at = "rejected", !.asked = RejectAsked]}
      BY <2>4 DEF RejectVerdict
    <3>2. session'.named = session.named
      BY <3>1 DEF Typed, SessionType
    <3>. QED
      BY <2>1, <3>2 DEF NamedKept
  <2>. QED
    BY <1>1, <2>2, <2>3, <2>4
<1>2. CASE FinishReads
  <2>1. CASE session.early # Nobody
    <3>1. /\ session'.at = "done" /\ session'.named = session.early
          /\ session'.asked = session.asked /\ session'.early = session.early
          /\ heard' = heard
      BY <1>2, <2>1, ResolvedType DEF FinishReads, SessionType
    <3>. QED
      BY <2>1, <3>1 DEF EarlyKept, NamedKept, Judged
  <2>2. CASE session.early = Nobody
    <3>1. session.named = Nobody
      BY <1>2 DEF FinishReads, NamedKept
    <3>2. session'.named = session.named
      BY <1>2, <2>2, ResolvedType DEF FinishReads, SessionType
    <3>. QED
      BY <3>1, <3>2 DEF NamedKept
  <2>. QED
    BY <2>1, <2>2
<1>3. CASE FinishNames
  <2> DEFINE asked == Regated(session.asked)
  <2>1. \/ \E s \in Speakers :
             /\ Names(heard.whole, asked, s)
             /\ session' = [session EXCEPT !.at = "done", !.named = s, !.asked = asked]
        \/ session' = [session EXCEPT !.at = "done", !.asked = asked]
    BY <1>3 DEF FinishNames, Regated
  <2>2. heard' = heard /\ session.named = Nobody /\ session.early = Nobody
    BY <1>3 DEF FinishNames, NamedKept, EarlyKept
  <2> HIDE DEF asked
  <2>3. ASSUME NEW s \in Speakers, Names(heard.whole, asked, s),
               session' = [session EXCEPT !.at = "done", !.named = s, !.asked = asked]
        PROVE  NamedKept'
    <3>1. /\ session'.at = "done" /\ session'.named = s /\ session'.asked = asked
          /\ session'.early = session.early
      BY <2>3 DEF Typed, SessionType
    <3>2. Judged' = heard.whole
      BY <2>2, <3>1 DEF Judged
    <3>. QED
      BY <2>3, <3>1, <3>2 DEF NamedKept
  <2>4. CASE session' = [session EXCEPT !.at = "done", !.asked = asked]
    <3>1. session'.at = "done" /\ session'.named = Nobody
      BY <2>2, <2>4 DEF Typed, SessionType
    <3>. QED
      BY <3>1 DEF NamedKept
  <2>. QED
    BY <2>1, <2>3, <2>4
<1>4. CASE Elsewhere
  BY <1>4, ElsewhereFrame DEF NamedKept, Judged
<1>. QED
  BY <1>1, <1>2, <1>3, <1>4 DEF Next, Elsewhere

Kept == Typed /\ EarlyKept /\ RejectKept /\ NamedKept

LEMMA KeptAlways == Spec => []Kept
<1>1. Init => EarlyKept /\ RejectKept /\ NamedKept
  BY DEF Init, EarlyKept, RejectKept, NamedKept
<1>. QED
  BY <1>1, TypedInit, TypedStep, EarlyStep, RejectStep, NamedStep, PTL DEF Spec, Kept

-----------------------------------------------------------------------------
(* The verdicts.                                                           *)

LEMMA NowType ==
  ASSUME Typed
  PROVE  /\ Now \in AskedType
         /\ Now.whisper = (session.whisper \/ heard.whole.whispered)
<1>1. (session.whisper \/ heard.whole.whispered) \in BOOLEAN
  BY VoicesAreVoices DEF Typed, SessionType
<1>2. compute_media_tightening(settings, session.satellite, session.area) \in Nat
  BY TighteningType DEF Typed, SessionType
<1>3. Now \in AskedType
  BY <1>1, <1>2, AskedIsTyped DEF Now, Typed, SessionType
<1>. QED
  BY <1>3 DEF Now, Asked

\* An early match is within the threshold of the whole utterance, too, if that
\* and the first seconds are apart by no more than the quarter which playing
\* media leave; and by less than the margin gate, the full gate names nobody
\* else of the same candidates: for any speakers, voiceprints and settings.
THEOREM EarlyMatchHolds == Spec => []EarlyMatchStands
<1>1. Kept => EarlyMatchStands
  <2> SUFFICES ASSUME Kept, session.early # Nobody,
                      [Now EXCEPT !.tighten = 0] = session.asked,
                      NEW noise \in 0 .. NoVoiceprint,
                      Within(noise, heard.early, heard.whole)
               PROVE  /\ 4 * (noise + Now.tighten) <= Threshold(session.asked, session.early) =>
                           Distance(heard.whole, Now, session.early)
                             <= Threshold(Now, session.early)
                      /\ noise < Now.gate /\ ShortList(heard.whole) = ShortList(heard.early) =>
                           \A t \in Speakers \ {session.early} : ~Names(heard.whole, Now, t)
    BY DEF EarlyMatchStands
  <2> DEFINE s == session.early
             a == session.asked
  <2>1. /\ s \in Speakers /\ a \in AskedType /\ Now \in AskedType /\ noise \in Nat
        /\ IsVoice(heard.early) /\ IsVoice(heard.whole)
    BY NowType, VoicesAreVoices, VerificationAssumption DEF Kept, Typed, SessionType
  <2>2. /\ a.mic = Now.mic /\ a.whisper = Now.whisper /\ a.gate = Now.gate
        /\ a.base = Now.base /\ a.global = Now.global /\ a.adaptive = Now.adaptive
    BY <2>1 DEF AskedType
  <2>3. /\ a.tighten = 0 /\ Names(heard.early, a, s)
        /\ 4 * Distance(heard.early, a, s) <= 3 * Threshold(a, s)
    BY DEF Kept, EarlyKept, EarlyEnough
  <2> HIDE DEF s, a
  <2>4. ASSUME NEW r \in Speakers
        PROVE  /\ Distance(heard.early, a, r) \in Nat /\ Distance(heard.whole, a, r) \in Nat
               /\ Distance(heard.whole, Now, r) = Distance(heard.whole, a, r)
               /\ Close(Distance(heard.early, a, r), Distance(heard.whole, a, r), noise)
    BY <2>1, <2>2, DistanceIsOwn, DistanceIsClose, DistanceAsked
  <2>5. ASSUME 4 * (noise + Now.tighten) <= Threshold(a, s)
        PROVE  Distance(heard.whole, Now, s) <= Threshold(Now, s)
    <3>1. PICK own \in Int :
            /\ Threshold(a, s) = Greatest(0, own - a.tighten)
            /\ Threshold(Now, s) = Greatest(0, own - Now.tighten)
      BY <2>1, <2>2, ThresholdTightened
    <3>2. Now.tighten \in Nat
      BY <2>1 DEF AskedType
    <3>3. Distance(heard.early, a, s) + noise <= Threshold(Now, s)
      BY <2>1, <2>3, <2>4, <2>5, <3>1, <3>2, QuarterTightened
    <3>4. Threshold(Now, s) \in Int
      BY <3>1, <3>2 DEF Greatest
    <3>. QED
      BY <2>1, <2>4, <3>3, <3>4 DEF Close
  <2>6. ASSUME noise < Now.gate, ShortList(heard.whole) = ShortList(heard.early),
               NEW t \in Speakers \ {s}, Names(heard.whole, Now, t)
        PROVE  FALSE
    <3>1. a.gate \in Nat /\ a.gate > 0 /\ noise < a.gate
      BY <2>1, <2>2, <2>6 DEF AskedType
    <3>2. s \in ShortList(heard.early) \ {t} /\ t \in ShortList(heard.early) \ {s}
      BY <2>1, <2>3, <2>6 DEF Names, Matches, IsNearest
    <3>3. ~(Distance(heard.early, a, t) - Distance(heard.early, a, s) < a.gate)
      BY <2>3, <3>1, <3>2 DEF Names, Uncertain
    <3>4. ~(Distance(heard.whole, Now, s) - Distance(heard.whole, Now, t) < a.gate)
      BY <2>2, <2>6, <3>1, <3>2 DEF Names, Uncertain
    <3>. QED
      BY <2>1, <2>4, <3>1, <3>3, <3>4 DEF Close
  <2>. QED
    BY <2>5, <2>6 DEF s, a
<1>. QED
  BY <1>1, KeptAlways, PTL

\* What the reject probe drops is given to none of its candidates by the full
\* gate if the whole utterance and the audio so far are apart by less than the
\* margin, less what a candidate's threshold exceeds that of the nearest: for
\* any speakers, voiceprints and settings.
THEOREM RejectedHolds == Spec => []RejectedIsNobody
<1>1. Kept => RejectedIsNobody
  <2> SUFFICES ASSUME Kept, session.at = "rejected",
                      [Now EXCEPT !.tighten = 0, !.whisper = FALSE] = session.asked,
                      heard.whole.whispered => heard.sofar.whispered,
                      NEW noise \in 0 .. NoVoiceprint, NEW nearest \in Speakers,
                      Within(noise, heard.sofar, heard.whole),
                      IsNearest(heard.sofar, session.asked, nearest),
                      NEW s \in ShortList(heard.sofar), Names(heard.whole, Now, s)
               PROVE  early_reject_decision(Threshold(session.asked, s) + noise,
                        Threshold(session.asked, nearest), session.margin,
                        session.tighten > 0)
    BY DEF RejectedIsNobody
  <2> DEFINE a == session.asked
             v == heard.sofar
             w == heard.whole
  <2>1. /\ a \in AskedType /\ Now \in AskedType /\ noise \in Nat
        /\ IsVoice(v) /\ IsVoice(w) /\ s \in Speakers
    BY NowType, VoicesAreVoices, VerificationAssumption
    DEF Kept, Typed, SessionType, ShortList
  <2>2. /\ a.mic = Now.mic /\ a.whisper = FALSE /\ a.tighten = 0
        /\ a.base = Now.base /\ a.global = Now.global /\ a.adaptive = Now.adaptive
    BY <2>1 DEF AskedType
  <2>3. a.whisper = Now.whisper
    <3>1. ~heard.sofar.whispered /\ session.whisper = FALSE
      BY <2>2 DEF Kept, RejectKept
    <3>2. heard.whole.whispered \in BOOLEAN
      BY VoicesAreVoices DEF Kept, Typed
    <3>. QED
      BY <2>2, <3>1, <3>2, NowType DEF Kept
  <2>4. early_reject_decision(Distance(v, a, nearest), Threshold(a, nearest),
                              session.margin, session.tighten > 0)
    BY DEF Kept, RejectKept
  <2>5. Distance(v, a, nearest) <= Distance(v, a, s)
    BY DEF IsNearest
  <2>6. session.margin \in Int /\ (session.tighten > 0) \in BOOLEAN
    BY DEF Kept, Typed, SessionType
  <2> HIDE DEF a, v, w
  <2>7. Close(Distance(v, a, s), Distance(w, a, s), noise)
    BY <2>1, DistanceIsClose DEF v, w
  <2>8. Distance(w, a, s) <= Threshold(Now, s)
    BY <2>2, <2>3, DistanceAsked DEF Names, Matches, w
  <2>9. PICK own \in Int :
          /\ Threshold(a, s) = Greatest(0, own - a.tighten)
          /\ Threshold(Now, s) = Greatest(0, own - Now.tighten)
    BY <2>1, <2>2, ThresholdTightened
  <2>10. Threshold(Now, s) <= Threshold(a, s)
    BY <2>1, <2>2, <2>9, LessTightened DEF AskedType
  <2>11. /\ Threshold(a, s) \in Int /\ Threshold(Now, s) \in Int
         /\ Threshold(a, nearest) \in Int
    <3>1. a.tighten \in Nat /\ Now.tighten \in Nat
      BY <2>1 DEF AskedType
    <3>2. \E own2 \in Int : Threshold(a, nearest) = Greatest(0, own2 - a.tighten)
      BY <2>1, ThresholdTightened
    <3>. QED
      BY <2>9, <3>1, <3>2 DEF Greatest
  <2>12. /\ Distance(v, a, nearest) \in Nat /\ Distance(v, a, s) \in Nat
         /\ Distance(w, a, s) \in Nat
    BY <2>1, DistanceIsOwn
  <2>13. Distance(v, a, nearest) <= Threshold(a, s) + noise
    BY <2>1, <2>5, <2>7, <2>8, <2>10, <2>11, <2>12 DEF Close
  <2>14. Threshold(a, s) + noise \in Int
    BY <2>1, <2>11
  <2>15. early_reject_decision(Threshold(a, s) + noise, Threshold(a, nearest),
                               session.margin, session.tighten > 0)
    <3> DEFINE far == Distance(v, a, nearest)
               limit == Threshold(a, nearest)
               reach == Threshold(a, s) + noise
    <3>1. far \in Int /\ limit \in Int /\ reach \in Int /\ far <= reach
      BY <2>11, <2>12, <2>13, <2>14
    <3>2. early_reject_decision(far, limit, session.margin, session.tighten > 0)
      BY <2>4
    <3> HIDE DEF far, limit, reach
    <3>3. early_reject_decision(reach, limit, session.margin, session.tighten > 0)
      BY <2>6, <3>1, <3>2 DEF early_reject_decision
    <3>. QED
      BY <3>3 DEF limit, reach
  <2>. QED
    BY <2>15 DEF a
<1>. QED
  BY <1>1, KeptAlways, PTL

\* Without the extra voiceprints of others, their distances can only grow.
LEMMA ExtrasLower ==
  ASSUME NEW voice, IsVoice(voice), NEW a \in AskedType, NEW others \in SUBSET Speakers,
         NEW s \in Speakers
  PROVE  /\ IsVoice(WithoutExtras(voice, others))
         /\ ShortList(WithoutExtras(voice, others)) = ShortList(voice)
         /\ Distance(voice, a, s) <= Distance(WithoutExtras(voice, others), a, s)
         /\ s \notin others =>
              Distance(WithoutExtras(voice, others), a, s) = Distance(voice, a, s)
<1> DEFINE w == WithoutExtras(voice, others)
<1>1. NoVoiceprint \in Nat /\ NoVoiceprint \in 0 .. NoVoiceprint
  BY VerificationAssumption
<1>2. /\ w.usual = voice.usual
      /\ w.whisper = [r \in Speakers |-> IF r \in others THEN NoVoiceprint ELSE voice.whisper[r]]
      /\ w.mic = [m \in Satellites |->
           [r \in Speakers |-> IF r \in others THEN NoVoiceprint ELSE voice.mic[m][r]]]
  BY DEF WithoutExtras, IsVoice
<1> HIDE DEF w
<1>3. IsVoice(w)
  BY <1>1, <1>2 DEF IsVoice
<1>4. ShortList(w) = ShortList(voice)
  BY <1>2 DEF ShortList
<1>5. s \notin others => Distance(w, a, s) = Distance(voice, a, s)
  BY <1>2 DEF Distance, AskedType
<1>6. ASSUME s \in others PROVE Distance(voice, a, s) <= Distance(w, a, s)
  <2>1. /\ voice.usual[s] \in Nat /\ voice.usual[s] < NoVoiceprint
        /\ Distance(voice, a, s) \in Nat
    BY <1>1, DistanceIsOwn DEF IsVoice
  <2>2. Distance(w, a, s) = Least(voice.usual[s], Least(NoVoiceprint, NoVoiceprint))
    BY <1>2, <1>6 DEF Distance, AskedType
  <2>3. Distance(w, a, s) = voice.usual[s]
    BY <1>1, <2>1, <2>2 DEF Least
  <2>4. Distance(voice, a, s) <= voice.usual[s]
    <3> DEFINE rest == Least(IF a.mic = NoSatellite THEN NoVoiceprint ELSE voice.mic[a.mic][s],
                             IF a.whisper THEN voice.whisper[s] ELSE NoVoiceprint)
    <3>1. Distance(voice, a, s) = Least(voice.usual[s], rest)
      BY DEF Distance
    <3> HIDE DEF rest
    <3>2. CASE voice.usual[s] <= rest
      BY <2>1, <3>1, <3>2 DEF Least
    <3>3. CASE ~(voice.usual[s] <= rest)
      <4>1. rest \in Nat
        BY <2>1, <3>1, <3>3 DEF Least
      <4>. QED
        BY <2>1, <3>3, <3>1, <4>1 DEF Least
    <3>. QED
      BY <3>2, <3>3
  <2>. QED
    BY <2>3, <2>4
<1>7. Distance(voice, a, s) <= Distance(w, a, s)
  BY <1>5, <1>6, DistanceIsOwn
<1>. QED
  BY <1>3, <1>4, <1>5, <1>7 DEF w

\* Whoever is named would be named if nobody else had a microphone's or a
\* whisper's voiceprint: for any number of speakers and voiceprints.
THEOREM ExtrasHelpTheirOwner == Spec => []ExtraVoiceprintsHelpTheirOwner
<1>1. Kept => ExtraVoiceprintsHelpTheirOwner
  <2> SUFFICES ASSUME Kept, session.named # Nobody,
                      NEW others \in SUBSET (Speakers \ {session.named})
               PROVE  Names(WithoutExtras(Judged, others), session.asked, session.named)
    BY DEF ExtraVoiceprintsHelpTheirOwner
  <2> DEFINE s == session.named
             a == session.asked
             w == WithoutExtras(Judged, others)
  <2>1. s \in Speakers /\ a \in AskedType /\ others \in SUBSET Speakers /\ s \notin others
    BY DEF Kept, Typed, SessionType
  <2>2. Names(Judged, a, s) /\ IsVoice(Judged)
    BY VoicesAreVoices DEF Kept, NamedKept, Typed, Judged
  <2> HIDE DEF s, a
  <2>3. ShortList(w) = ShortList(Judged) /\ IsVoice(w)
    BY <2>1, <2>2, ExtrasLower
  <2>4. Distance(w, a, s) = Distance(Judged, a, s)
    BY <2>1, <2>2, ExtrasLower
  <2>5. \A t \in Speakers : Distance(Judged, a, t) <= Distance(w, a, t)
    BY <2>1, <2>2, ExtrasLower
  <2>6. \A t \in Speakers : Distance(Judged, a, t) \in Nat /\ Distance(w, a, t) \in Nat
    BY <2>1, <2>2, <2>3, DistanceIsOwn
  <2>7. ShortList(Judged) \subseteq Speakers
    BY DEF ShortList
  <2> HIDE DEF w
  <2>8. IsNearest(w, a, s)
    BY <2>1, <2>2, <2>3, <2>4, <2>5, <2>6, <2>7 DEF Names, Matches, IsNearest
  <2>9. Distance(w, a, s) <= Threshold(a, s)
    BY <2>2, <2>4 DEF Names, Matches
  <2>10. ~Uncertain(w, a, s)
    <3>1. a.gate \in Nat
      BY <2>1 DEF AskedType
    <3>. QED
      BY <2>1, <2>2, <2>3, <2>4, <2>5, <2>6, <2>7, <3>1 DEF Names, Uncertain
  <2>. QED
    BY <2>8, <2>9, <2>10 DEF Names, Matches, s, a, w
<1>. QED
  BY <1>1, KeptAlways, PTL
=============================================================================
