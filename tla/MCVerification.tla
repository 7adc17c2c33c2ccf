---------------------------- MODULE MCVerification ----------------------------
(* Three speakers of whom two are candidates; one satellite, whose room has   *)
(* a television; thresholds of 4, 6 or 8, a boost of 1, a reject margin of 4. *)
(* The first utterance is Alice's by a hair: at a threshold of 8 the early    *)
(* probe just lets her pass, and noise and television take the rest.          *)
EXTENDS Verification

CONSTANTS alice, bob, carol, kitchen, tv

MCAreaOf == [m \in Satellites |-> kitchen]
MCSourceArea == [m \in Sources |-> kitchen]

NoExtra == [s \in Speakers |-> NoVoiceprint]
Extra(s, d) == [NoExtra EXCEPT ![s] = d]

Usual(a, b, c) ==
  [s \in Speakers |-> CASE s = alice -> a [] s = bob -> b [] s = carol -> c]

\* The usual distances in the first seconds, the audio so far and the whole.
Heard(early, sofar, whole) == [early |-> early, sofar |-> sofar, whole |-> whole]
MCUsual ==
  {Heard(Usual(6, 9, 12), Usual(6, 9, 12), Usual(7, 10, 12)),    \* Alice all along,
   Heard(Usual(3, 5, 12), Usual(4, 9, 12), Usual(5, 3, 12)),     \* then rather Bob;
   Heard(Usual(4, 6, 12), Usual(8, 10, 12), Usual(5, 6, 12)),    \* Alice with a gap,
   Heard(Usual(9, 10, 12), Usual(7, 8, 12), Usual(4, 10, 12)),   \* nobody, then Alice,
   Heard(Usual(4, 10, 7), Usual(9, 10, 12), Usual(6, 10, 5)),    \* or Carol;
   Heard(Usual(9, 10, 12), Usual(9, 10, 12), Usual(9, 10, 12))}  \* nobody

\* What one of them may have of other voiceprints, and whether the audio so far
\* and the whole are whispered; without a whisper's voiceprint, neither.
MCExtras ==
  [whisper : {NoExtra, Extra(alice, 3), Extra(bob, 2)},
   mic : {[m \in Satellites |-> NoExtra], [m \in Satellites |-> Extra(alice, 4)],
          [m \in Satellites |-> Extra(carol, 1)]}]
MCWhispered == {Heard(b, b, c) : b \in BOOLEAN, c \in BOOLEAN}

MCUtterances ==
  LET Take(u, x, w) ==
        [stage \in DOMAIN u |-> [usual |-> u[stage], whisper |-> x.whisper,
                                 mic |-> x.mic, whispered |-> w[stage]]]
  IN {v \in {Take(u, x, w) : u \in MCUsual, x \in MCExtras, w \in MCWhispered} :
        /\ \A stage \in DOMAIN v : Distinct(v[stage])
        /\ v.whole.whisper = NoExtra => ~v.sofar.whispered /\ ~v.whole.whispered
        /\ v.sofar.whispered => v.whole.whispered}

Settings(th, adaptive, gate) ==
  [threshold |-> th, satThreshold |-> [m \in Satellites |-> Unset],
   gate |-> gate, satGate |-> [m \in Satellites |-> Unset],
   adaptiveOn |-> TRUE, adaptive |-> adaptive, profilesOn |-> TRUE,
   margin |-> 4, matrix |-> [m \in Satellites |-> [n \in Sources |-> Unset]]]

None == [s \in Speakers |-> Unset]
MCMidpoints == {[None EXCEPT ![alice] = 5]}
MCStartSettings == {Settings(4, None, 0), Settings(6, [None EXCEPT ![alice] = 5], 2)}
MCEdits == [threshold |-> {4, 8}, gate |-> {0, 2},
            delta |-> {0, 2}, margin |-> {2}]
=============================================================================
