----------------------------- MODULE Gatekeeper -----------------------------
(***************************************************************************)
(* What one connection promises Home Assistant, without probes, upstream   *)
(* recogniser or locks: a session is listened to, stopped, and answered    *)
(* once.  Words are only handed out under a verdict that lets them pass,   *)
(* and a verdict that names a speaker needs an enrolled voice in the       *)
(* session.  MurdockHandler implements it (GatekeeperSpec there).          *)
(***************************************************************************)
EXTENDS Naturals, Sequences

CONSTANTS
  MaxSessions  \* AudioStarts on the connection; bounds the model

Sessions == 1 .. MaxSessions

VARIABLES
  serving,   \* the session being served, 0 before the first
  phase,     \* what the connection does with it
  enrolled,  \* session -> an enrolled voice speaks in it
  words,     \* session -> the answers written: TRUE for a text, FALSE for none
  log        \* session -> outcomes in the recognition log

vars == <<serving, phase, enrolled, words, log>>

Phases == {"idle", "listening", "deciding", "answered", "gone"}

\* The verdicts that name a speaker, let the words pass, or silence them.
Naming == {"early", "match"}
Passing == Naming \union {"short", "no-speakers", "forwarded"}
Silencing == {"empty", "early-reject", "no-speech", "cancelled",
              "no-speakers-blocked", "tv-noise", "embed-failed", "blocked"}
Verdicts == Passing \union Silencing

Init ==
  /\ serving = 0 /\ phase = "idle"
  /\ enrolled \in [Sessions -> BOOLEAN]
  /\ words = [n \in Sessions |-> <<>>]
  /\ log = [n \in Sessions |-> {}]

\* Home Assistant begins a session; one it never stopped goes unanswered.
Begin ==
  /\ phase \in {"idle", "listening", "answered"} /\ serving < MaxSessions
  /\ serving' = serving + 1 /\ phase' = "listening"
  /\ UNCHANGED <<enrolled, words, log>>

Stop ==
  /\ phase = "listening" /\ phase' = "deciding"
  /\ UNCHANGED <<serving, enrolled, words, log>>

\* The verdict falls, the answer is written and logged.
Answer(verdict, spoken) ==
  /\ phase = "deciding" /\ phase' = "answered"
  /\ verdict \in Naming => enrolled[serving]
  /\ spoken => verdict \in Passing
  /\ words' = [words EXCEPT ![serving] = Append(@, spoken)]
  /\ log' = [log EXCEPT ![serving] = @ \union {verdict}]
  /\ UNCHANGED <<serving, enrolled>>

\* Home Assistant hangs up, or the connection goes down on an exception.
Leave ==
  /\ phase # "gone" /\ phase' = "gone"
  /\ UNCHANGED <<serving, enrolled, words, log>>

Decide == \E verdict \in Verdicts, spoken \in BOOLEAN : Answer(verdict, spoken)

Next == Begin \/ Stop \/ Decide \/ Leave

\* A session that was stopped does not stay undecided.
Spec == Init /\ [][Next]_vars /\ WF_vars(phase = "deciding" /\ (Decide \/ Leave))
=============================================================================
